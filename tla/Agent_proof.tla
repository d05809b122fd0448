---------------------------- MODULE Agent_proof ----------------------------
(* Proofs about the agents: Agent, for any symbols, any number of positions  *)
(* and lives, and any number of observations before a regime is committed;   *)
(* Debate, for any rounds, personas and proposals; Exposure, for any assets, *)
(* correlations, charts, records and caps; LiveLink, the dashboard's view of *)
(* the agent's breaker, for any caps of its gateway; and Scenarios, what the *)
(* agent makes of any chart.                                                 *)
EXTENDS Agent, Debate, Exposure, LiveLink, Scenarios, CollectionLemmas,
        SequenceTheorems, TLAPS

-----------------------------------------------------------------------------
(* Agent: type correctness *)

CycleRecord == [pc: Pcs, todo: SUBSET Symbols, live: SUBSET (Symbols \X (1..MaxLives)),
                barred: BOOLEAN, seen: SUBSET Symbols, cur: SUBSET Symbols,
                of: 0..MaxLives, side: Sides \union {0}]
PositionRecord == [side: Sides \union {0}, life: 0..MaxLives, cuts: Nat]
RegimeRecord == [now: Regimes \union {"none"}, count: 0..(Bars - 1)]
Awaiting == {"closing", "derisking", "deciding", "entering"}

\* An open position has a life.
PosInv ==
  /\ pos \in [Symbols -> PositionRecord]
  /\ \A s \in Symbols : IsOpen(s) => pos[s].life > 0

\* What is awaited is of one symbol.
CycleInv ==
  /\ cycle \in CycleRecord
  /\ cycle.pc \in Awaiting => \E s \in Symbols : cycle.cur = {s}
  /\ cycle.pc \notin Awaiting => cycle.cur = {}

\* What is to be cut, or is remembered as cut, is of a life that its symbol has
\* had.
ExitInv ==
  /\ derisked \subseteq Symbols \X (1..MaxLives)
  /\ \A d \in derisked : d[2] <= pos[d[1]].life
  /\ lastClose \in [Symbols -> [of: -1..MaxLives, ok: BOOLEAN]]
  /\ cycle.pc = "derisking" => \A s \in cycle.cur : cycle.of \in 1..pos[s].life

RestInv ==
  /\ regime \in [Symbols -> RegimeRecord]
  /\ setup \in [Symbols -> {"none", "live", "dead"}]
  /\ cooling \subseteq Symbols
  /\ breaker \in {"clear", "tripped", "cooled"}
  /\ market \in [{"unsafe", "streak"} -> BOOLEAN]
  /\ loss \in [Symbols -> Losses]

TypeInv == PosInv /\ CycleInv /\ ExitInv /\ RestInv

\* The strengthening is one: it has the type of Agent's own invariant.
LEMMA TypeInvGivesType == TypeInv => TypeOK
<1> SUFFICES ASSUME TypeInv PROVE TypeOK
  OBVIOUS
<1>1. Cardinality(cycle.cur) = IF cycle.pc \in Awaiting THEN 1 ELSE 0
  BY FS_EmptySet, FS_Singleton DEF TypeInv, CycleInv
<1>2. \A d \in derisked : d[2] \in 1..pos[d[1]].life
  BY DEF TypeInv, PosInv, ExitInv, PositionRecord
<1> QED
  BY <1>1, <1>2 DEF TypeInv, PosInv, CycleInv, ExitInv, RestInv, TypeOK, Awaiting,
     CycleRecord, PositionRecord, RegimeRecord

\* The agent starts flat, idle and with nothing remembered.
LEMMA TypeInit == Init => TypeInv
<1> SUFFICES ASSUME Init PROVE TypeInv
  OBVIOUS
<1>1. PosInv
  BY AgentAssumption DEF Init, PosInv, PositionRecord, IsOpen
<1>2. CycleInv
  BY AgentAssumption DEF Init, CycleInv, CycleRecord, Awaiting, Pcs, All
<1>3. ExitInv
  <2>1. NoSignal \in [of: -1..MaxLives, ok: BOOLEAN]
    BY AgentAssumption DEF NoSignal
  <2> QED
    BY <2>1 DEF Init, ExitInv
<1>4. RestInv
  BY AgentAssumption DEF Init, RestInv, RegimeRecord, Losses
<1> QED
  BY <1>1, <1>2, <1>3, <1>4 DEF TypeInv

\* A position whose loss is forgotten or kept keeps its band.
LEMMA LossKeepsType ==
  ASSUME RestInv, NEW s \in Symbols, NEW changed \in BOOLEAN, NoLossAfter(s, changed)
  PROVE  loss' \in [Symbols -> Losses]
BY DEF RestInv, NoLossAfter, Losses

\* An observation of the regime keeps its record.
LEMMA ObserveKeepsType ==
  ASSUME RestInv, NEW s \in Symbols, NEW seen \in Regimes, Observe(s, seen)
  PROVE  regime' \in [Symbols -> RegimeRecord]
<1>1. Observed(regime[s], seen) \in RegimeRecord
  BY AgentAssumption DEF RestInv, RegimeRecord, Observed
<1> QED
  BY <1>1 DEF RestInv, Observe

\* Finishing a symbol leaves nothing awaited.
LEMMA DoneKeepsCycle ==
  ASSUME CycleInv, NEW s \in Symbols, NEW pc \in {"exiting", "scanning"}, Done(s, pc)
  PROVE  CycleInv' /\ cycle'.pc = pc
<1>1. 0 \in 0..MaxLives /\ pc \in Pcs /\ pc \notin Awaiting
  BY AgentAssumption DEF Awaiting, Pcs
<1>2. cycle' \in CycleRecord /\ cycle'.pc = pc /\ cycle'.cur = {}
  BY <1>1 DEF CycleInv, CycleRecord, Done, All
<1> QED
  BY <1>1, <1>2 DEF CycleInv

\* No step of the cycle or of its surroundings leaves the type.
LEMMA TypeStep == TypeInv /\ [Next]_vars => TypeInv'
<1> SUFFICES ASSUME TypeInv, [Next]_vars PROVE TypeInv'
  OBVIOUS
<1> USE DEF TypeInv
<1>1. CASE StartCycle
  <2>1. CycleInv'
    BY <1>1 DEF StartCycle, CycleInv, CycleRecord, Awaiting, Pcs
  <2> QED
    BY <1>1, <2>1 DEF StartCycle, PosInv, ExitInv, RestInv, IsOpen, exits, world, CycleInv, CycleRecord
<1>2. CASE Probed
  <2>1. CycleInv'
    BY <1>2 DEF Probed, CycleInv, CycleRecord, Awaiting, Pcs
  <2>2. ExitInv'
    BY <1>2 DEF Probed, CycleInv, CycleRecord, ExitInv, exits
  <2>3. RestInv'
    BY <1>2 DEF Probed, RestInv, world, BreakerAfter
  <2> QED
    BY <1>2, <2>1, <2>2, <2>3 DEF Probed, PosInv, IsOpen
<1>3. CASE \E s \in Symbols, seen \in Regimes : Evaluate(s, seen)
  <2> PICK s \in Symbols, seen \in Regimes : Evaluate(s, seen)
    BY <1>3
  <2>1. CycleInv'
    <3>1. IsOpen(s) => Life(s) \in Symbols \X (1..MaxLives)
      BY DEF PosInv, PositionRecord, Life
    <3>2. pos[s].life \in 0..MaxLives
      BY DEF PosInv, PositionRecord
    <3>3. 0 \in 0..MaxLives
      BY AgentAssumption
    <3>4. cycle' \in CycleRecord
      BY ZenonT(60), <3>1, <3>2, <3>3 DEF Evaluate, CycleInv, CycleRecord, Pcs, All
    <3>5. \/ cycle'.pc = "exiting" /\ cycle'.cur = {}
          \/ cycle'.pc \in {"closing", "derisking"} /\ cycle'.cur = {s}
      BY DEF Evaluate, CycleInv, CycleRecord
    <3> QED
      BY <3>4, <3>5 DEF CycleInv, Awaiting
  <2>2. ExitInv'
    BY DEF Evaluate, CycleInv, CycleRecord, ExitInv, exits, PosInv, PositionRecord
  <2> QED
    BY <2>1, <2>2 DEF Evaluate, PosInv, RestInv, IsOpen, world
<1>4. CASE \E s \in Symbols : CloseDropped(s)
  <2> PICK s \in Symbols : CloseDropped(s)
    BY <1>4
  <2>1. CycleInv' /\ cycle'.pc = "exiting"
    BY DoneKeepsCycle DEF CloseDropped
  <2>2. ExitInv'
    <3>1. cycle.pc = "derisking" => <<s, cycle.of>> \in Symbols \X (1..MaxLives)
                                   /\ cycle.of <= pos[s].life
      BY AgentAssumption DEF CloseDropped, ExitInv, PosInv, PositionRecord
    <3> QED
      BY <2>1, <3>1 DEF CloseDropped, ExitInv
  <2> QED
    BY <2>1, <2>2 DEF CloseDropped, PosInv, RestInv, IsOpen, world
<1>5. CASE \E s \in Symbols, ok \in BOOLEAN : CloseAnswered(s, ok)
  <2> PICK s \in Symbols, ok \in BOOLEAN : CloseAnswered(s, ok)
    BY <1>5
  <2>1. CycleInv' /\ cycle'.pc = "exiting"
    BY DoneKeepsCycle DEF CloseAnswered
  <2>2. PosInv' /\ \A t \in Symbols : pos'[t].life = pos[t].life
    BY DEF CloseAnswered, PosInv, PositionRecord, IsOpen
  <2>3. ExitInv'
    <3>1. cycle.pc = "derisking" => <<s, cycle.of>> \in Symbols \X (1..MaxLives)
                                   /\ cycle.of <= pos[s].life
      BY AgentAssumption DEF CloseAnswered, ExitInv, PosInv, PositionRecord
    <3>2. derisked' \subseteq Symbols \X (1..MaxLives)
      BY <3>1 DEF CloseAnswered, ExitInv
    <3>3. \A d \in derisked' : d[2] <= pos'[d[1]].life
      BY <3>1, <3>2, <2>2 DEF CloseAnswered, ExitInv
    <3>4. cycle.of \in -1..MaxLives
      BY AgentAssumption DEF CycleInv, CycleRecord
    <3> QED
      BY <2>1, <3>2, <3>3, <3>4 DEF CloseAnswered, ExitInv
  <2>4. RestInv'
    <3>1. loss' \in [Symbols -> Losses]
      BY LossKeepsType DEF CloseAnswered
    <3> QED
      BY <3>1 DEF CloseAnswered, RestInv
  <2> QED
    BY <2>1, <2>2, <2>3, <2>4
<1>6. CASE EndExits
  <2>1. CycleInv'
    BY <1>6 DEF EndExits, CycleInv, CycleRecord, Awaiting, Pcs, OpenSymbols
  <2>2. ExitInv'
    BY <1>6 DEF EndExits, ExitInv, CycleInv, CycleRecord
  <2> QED
    BY <1>6, <2>1, <2>2 DEF EndExits, PosInv, RestInv, IsOpen, world
<1>7. CASE \E s \in Symbols, seen \in Regimes, dies \in BOOLEAN : InPosition(s, seen, dies)
  <2> PICK s \in Symbols, seen \in Regimes, dies \in BOOLEAN : InPosition(s, seen, dies)
    BY <1>7
  <2>1. CycleInv' /\ cycle'.pc = "scanning"
    BY DoneKeepsCycle DEF InPosition
  <2>2. RestInv'
    <3>1. regime' \in [Symbols -> RegimeRecord]
      BY ObserveKeepsType DEF InPosition
    <3> QED
      BY <3>1 DEF InPosition, RestInv, RefreshSetup, world
  <2> QED
    BY <2>1, <2>2 DEF InPosition, PosInv, ExitInv, IsOpen, exits
<1>8. CASE \E s \in Symbols, seen \in Regimes : PassOver(s, seen)
  <2> PICK s \in Symbols, seen \in Regimes : PassOver(s, seen)
    BY <1>8
  <2>1. CycleInv' /\ cycle'.pc = "scanning"
    BY DoneKeepsCycle DEF PassOver
  <2>2. RestInv'
    <3>1. regime' \in [Symbols -> RegimeRecord]
      BY ObserveKeepsType DEF PassOver
    <3> QED
      BY <3>1 DEF PassOver, RestInv, world
  <2> QED
    BY <2>1, <2>2 DEF PassOver, PosInv, ExitInv, IsOpen, exits
<1>9. CASE \E s \in Symbols, seen \in Regimes : Consider(s, seen)
  <2> PICK s \in Symbols, seen \in Regimes : Consider(s, seen)
    BY <1>9
  <2>1. CycleInv' /\ cycle'.pc = "deciding"
    BY DEF Consider, Awaits, CycleInv, CycleRecord, Awaiting, Pcs
  <2>2. RestInv'
    <3>1. regime' \in [Symbols -> RegimeRecord]
      BY ObserveKeepsType DEF Consider
    <3> QED
      BY <3>1 DEF Consider, RestInv, world
  <2> QED
    BY <2>1, <2>2 DEF Consider, PosInv, ExitInv, IsOpen, exits
<1>10. CASE \E s \in Symbols : Vetoed(s)
  <2> PICK s \in Symbols : Vetoed(s)
    BY <1>10
  <2>1. CycleInv' /\ cycle'.pc = "scanning"
    BY DoneKeepsCycle DEF Vetoed
  <2> QED
    BY <2>1 DEF Vetoed, PosInv, ExitInv, RestInv, IsOpen, exits, world
<1>11. CASE \E s \in Symbols, side \in Sides, confident \in BOOLEAN : Submit(s, side, confident)
  <2> PICK s \in Symbols, side \in Sides, confident \in BOOLEAN : Submit(s, side, confident)
    BY <1>11
  <2>1. CycleInv' /\ cycle'.pc \in {"scanning", "entering"}
    <3>1. CASE Conflicts(s, side, confident)
      BY <3>1, DoneKeepsCycle DEF Submit
    <3>2. CASE ~Conflicts(s, side, confident)
      BY ZenonT(60), <3>2 DEF Submit, CycleInv, CycleRecord, Awaiting, Pcs
    <3> QED
      BY <3>1, <3>2
  <2> QED
    BY <2>1 DEF Submit, PosInv, ExitInv, RestInv, IsOpen, exits, world
<1>12. CASE \E s \in Symbols, ok \in BOOLEAN : EntryAnswered(s, ok)
  <2> PICK s \in Symbols, ok \in BOOLEAN : EntryAnswered(s, ok)
    BY <1>12
  <2>1. CycleInv' /\ cycle'.pc = "scanning"
    BY DEF EntryAnswered, CycleInv, CycleRecord, Awaiting, Pcs
  <2>2. PosInv' /\ \A t \in Symbols : pos'[t].life >= pos[t].life
    <3>1. cycle.side \in Sides \union {0}
      BY DEF CycleInv, CycleRecord
    <3> QED
      BY <3>1, AgentAssumption DEF EntryAnswered, PosInv, PositionRecord, IsOpen, Opened
  <2>3. ExitInv'
    BY <2>1, <2>2 DEF EntryAnswered, ExitInv, exits, PosInv, PositionRecord
  <2>4. RestInv'
    <3>1. loss' \in [Symbols -> Losses]
      BY LossKeepsType DEF EntryAnswered
    <3> QED
      BY <3>1 DEF EntryAnswered, RestInv
  <2> QED
    BY <2>1, <2>2, <2>3, <2>4
<1>13. CASE EndCycle \/ CycleFails
  <2>1. CycleInv' /\ cycle'.pc = "idle"
    BY ZenonT(60), <1>13 DEF EndCycle, CycleFails, CycleInv, CycleRecord, Awaiting, Pcs
  <2> QED
    BY <1>13, <2>1 DEF EndCycle, CycleFails, PosInv, ExitInv, RestInv, IsOpen, exits, world
<1>14. CASE \E s \in Symbols, side \in Sides : OtherOpens(s, side)
  <2> PICK s \in Symbols, side \in Sides : OtherOpens(s, side)
    BY <1>14
  <2>1. PosInv' /\ \A t \in Symbols : pos'[t].life >= pos[t].life
    BY AgentAssumption DEF OtherOpens, PosInv, PositionRecord, IsOpen, Opened
  <2>2. ExitInv'
    <3>1. cycle.cur \subseteq Symbols
      BY DEF CycleInv, CycleRecord
    <3> QED
      BY <2>1, <3>1, AgentAssumption DEF OtherOpens, ExitInv, exits, PosInv, PositionRecord
  <2> QED
    BY <2>1, <2>2 DEF OtherOpens, CycleInv, RestInv, world
<1>15. CASE \E s \in Symbols : OtherCloses(s)
  <2> PICK s \in Symbols : OtherCloses(s)
    BY <1>15
  <2>1. PosInv' /\ \A t \in Symbols : pos'[t].life = pos[t].life
    BY DEF OtherCloses, PosInv, PositionRecord, IsOpen
  <2>2. ExitInv'
    <3>1. cycle.cur \subseteq Symbols
      BY DEF CycleInv, CycleRecord
    <3> QED
      BY <2>1, <3>1 DEF OtherCloses, ExitInv, exits
  <2>3. loss' \in [Symbols -> Losses]
    BY LossKeepsType DEF OtherCloses
  <2> QED
    BY <2>1, <2>2, <2>3 DEF OtherCloses, CycleInv, RestInv
<1>16. CASE \E s \in Symbols : CloseSignalExpires(s)
  <2>1. NoSignal \in [of: -1..MaxLives, ok: BOOLEAN]
    BY AgentAssumption DEF NoSignal
  <2> QED
    BY <1>16, <2>1 DEF CloseSignalExpires, PosInv, CycleInv, ExitInv, RestInv, IsOpen, world
<1>17. CASE \E what \in DOMAIN market : MarketMoves(what)
  BY <1>17 DEF MarketMoves, PosInv, CycleInv, ExitInv, RestInv, IsOpen, exits
<1>18. CASE \/ \E s \in Symbols, l \in Losses : PriceMoves(s, l)
            \/ \E s \in Symbols : EntryCooldownOver(s)
            \/ BreakerCools
  BY <1>18 DEF PriceMoves, EntryCooldownOver, BreakerCools, PosInv, CycleInv, ExitInv,
     RestInv, IsOpen, exits, world
<1>19. CASE UNCHANGED vars
  BY <1>19 DEF vars, PosInv, CycleInv, ExitInv, RestInv, IsOpen, exits, world
<1> QED
  BY <1>1, <1>2, <1>3, <1>4, <1>5, <1>6, <1>7, <1>8, <1>9, <1>10, <1>11, <1>12, <1>13,
     <1>14, <1>15, <1>16, <1>17, <1>18, <1>19 DEF Next, Proceed, World

\* TypeOK is invariant: whatever the actors interleave, every record keeps its
\* shape and a de-risk is remembered only of a life that the symbol has had.
THEOREM AgentTypeCorrect == Spec => []TypeOK
<1>1. Spec => []TypeInv
  BY TypeInit, TypeStep, PTL DEF Spec
<1> QED
  BY <1>1, TypeInvGivesType, PTL
-----------------------------------------------------------------------------
(* Agent: one de-risk per life *)

\* A cut of an open position is remembered, and the cycle that is under way has
\* not yet come to the position or has found it alive.
CutsRemembered ==
  \A s \in Symbols : IsOpen(s) /\ pos[s].cuts > 0 =>
    /\ Life(s) \in derisked
    /\ cycle.pc \in {"exiting", "closing", "derisking"} =>
         s \in cycle.todo \ cycle.cur \/ Life(s) \in cycle.live

\* What is about to be cut was alive when it was looked at, and had not been cut.
CutIsNew ==
  cycle.pc = "derisking" => \A s \in cycle.cur :
    <<s, cycle.of>> \in cycle.live /\ <<s, cycle.of>> \notin derisked

CutInv == CutsRemembered /\ CutIsNew /\ DeriskOnce

\* No position has been cut when the agent starts.
LEMMA CutInit == Init => CutInv
BY DEF Init, CutInv, CutsRemembered, CutIsNew, DeriskOnce, IsOpen

\* The answer to a close: the cut that is made is the first of its life.
LEMMA AnswerKeepsCuts ==
  ASSUME TypeInv, CutInv, NEW s \in Symbols, NEW ok \in BOOLEAN, CloseAnswered(s, ok)
  PROVE  CutInv'
<1> DEFINE cut == ok /\ cycle.pc = "derisking" /\ pos[s].life = cycle.of
<1>1. /\ pos \in [Symbols -> PositionRecord] /\ cycle \in CycleRecord
      /\ cycle.cur = {s}
  BY DEF TypeInv, PosInv, CycleInv, CloseAnswered
<1>2. cycle'.pc = "exiting" /\ cycle'.cur = {} /\ cycle'.live = cycle.live
      /\ cycle'.todo = cycle.todo \ {s}
  BY <1>1 DEF CloseAnswered, Done, CycleRecord
<1>3. \A t \in Symbols \ {s} : pos'[t] = pos[t]
  BY <1>1 DEF CloseAnswered
<1>4. /\ pos'[s].life = pos[s].life
      /\ pos'[s].side # 0 => pos[s].side # 0
      /\ pos'[s].cuts = IF cut THEN pos[s].cuts + 1 ELSE pos[s].cuts
  BY <1>1 DEF CloseAnswered, PositionRecord
<1>5. derisked \subseteq derisked' /\ (cut => Life(s) \in derisked')
  BY DEF CloseAnswered, Life
<1>6. cut => IsOpen(s) /\ Life(s) \in cycle.live /\ Life(s) \notin derisked
  BY <1>1 DEF CloseAnswered, CutInv, CutIsNew, Life
<1>7. cut => pos[s].cuts = 0
  BY <1>1, <1>6 DEF CutInv, CutsRemembered, PositionRecord
<1>8. DeriskOnce'
  BY <1>1, <1>3, <1>4, <1>7 DEF CutInv, DeriskOnce, PositionRecord
<1>9. ASSUME NEW t \in Symbols, IsOpen(t)', pos'[t].cuts > 0
      PROVE  /\ Life(t)' \in derisked'
             /\ t \in cycle'.todo \ cycle'.cur \/ Life(t)' \in cycle'.live
  <2>1. Life(t)' = Life(t)
    BY <1>3, <1>4 DEF Life
  <2>2. CASE t = s /\ cut
    BY <1>2, <1>5, <1>6, <2>1, <2>2
  <2>3. CASE t # s \/ ~cut
    <3>1. IsOpen(t) /\ pos[t].cuts > 0
      BY <1>3, <1>4, <1>9, <2>3 DEF IsOpen
    <3>2. Life(t) \in derisked /\ (t \in cycle.todo \ cycle.cur \/ Life(t) \in cycle.live)
      BY <3>1 DEF CutInv, CutsRemembered, CloseAnswered
    <3> QED
      BY <1>1, <1>2, <1>5, <2>1, <3>2
  <2> QED
    BY <2>2, <2>3
<1> QED
  BY <1>2, <1>8, <1>9 DEF CutInv, CutsRemembered, CutIsNew

\* No step, of the agent or of another actor, forgets a cut of an open position
\* or makes a second one.
LEMMA CutStep == TypeInv /\ CutInv /\ [Next]_vars => CutInv'
<1> SUFFICES ASSUME TypeInv, CutInv, [Next]_vars PROVE CutInv'
  OBVIOUS
<1> USE DEF TypeInv, CutInv
<1>0. cycle \in CycleRecord /\ pos \in [Symbols -> PositionRecord]
  BY DEF CycleInv, PosInv
<1>1. CASE StartCycle \/ EndCycle \/ CycleFails
  <2>1. cycle'.pc \in {"probing", "idle"}
    BY <1>0, <1>1 DEF StartCycle, EndCycle, CycleFails, CycleRecord
  <2>2. pos' = pos /\ derisked' = derisked
    BY <1>1 DEF StartCycle, EndCycle, CycleFails, exits
  <2> QED
    BY <2>1, <2>2 DEF CutsRemembered, CutIsNew, DeriskOnce, IsOpen, Life
<1>2. CASE Probed
  <2>1. cycle'.pc = "exiting" /\ cycle'.cur = cycle.cur /\ cycle.cur = {}
        /\ cycle'.todo = {s \in Symbols : pos[s].life > 0}
    BY <1>0, <1>2 DEF Probed, CycleInv, CycleRecord, Awaiting
  <2> QED
    BY <1>2, <2>1 DEF Probed, CutsRemembered, CutIsNew, DeriskOnce, IsOpen, Life, exits, PosInv
<1>3. CASE \E s \in Symbols, seen \in Regimes : Evaluate(s, seen)
  <2> PICK s \in Symbols, seen \in Regimes : Evaluate(s, seen)
    BY <1>3
  <2>1. /\ cycle.pc = "exiting" /\ cycle.cur = {}
        /\ pos' = pos /\ derisked' = derisked
    BY DEF Evaluate, exits, CycleInv, Awaiting
  <2>2. /\ cycle'.live = IF IsOpen(s) THEN cycle.live \union {Life(s)} ELSE cycle.live
        /\ cycle.todo \ {s} \subseteq cycle'.todo /\ cycle'.cur \subseteq {s}
    BY <1>0 DEF Evaluate, CycleRecord
  <2>3. cycle'.pc = "derisking" => IsOpen(s) /\ MayDerisk(s) /\ cycle'.of = pos[s].life
    BY <1>0 DEF Evaluate, CycleRecord
  <2>4. CutsRemembered'
    BY <2>1, <2>2 DEF CutsRemembered, IsOpen, Life
  <2>5. CutIsNew'
    BY <2>1, <2>2, <2>3 DEF CutIsNew, MayDerisk, Life
  <2> QED
    BY <2>1, <2>4, <2>5 DEF DeriskOnce
<1>4. CASE \E s \in Symbols : CloseDropped(s)
  <2> PICK s \in Symbols : CloseDropped(s)
    BY <1>4
  <2>1. cycle'.pc = "exiting" /\ cycle'.cur = {} /\ cycle'.live = cycle.live
        /\ cycle'.todo = cycle.todo \ {s} /\ cycle.cur = {s}
    BY <1>0 DEF CloseDropped, Done, CycleRecord, CycleInv
  <2>2. pos' = pos /\ derisked \subseteq derisked'
    BY DEF CloseDropped
  <2> QED
    BY <2>1, <2>2 DEF CloseDropped, CutsRemembered, CutIsNew, DeriskOnce, IsOpen, Life
<1>5. CASE \E s \in Symbols, ok \in BOOLEAN : CloseAnswered(s, ok)
  BY <1>5, AnswerKeepsCuts
<1>6. CASE EndExits
  <2>1. cycle'.pc = "scanning"
    BY <1>0, <1>6 DEF EndExits, CycleRecord
  <2> QED
    BY <1>6, <2>1 DEF EndExits, CutsRemembered, CutIsNew, DeriskOnce, IsOpen, Life
<1>7. CASE \E s \in Symbols :
             \/ \E seen \in Regimes :
                  \/ \E dies \in BOOLEAN : InPosition(s, seen, dies)
                  \/ PassOver(s, seen) \/ Consider(s, seen)
             \/ Vetoed(s)
             \/ \E side \in Sides, confident \in BOOLEAN : Submit(s, side, confident)
  <2>1. cycle'.pc \in {"scanning", "deciding", "entering"}
    BY <1>0, <1>7 DEF InPosition, PassOver, Consider, Vetoed, Submit, Done, Awaits, CycleRecord
  <2>2. pos' = pos /\ derisked' = derisked
    BY <1>7 DEF InPosition, PassOver, Consider, Vetoed, Submit, exits
  <2> QED
    BY <2>1, <2>2 DEF CutsRemembered, CutIsNew, DeriskOnce, IsOpen, Life
<1>8. CASE \E s \in Symbols, ok \in BOOLEAN : EntryAnswered(s, ok)
  <2> PICK s \in Symbols, ok \in BOOLEAN : EntryAnswered(s, ok)
    BY <1>8
  <2>1. cycle'.pc = "scanning" /\ derisked' = derisked
    BY <1>0 DEF EntryAnswered, CycleRecord, exits
  <2>2. \A t \in Symbols :
          \/ pos'[t].cuts = 0
          \/ /\ pos'[t].cuts = pos[t].cuts /\ pos'[t].life = pos[t].life
             /\ pos'[t].side # 0 => pos[t].side # 0
    BY <1>0 DEF EntryAnswered, PositionRecord, Opened, IsOpen
  <2> QED
    BY <2>1, <2>2 DEF CutsRemembered, CutIsNew, DeriskOnce, IsOpen, Life
<1>9. CASE \/ \E s \in Symbols, side \in Sides : OtherOpens(s, side)
           \/ \E s \in Symbols : OtherCloses(s)
  <2>1. cycle' = cycle /\ derisked' = derisked
    BY <1>9 DEF OtherOpens, OtherCloses, exits
  <2>2. \A t \in Symbols :
          \/ pos'[t].cuts = 0
          \/ /\ pos'[t].cuts = pos[t].cuts /\ pos'[t].life = pos[t].life
             /\ pos'[t].side # 0 => pos[t].side # 0
    <3>1. ASSUME NEW s \in Symbols, NEW side \in Sides, OtherOpens(s, side)
          PROVE  pos' = [pos EXCEPT ![s] = Opened(pos[s], side)]
      BY <3>1 DEF OtherOpens
    <3>2. ASSUME NEW s \in Symbols, OtherCloses(s)
          PROVE  pos' = [pos EXCEPT ![s].side = 0]
      BY <3>2 DEF OtherCloses
    <3>3. CASE \E s \in Symbols, side \in Sides : OtherOpens(s, side)
      BY <1>0, <3>1, <3>3 DEF PositionRecord, Opened
    <3>4. CASE \E s \in Symbols : OtherCloses(s)
      BY <1>0, <3>2, <3>4 DEF PositionRecord
    <3> QED
      BY <1>9, <3>3, <3>4
  <2> QED
    BY <2>1, <2>2 DEF CutsRemembered, CutIsNew, DeriskOnce, IsOpen, Life
<1>10. CASE \/ \E s \in Symbols : \/ \E l \in Losses : PriceMoves(s, l)
                                  \/ EntryCooldownOver(s) \/ CloseSignalExpires(s)
            \/ \E what \in DOMAIN market : MarketMoves(what)
            \/ BreakerCools
            \/ UNCHANGED vars
  <2>1. pos' = pos /\ cycle' = cycle /\ derisked' = derisked
    BY <1>10 DEF PriceMoves, EntryCooldownOver, CloseSignalExpires, MarketMoves, BreakerCools,
       vars, exits
  <2> QED
    BY <2>1 DEF CutsRemembered, CutIsNew, DeriskOnce, IsOpen, Life
<1> QED
  BY <1>1, <1>2, <1>3, <1>4, <1>5, <1>6, <1>7, <1>8, <1>9, <1>10 DEF Next, Proceed, World

\* DeriskOnce is invariant: a position is de-risked at most once in its life,
\* over rejected and repeated attempts, closes by others and reopenings.
THEOREM DerisksOnce == Spec => []DeriskOnce
<1>1. Spec => []TypeInv
  BY TypeInit, TypeStep, PTL DEF Spec
<1>2. Spec => []CutInv
  BY <1>1, CutInit, CutStep, PTL DEF Spec
<1>3. CutInv => DeriskOnce
  BY DEF CutInv
<1> QED
  BY <1>2, <1>3, PTL

-----------------------------------------------------------------------------
(* Debate: the limits *)

Speakers == {"analyst", "bull", "bear", "judge"}
RoundsHeld == IF Rounds > 1 THEN Rounds ELSE 1
DebateRecord ==
  [pc: {"idle"}]
  \union [pc: Speakers \union {"trader"}, facts: Facts, side: Directions \union {"none"},
         tool: 1..(Tools + 1), round: 1..RoundsHeld, again: BOOLEAN, fell: SUBSET Speakers]

DebateInv ==
  /\ debate \in DebateRecord
  /\ outcome.approved \in BOOLEAN /\ outcome.vetoed \in BOOLEAN
  /\ ~(outcome.approved /\ outcome.vetoed)

\* What is free, shared by what the account is worth, times that is at most what is
\* free.
LEMMA ShareIsLess ==
  ASSUME NEW e \in Nat \ {0}, NEW a \in Nat, NEW c \in Nat, e * c > a
  PROVE  a \div e \in Nat /\ e * (a \div e) <= a /\ a \div e <= c
<1>1. a \div e \in Nat /\ e * (a \div e) <= a
  OBVIOUS
<1> DEFINE q == a \div e
<1> HIDE DEF q
<1>2. ASSUME NEW r \in Nat, e * r <= a PROVE r <= c
  <2> SUFFICES ASSUME r >= c + 1 PROVE FALSE
    OBVIOUS
  <2>1. e * r >= e * (c + 1)
    OBVIOUS
  <2>2. e * (c + 1) = e * c + e
    OBVIOUS
  <2>3. e * r \in Nat /\ e * c \in Nat
    OBVIOUS
  <2> QED
    BY <1>2, <2>1, <2>2, <2>3
<1>3. q <= c
  BY <1>1, <1>2 DEF q
<1> QED
  BY <1>1, <1>3 DEF q

\* More of what is free than its share is more than what is free.
LEMMA MoreThanItsShare ==
  ASSUME NEW e \in Nat \ {0}, NEW a \in Nat, NEW r \in Nat, r > a \div e
  PROVE  ~(e * r <= a)
<1> DEFINE q == a \div e
           m == a % e
<1>1. q \in Nat /\ m \in Nat /\ a = e * q + m /\ m < e
  OBVIOUS
<1>2. r > q
  OBVIOUS
<1> HIDE DEF q, m
<1>3. r >= q + 1 /\ e * r \in Nat /\ e * q \in Nat
  BY <1>1, <1>2
<1>4. e * r >= e * (q + 1)
  BY <1>1, <1>3
<1>5. e * (q + 1) = e * q + e
  BY <1>1
<1> QED
  BY <1>1, <1>3, <1>4, <1>5

\* What a persona lets through of a proposal: no more than its ceiling and the free margin
\* allow, and no less.
LEMMA AllowedIsWithin ==
  ASSUME NEW p \in Proposals, NEW f \in Facts, NEW who \in Personas
  PROVE  /\ AllowedLeverage(who, p) \in Nat /\ AllowedLeverage(who, p) <= p.leverage
         /\ AllowedLeverage(who, p) <= Ceiling[who].leverage
         /\ AllowedSize(who, p, f) \in 0..p.size /\ AllowedSize(who, p, f) <= Ceiling[who].size
         /\ Affordable(AllowedSize(who, p, f), f)
         /\ \A more \in AllowedSize(who, p, f) + 1 .. p.size :
              ~(more <= Ceiling[who].size /\ Affordable(more, f))
<1>1. /\ p.leverage \in Nat /\ p.size \in Nat
      /\ Ceiling[who].leverage \in Nat /\ Ceiling[who].size \in Nat
      /\ f.equity \in Nat /\ f.available \in Int
  BY DebateAssumption
<1>2. /\ AllowedLeverage(who, p) \in Nat /\ AllowedLeverage(who, p) <= p.leverage
      /\ AllowedLeverage(who, p) <= Ceiling[who].leverage
  BY <1>1, MinOfTwo DEF AllowedLeverage
<1> DEFINE g == Ceiling[who].size
           w == p.size
           c == Min({w, g})
           e == f.equity
           a == f.available
           s == AllowedSize(who, p, f)
<1>3. c = IF w <= g THEN w ELSE g
  BY <1>1, MinOfTwo
<1>4. s = IF e > 0 /\ a > 0 /\ e * c > 100 * a THEN (100 * a) \div e ELSE c
  BY DEF AllowedSize
<1>5. e \in Nat /\ a \in Int /\ g \in Nat /\ w \in Nat
  BY <1>1
<1>6. \A r : Affordable(r, f) <=> (e > 0 /\ a > 0 => e * r <= 100 * a)
  BY DEF Affordable
<1> HIDE DEF c, e, a, s, g, w
<1>7. c \in Nat /\ c <= w /\ c <= g /\ \A r \in c + 1 .. w : ~(r <= g)
  BY <1>3, <1>5
<1>8. /\ s \in 0..w /\ s <= g /\ (e > 0 /\ a > 0 => e * s <= 100 * a)
      /\ \A r \in s + 1 .. w : ~(r <= g /\ (e > 0 /\ a > 0 => e * r <= 100 * a))
  <2>1. CASE e > 0 /\ a > 0 /\ e * c > 100 * a
    <3> DEFINE h == 100 * a
    <3>1. h \in Nat /\ e \in Nat \ {0} /\ e * c > h /\ s = h \div e
      BY <1>4, <1>5, <2>1
    <3> HIDE DEF h
    <3>2. s \in Nat /\ e * s <= h /\ s <= c
      BY <1>7, <3>1, ShareIsLess
    <3>3. ASSUME NEW r \in s + 1 .. w PROVE ~(e * r <= h)
      <4>1. r \in Nat /\ r > h \div e
        BY <1>5, <3>1, <3>2
      <4> QED
        BY <3>1, <4>1, MoreThanItsShare
    <3> QED
      BY <1>5, <1>7, <2>1, <3>2, <3>3 DEF h
  <2>2. CASE ~(e > 0 /\ a > 0 /\ e * c > 100 * a)
    <3>1. s = c
      BY <1>4, <2>2
    <3>2. e > 0 /\ a > 0 => e * s <= 100 * a
      <4>1. e * c \in Int /\ 100 * a \in Int
        BY <1>5, <1>7
      <4> QED
        BY <2>2, <3>1, <4>1
    <3> QED
      BY <1>5, <1>7, <3>1, <3>2
  <2> QED
    BY <2>1, <2>2
<1>9. Affordable(s, f) /\ \A r \in s + 1 .. w : ~(r <= g /\ Affordable(r, f))
  BY <1>6, <1>8
<1> QED
  BY <1>2, <1>8, <1>9 DEF s, w, g

\* What all of them let through of a proposal is what is allowed of it, and no less.
LEMMA ReducedIsWithin ==
  ASSUME NEW p \in Proposals, NEW f \in Facts, Surviving(p, f) = Personas, NEW d, d = Reduced(p, f)
  PROVE  /\ d.action = p.action /\ d.stop = p.stop /\ d.confidence = p.confidence
         /\ d.leverage <= p.leverage /\ \A who \in Personas : d.leverage <= Ceiling[who].leverage
         /\ d.size \in 0..p.size /\ Allowed(d.size, f)
         /\ \A more \in d.size + 1 .. p.size : ~Allowed(more, f)
<1> DEFINE L == {AllowedLeverage(who, p) : who \in Personas}
           Z == {AllowedSize(who, p, f) : who \in Personas}
           l == Min(L)
           z == Min(Z)
<1>1. L \subseteq Nat /\ L # {} /\ Z \subseteq Nat /\ Z # {}
  <2>1. \A who \in Personas : AllowedLeverage(who, p) \in Nat /\ AllowedSize(who, p, f) \in Nat
    BY AllowedIsWithin
  <2> QED
    BY <2>1, DebateAssumption
<1>2. l \in L /\ (\A y \in L : l <= y) /\ z \in Z /\ (\A y \in Z : z <= y)
  <2> HIDE DEF L, Z
  <2> QED
    BY <1>1, MinOfNaturals
<1>3. d = [p EXCEPT !.leverage = l, !.size = z]
  BY DebateAssumption DEF Reduced
<1> HIDE DEF l, z
<1>4. /\ d.action = p.action /\ d.stop = p.stop /\ d.confidence = p.confidence
      /\ d.leverage = l /\ d.size = z
  BY <1>3, DebateAssumption
<1>5. \A who \in Personas : l <= AllowedLeverage(who, p) /\ z <= AllowedSize(who, p, f)
  BY <1>2
<1>6. l \in Nat /\ z \in Nat
  BY <1>1, <1>2
<1>7. \A who \in Personas : l <= Ceiling[who].leverage /\ z <= Ceiling[who].size /\ l <= p.leverage
  <2> SUFFICES ASSUME NEW who \in Personas
               PROVE  l <= Ceiling[who].leverage /\ z <= Ceiling[who].size /\ l <= p.leverage
    OBVIOUS
  <2>1. Ceiling[who].leverage \in Nat /\ Ceiling[who].size \in Nat /\ p.leverage \in Nat
    BY DebateAssumption
  <2>2. /\ AllowedLeverage(who, p) \in Nat /\ AllowedLeverage(who, p) <= p.leverage
        /\ AllowedLeverage(who, p) <= Ceiling[who].leverage
        /\ AllowedSize(who, p, f) \in Nat /\ AllowedSize(who, p, f) <= Ceiling[who].size
    BY AllowedIsWithin
  <2> QED
    BY <1>5, <1>6, <2>1, <2>2
<1>8. PICK tight \in Personas : z = AllowedSize(tight, p, f)
  BY <1>2
<1>9. /\ z \in 0..p.size /\ Affordable(z, f)
      /\ \A more \in z + 1 .. p.size : ~(more <= Ceiling[tight].size /\ Affordable(more, f))
  BY <1>8, AllowedIsWithin
<1>10. Allowed(z, f) /\ \A more \in z + 1 .. p.size : ~Allowed(more, f)
  BY <1>7, <1>9 DEF Allowed
<1>11. l <= p.leverage
  BY <1>7, DebateAssumption
<1> QED
  BY <1>4, <1>7, <1>9, <1>10, <1>11

\* A stage follows another of the same debate.
LEMMA OnwardIs ==
  ASSUME NEW d \in DebateRecord, d.pc \in Speakers
  PROVE  Onward(d) \in DebateRecord
<1>0. Rounds \in Nat
  BY DebateAssumption
<1>1. /\ d.pc \in Speakers /\ d.facts \in Facts /\ d.side \in Directions \union {"none"}
      /\ d.tool \in 1..(Tools + 1) /\ d.round \in 1..RoundsHeld /\ d.fell \in SUBSET Speakers
      /\ d = [pc |-> d.pc, facts |-> d.facts, side |-> d.side, tool |-> d.tool, round |-> d.round,
              again |-> d.again, fell |-> d.fell]
  BY DEF DebateRecord, Speakers
<1>2. ASSUME NEW s \in {"bull", "bear", "judge", "trader"}, NEW r \in 1..RoundsHeld
      PROVE  [d EXCEPT !.pc = s, !.round = r, !.again = FALSE] \in DebateRecord
  BY <1>1 DEF DebateRecord, Speakers
<1>3. ASSUME NEW s \in {"bull", "bear", "judge", "trader"}
      PROVE  [d EXCEPT !.pc = s, !.again = FALSE] \in DebateRecord
  BY <1>1 DEF DebateRecord, Speakers
<1>4. CASE d.pc = "analyst"
  <2>1. Onward(d) = [d EXCEPT !.pc = "bull", !.again = FALSE]
    BY <1>4 DEF Onward
  <2> QED
    BY <1>3, <2>1
<1>5. CASE d.pc = "bull"
  <2>1. Onward(d) = [d EXCEPT !.pc = "bear", !.again = FALSE]
    BY <1>5 DEF Onward
  <2> QED
    BY <1>3, <2>1
<1>6. CASE d.pc = "bear" /\ d.round < Rounds
  <2>1. ~(d.round >= Rounds) /\ d.round + 1 \in 1..RoundsHeld
    BY <1>0, <1>1, <1>6 DEF RoundsHeld
  <2>2. Onward(d) = [d EXCEPT !.pc = "bull", !.round = d.round + 1, !.again = FALSE]
    BY <1>6, <2>1 DEF Onward
  <2> QED
    BY <1>2, <2>1, <2>2
<1>7. CASE d.pc = "bear" /\ ~(d.round < Rounds)
  <2>1. d.round >= Rounds
    BY <1>0, <1>1, <1>7 DEF RoundsHeld
  <2>2. Onward(d) = [d EXCEPT !.pc = "judge", !.again = FALSE]
    BY <1>7, <2>1 DEF Onward
  <2> QED
    BY <1>3, <2>2
<1>8. CASE d.pc = "judge"
  <2>1. Onward(d) = [d EXCEPT !.pc = "trader", !.again = FALSE]
    BY <1>8 DEF Onward
  <2> QED
    BY <1>3, <2>1
<1> QED
  BY <1>1, <1>4, <1>5, <1>6, <1>7, <1>8 DEF Speakers

\* Every step keeps the type.
LEMMA DebateInvKept == DebateInv /\ [DebateNext]_debateVars => DebateInv'
<1> SUFFICES ASSUME DebateInv, [DebateNext]_debateVars PROVE DebateInv'
  OBVIOUS
<1> USE DEF DebateInv
<1>0. Tools \in Nat /\ RoundsHeld \in Nat \ {0}
  BY DebateAssumption DEF RoundsHeld
<1>1. ASSUME NEW f \in Facts, NEW side \in Directions \union {"none"}, Begin(f, side) PROVE DebateInv'
  <2>1. 1 \in 1..(Tools + 1) /\ 1 \in 1..RoundsHeld
    BY <1>0
  <2>2. debate' \in DebateRecord
    BY <1>1, <2>1 DEF Begin, DebateRecord, Speakers
  <2> QED
    BY <1>1, <2>2 DEF Begin, Nothing
<1>2. ASSUME NEW slow \in BOOLEAN, ToolDone(slow) PROVE DebateInv'
  <2> DEFINE n == IF slow THEN Tools + 1 ELSE debate.tool + 1
  <2>1. debate.tool \in 1..(Tools + 1) /\ debate.pc = "analyst" /\ debate.tool <= Tools
    BY <1>2 DEF ToolDone, DebateRecord
  <2>2. n \in 1..(Tools + 1)
    BY <1>0, <2>1
  <2>3. debate' = [debate EXCEPT !.tool = n] /\ outcome' = outcome
    BY <1>2 DEF ToolDone
  <2> HIDE DEF n
  <2>4. debate' \in DebateRecord
    BY <2>1, <2>2, <2>3 DEF DebateRecord
  <2> QED
    BY <2>3, <2>4
<1>3. CASE CallFails
  <2>1. debate' = [debate EXCEPT !.again = TRUE] /\ outcome' = outcome /\ debate.pc # "idle"
    BY <1>3 DEF CallFails
  <2>2. debate' \in DebateRecord
    BY <2>1 DEF DebateRecord
  <2> QED
    BY <2>1, <2>2
<1>4. CASE Answers
  <2>1. debate' = Onward(debate) /\ outcome' = outcome /\ debate.pc \in Speakers
    BY <1>4 DEF Answers, Speakers
  <2> QED
    BY <2>1, OnwardIs
<1>5. CASE FallsBack
  <2> DEFINE d == [debate EXCEPT !.fell = debate.fell \union {debate.pc}]
  <2>1. debate' = Onward(d) /\ outcome' = outcome /\ debate.pc # "trader" /\ debate.pc # "idle"
    BY <1>5 DEF FallsBack, OutOfCalls
  <2>2. d \in DebateRecord /\ d.pc \in Speakers
    BY <2>1 DEF DebateRecord, Speakers
  <2> HIDE DEF d
  <2> QED
    BY <2>1, <2>2, OnwardIs
<1>6. ASSUME NEW p, NEW fell, Concludes(p, fell) PROVE DebateInv'
  <2>1. debate' \in DebateRecord
    BY <1>6 DEF Concludes, DebateRecord
  <2>2. CASE debate.side = "none"
    <3>1. outcome' = FundManager(p, debate.facts)
      BY <1>6, <2>2 DEF Concludes
    <3>2. outcome'.approved \in BOOLEAN /\ outcome'.vetoed = FALSE
      BY <3>1 DEF FundManager
    <3> QED
      BY <2>1, <3>2
  <2>3. CASE debate.side # "none"
    <3>1. outcome' = Veto(p, debate.side, fell)
      BY <1>6, <2>3 DEF Concludes
    <3>2. outcome'.vetoed \in BOOLEAN /\ outcome'.approved = FALSE
      BY <3>1 DEF Veto
    <3> QED
      BY <2>1, <3>2
  <2> QED
    BY <2>2, <2>3
<1>7. ASSUME NEW p \in Proposals, TraderDecides(p) PROVE DebateInv'
  BY <1>6, <1>7 DEF TraderDecides
<1>8. CASE TraderFallsBack
  BY <1>6, <1>8 DEF TraderFallsBack
<1>9. CASE Throws
  BY <1>9 DEF Throws, DebateRecord, Nothing
<1>10. CASE UNCHANGED debateVars
  BY <1>10 DEF debateVars
<1> QED
  BY <1>1, <1>2, <1>3, <1>4, <1>5, <1>7, <1>8, <1>9, <1>10 DEF DebateNext

\* What is approved of a proposal is what every limit allows.
LEMMA ApprovedIsWithin ==
  ASSUME NEW p \in Proposals, NEW f \in Facts, NEW o, o = FundManager(p, f), o.approved
  PROVE  WithinLimits(p, o.final, f)
<1> DEFINE d == Reduced(p, f)
<1>1. o.final = d
  BY DEF FundManager
<1>2. p.action # "NEUTRAL" /\ Surviving(p, f) = Personas /\ p.confidence >= MinApproval /\ d.size > 0
  BY DEF FundManager
<1> HIDE DEF d
<1>3. /\ d.action = p.action /\ d.stop = p.stop /\ d.confidence = p.confidence
      /\ d.leverage <= p.leverage /\ \A who \in Personas : d.leverage <= Ceiling[who].leverage
      /\ d.size \in 0..p.size /\ Allowed(d.size, f)
      /\ \A more \in d.size + 1 .. p.size : ~Allowed(more, f)
  BY <1>2, ReducedIsWithin DEF d
<1>4. \A who \in Personas : /\ ~(p.confidence < Ceiling[who].confidence) /\ p.stop # NoStop
                            /\ ~WrongSide(p, f.price)
  <2>1. \A who \in Personas : ~Rejects(who, p, f)
    BY <1>2 DEF Surviving
  <2> QED
    BY <2>1 DEF Rejects
<1>5. p.stop # NoStop /\ ~WrongSide(p, f.price)
  BY <1>4, DebateAssumption
<1>6. /\ p.confidence \in Int /\ p.stop \in Int /\ f.price \in Int
      /\ \A who \in Personas : Ceiling[who].confidence \in Int
  <2>1. p.stop \in Nat \union {NoStop} /\ NoStop \in Int
    BY DebateAssumption DEF NoStop
  <2> QED
    BY <2>1, DebateAssumption
<1>7. \A who \in Personas : p.confidence >= Ceiling[who].confidence
  BY <1>4, <1>6
<1>8. IF p.action = "LONG" THEN p.stop \in 0..f.price - 1 ELSE p.stop > f.price
  <2>1. p.stop \in Nat
    BY <1>5, DebateAssumption
  <2> QED
    BY <1>5, <1>6, <2>1 DEF WrongSide
<1>9. d.size \in 1..p.size
  BY <1>2, <1>3
<1> QED
  BY <1>1, <1>2, <1>3, <1>7, <1>8, <1>9 DEF WithinLimits

\* No debate has been held at first.
LEMMA DebateInitInv == DebateInit => DebateInv
  BY DEF DebateInit, DebateInv, DebateRecord, Nothing

\* How a debate ends.
LEMMA AdviceStep ==
  ASSUME DebateInv, DebateNext, debate.pc # "idle", debate'.pc = "idle"
  PROVE  /\ outcome'.approved => \E p \in Proposals : WithinLimits(p, outcome'.final, debate.facts)
         /\ outcome'.vetoed =>
              /\ debate.fell = {} /\ outcome'.final \in Proposals
              /\ debate.side # "none" /\ outcome'.final.action # debate.side
<1>0. debate.facts \in Facts /\ debate.pc \in Speakers \union {"trader"}
  BY DEF DebateInv, DebateRecord
<1>1. \/ \E p \in Proposals : Concludes(p, debate.fell)
      \/ Concludes(Neutral, debate.fell \union {"trader"})
      \/ Throws
  <2>1. ASSUME NEW f \in Facts, NEW side \in Directions \union {"none"}, Begin(f, side) PROVE FALSE
    BY <2>1 DEF Begin
  <2>2. ASSUME NEW slow \in BOOLEAN, ToolDone(slow) PROVE FALSE
    <3>1. debate'.pc = debate.pc
      BY <2>2 DEF ToolDone, DebateInv, DebateRecord
    <3> QED
      BY <3>1
  <2>3. CASE CallFails
    <3>1. debate'.pc = debate.pc
      BY <2>3 DEF CallFails, DebateInv, DebateRecord
    <3> QED
      BY <3>1
  <2>4. ASSUME NEW d \in DebateRecord, d.pc \in Speakers, debate' = Onward(d) PROVE FALSE
    <3>1. Onward(d).pc \in {"bull", "bear", "judge", "trader"}
      <4>1. d.round \in Int /\ Rounds \in Int
        BY <2>4, DebateAssumption DEF DebateRecord, Speakers, RoundsHeld
      <4>2. d.round < Rounds \/ d.round >= Rounds
        BY <4>1
      <4>3. \A x \in {"bull", "bear", "judge", "trader"} :
              /\ [d EXCEPT !.pc = x, !.again = FALSE].pc = x
              /\ [d EXCEPT !.pc = x, !.round = @ + 1, !.again = FALSE].pc = x
        BY <2>4 DEF DebateRecord, Speakers
      <4> QED
        BY <2>4, <4>2, <4>3 DEF Onward, Speakers
    <3> QED
      BY <2>4, <3>1
  <2>5. CASE Answers
    BY <2>4, <2>5 DEF Answers, Speakers, DebateInv
  <2>6. CASE FallsBack
    <3> DEFINE d == [debate EXCEPT !.fell = debate.fell \union {debate.pc}]
    <3>1. debate' = Onward(d) /\ debate.pc # "trader"
      BY <2>6 DEF FallsBack
    <3>2. d \in DebateRecord /\ d.pc \in Speakers
      BY <1>0, <3>1 DEF DebateInv, DebateRecord, Speakers
    <3> HIDE DEF d
    <3> QED
      BY <2>4, <3>1, <3>2
  <2> QED
    BY <2>1, <2>2, <2>3, <2>5, <2>6 DEF DebateNext, TraderDecides, TraderFallsBack
<1>2. CASE Throws
  BY <1>2 DEF Throws, Nothing
<1>3. ASSUME NEW p, NEW fell, Concludes(p, fell), debate.side # "none", p \in Proposals \/ "trader" \in fell,
             fell = {} => debate.fell = {}
      PROVE  /\ ~outcome'.approved
             /\ outcome'.vetoed =>
                  /\ debate.fell = {} /\ outcome'.final \in Proposals
                  /\ outcome'.final.action # debate.side
  <2>1. outcome' = [approved |-> FALSE, vetoed |-> fell = {} /\ p.action # debate.side, final |-> p]
    BY <1>3 DEF Concludes, Veto
  <2> QED
    BY <1>3, <2>1
<1>4. ASSUME NEW p, NEW fell, Concludes(p, fell), debate.side = "none"
      PROVE  outcome' = FundManager(p, debate.facts) /\ ~outcome'.vetoed
  <2>1. outcome' = FundManager(p, debate.facts)
    BY <1>4 DEF Concludes
  <2> QED
    BY <2>1 DEF FundManager
<1>5. CASE \E p \in Proposals : Concludes(p, debate.fell)
  <2>1. PICK p \in Proposals : Concludes(p, debate.fell)
    BY <1>5
  <2>2. CASE debate.side = "none"
    <3>1. outcome' = FundManager(p, debate.facts) /\ ~outcome'.vetoed
      BY <1>4, <2>1, <2>2
    <3> QED
      BY <1>0, <3>1, ApprovedIsWithin
  <2>3. CASE debate.side # "none"
    BY <1>3, <2>1, <2>3
  <2> QED
    BY <2>2, <2>3
<1>6. CASE Concludes(Neutral, debate.fell \union {"trader"})
  <2>1. CASE debate.side = "none"
    <3>1. outcome' = FundManager(Neutral, debate.facts) /\ ~outcome'.vetoed
      BY <1>4, <1>6, <2>1
    <3>2. ~outcome'.approved
      BY <3>1 DEF FundManager, Neutral
    <3> QED
      BY <3>1, <3>2
  <2>2. CASE debate.side # "none"
    BY <1>3, <1>6, <2>2
  <2> QED
    BY <2>1, <2>2
<1> QED
  BY <1>1, <1>2, <1>5, <1>6

\* The invariant gives the type.
LEMMA DebateInvGives == DebateInv => DebateTypeOK
<1> SUFFICES ASSUME DebateInv PROVE DebateTypeOK
  OBVIOUS
<1>1. Max({1, Rounds}) = RoundsHeld
  <2>1. Rounds \in Int /\ 1 \in Int
    BY DebateAssumption
  <2>2. Max({1, Rounds}) \in {1, Rounds} /\ Max({1, Rounds}) >= 1 /\ Max({1, Rounds}) >= Rounds
    <3> DEFINE S == {1, Rounds}
    <3>1. S \subseteq Int /\ S # {} /\ RoundsHeld \in Int /\ \A x \in S : x <= RoundsHeld
      BY <2>1 DEF RoundsHeld
    <3>2. Max(S) \in S /\ \A y \in S : Max(S) >= y
      <4> HIDE DEF S
      <4> QED
        BY <3>1, MaxOfBounded
    <3> QED
      BY <3>2
  <2> QED
    BY <2>1, <2>2 DEF RoundsHeld
<1>2. debate.pc \in {"idle", "analyst", "bull", "bear", "judge", "trader"}
  BY DEF DebateInv, DebateRecord, Speakers
<1>3. debate.pc # "idle" =>
       /\ debate.facts \in Facts /\ debate.side \in Directions \union {"none"}
       /\ debate.tool \in 1..(Tools + 1) /\ debate.round \in 1..RoundsHeld
       /\ debate.again \in BOOLEAN
       /\ debate.fell \subseteq {"analyst", "bull", "bear", "judge"}
  BY DEF DebateInv, DebateRecord, Speakers
<1> QED
  BY <1>1, <1>2, <1>3 DEF DebateTypeOK, DebateInv

\* The type of the debate and of its outcome (DebateTypeOK): it is at one of the stages
\* of TradingAgentsPipeline, and no outcome is both an approval and a veto.
THEOREM DebateTypeCorrect == DebateSpec => []DebateTypeOK
  BY DebateInitInv, DebateInvKept, DebateInvGives, PTL DEF DebateSpec

\* Models advise, and the rules decide (ModelsOnlyAdvise), for every proposal, limit and
\* number of rounds: also for the account without free margin, whose entries are cut by the
\* personas' ceilings alone.
THEOREM ModelsAdvise == DebateSpec => ModelsOnlyAdvise
<1>1. DebateInv /\ [DebateNext]_debateVars =>
        [debate.pc # "idle" /\ debate'.pc = "idle" =>
           /\ outcome'.approved => \E p \in Proposals : WithinLimits(p, outcome'.final, debate.facts)
           /\ outcome'.vetoed =>
                /\ debate.fell = {} /\ outcome'.final \in Proposals
                /\ debate.side # "none" /\ outcome'.final.action # debate.side]_debateVars
  BY AdviceStep
<1> QED
  BY <1>1, DebateInitInv, DebateInvKept, PTL DEF DebateSpec, ModelsOnlyAdvise

-----------------------------------------------------------------------------
(* Exposure: sums *)

Margins == [b \in Assets |-> MarginOf(b)]
Risks == [b \in Assets |-> RiskAtStop(b)]

BookRecord == [side: {-1, 0, 1}, notional: Nat, leverage: Nat \ {0}, risk: Nat]
BookShape ==
  /\ book \in [Assets -> BookRecord]
  /\ \A b \in Assets : book[b].side = 0 => book[b].notional = 0 /\ book[b].risk = 0

\* The margin and the risk of a position are naturals.
LEMMA MarginsAreNat ==
  ASSUME BookShape, NEW b \in Assets
  PROVE  MarginOf(b) \in Nat /\ RiskAtStop(b) \in Nat
<1>1. book[b].notional \in Nat /\ book[b].leverage \in Nat \ {0} /\ book[b].risk \in Nat
  BY DEF BookShape, BookRecord
<1> QED
  BY <1>1, ShareIsNat DEF MarginOf, Margin, RiskAtStop

\* What the code adds up over some of the assets is a sum of integers.
LEMMA MarginSum ==
  ASSUME BookShape, NEW J, J \subseteq Assets
  PROVE  MapThenSumSet(MarginOf, J) = SumFunctionOnSet(Margins, J)
<1>1. IsFiniteSet(J) /\ \A x \in J : Margins[x] = MarginOf(x) /\ MarginOf(x) \in Nat /\ Margins[x] \in Int
  BY MarginsAreNat, FS_Subset, ExposureAssumption DEF Margins
<1> DEFINE Is(g) == g = [s \in SUBSET J |->
              IF s = {} THEN 0 ELSE MarginOf(Picked(s)) + g[s \ {Picked(s)}]]
           iter == CHOOSE g : Is(g)
<1>2. PICK h \in [SUBSET J -> Int] : Adds(h, Margins, J) /\ SumFunctionOnSet(Margins, J) = h[J]
  BY <1>1, SumIsIts
<1>3. \A s \in SUBSET J : s # {} => Picked(s) \in J
  BY DEF Picked
<1>4. Is(h)
  BY <1>1, <1>2, <1>3 DEF Adds
<1>5. Is(iter)
  BY <1>4
<1>6. MapThenSumSet(MarginOf, J) = iter[J]
  BY DEF MapThenSumSet, MapThenFoldSet, Picked
<1> HIDE DEF iter
<1>7. Adds(iter, Margins, J)
  BY <1>1, <1>3, <1>5 DEF Adds
<1>8. \A s \in SUBSET J : iter[s] = h[s]
  <2>1. \A x \in J : Margins[x] = Margins[x]
    OBVIOUS
  <2>2. J \subseteq J
    OBVIOUS
  <2> QED
    BY <1>1, <1>2, <1>7, <2>1, <2>2, SumsAgree
<1> QED
  BY <1>2, <1>6, <1>8

\* And the loss at the stops of some of the assets.
LEMMA RiskSum ==
  ASSUME BookShape, NEW J, J \subseteq Assets
  PROVE  MapThenSumSet(RiskAtStop, J) = SumFunctionOnSet(Risks, J)
<1>1. IsFiniteSet(J) /\ \A x \in J : Risks[x] = RiskAtStop(x) /\ RiskAtStop(x) \in Nat /\ Risks[x] \in Int
  BY MarginsAreNat, FS_Subset, ExposureAssumption DEF Risks
<1> DEFINE Is(g) == g = [s \in SUBSET J |->
              IF s = {} THEN 0 ELSE RiskAtStop(Picked(s)) + g[s \ {Picked(s)}]]
           iter == CHOOSE g : Is(g)
<1>2. PICK h \in [SUBSET J -> Int] : Adds(h, Risks, J) /\ SumFunctionOnSet(Risks, J) = h[J]
  BY <1>1, SumIsIts
<1>3. \A s \in SUBSET J : s # {} => Picked(s) \in J
  BY DEF Picked
<1>4. Is(h)
  BY <1>1, <1>2, <1>3 DEF Adds
<1>5. Is(iter)
  BY <1>4
<1>6. MapThenSumSet(RiskAtStop, J) = iter[J]
  BY DEF MapThenSumSet, MapThenFoldSet, Picked
<1> HIDE DEF iter
<1>7. Adds(iter, Risks, J)
  BY <1>1, <1>3, <1>5 DEF Adds
<1>8. \A s \in SUBSET J : iter[s] = h[s]
  <2>1. \A x \in J : Risks[x] = Risks[x]
    OBVIOUS
  <2>2. J \subseteq J
    OBVIOUS
  <2> QED
    BY <1>1, <1>2, <1>7, <2>1, <2>2, SumsAgree
<1> QED
  BY <1>2, <1>6, <1>8
-----------------------------------------------------------------------------
(* Exposure: a plan *)

\* A number kept between two others is between them.
LEMMA BetweenIs ==
  ASSUME NEW lo \in Int, NEW x \in Int, NEW hi \in Int, lo <= hi
  PROVE  Between(lo, x, hi) \in Int /\ lo <= Between(lo, x, hi) /\ Between(lo, x, hi) <= hi
<1> DEFINE m == Min({x, hi})
<1>1. m \in Int /\ m <= hi
  BY MinOfTwo
<1>2. Between(lo, x, hi) = Max({lo, m})
  BY DEF Between
<1> HIDE DEF m
<1>3. \A y \in {lo, m} : y <= hi
  BY <1>1
<1> DEFINE S == {lo, m}
<1>4. S \subseteq Int /\ S # {} /\ hi \in Int /\ \A y \in S : y <= hi
  BY <1>1, <1>3
<1>5. Max(S) \in S /\ \A y \in S : Max(S) >= y
  <2> HIDE DEF S
  <2> QED
    BY <1>4, MaxOfBounded
<1> QED
  BY <1>1, <1>2, <1>5

RegimeNames == {"TRENDING_STRONG", "TRENDING_NORMAL", "RANGING_LOW_VOL", "RANGING_HIGH_VOL",
            "VOLATILE_BREAKOUT", "TRANSITIONING"}

\* What a setting changes is a record of naturals.
LEMMA AdaptationIs ==
  ASSUME NEW setting \in RegimeNames
  PROVE  Adaptation[setting] \in
           [size: Nat, stop: Nat, target: Nat, minRR: Nat, leverage: Nat \ {0}]
BY DEF Adaptation, RegimeNames

\* The detector names one of the regimes.
LEMMA ClassifyIs ==
  ASSUME NEW f
  PROVE  Classify(f) \in RegimeNames
BY DEF Classify, RegimeNames

\* What the agent has learnt scales its plans by a natural.
LEMMA MultiplierIsNat ==
  ASSUME NEW r \in Records
  PROVE  (Suggested(r) * Dampened(r)) \div 100 \in Nat
<1>1. r.wins \in Int
  BY ExposureAssumption
<1> DEFINE target == 50 + Between(0, 2 * r.wins - 100, 100)
<1>2. target \in Int
  <2>1. 0 \in Int /\ 100 \in Int /\ 0 <= 100
    OBVIOUS
  <2>2. \A x \in Int : Between(0, x, 100) \in Int
    BY <2>1, BetweenIs
  <2>3. 2 * r.wins - 100 \in Int
    BY <1>1
  <2>4. Between(0, 2 * r.wins - 100, 100) \in Int
    BY <2>2, <2>3
  <2> QED
    BY <2>4
<1> HIDE DEF target
<1>3. Between(-10, target - 100, 10) \in Int /\ -10 <= Between(-10, target - 100, 10)
  BY <1>2, BetweenIs
<1>4. Suggested(r) \in Nat
  BY <1>3 DEF Suggested, target
<1>5. Dampened(r) \in Nat
  BY DEF Dampened
<1> QED
  BY <1>4, <1>5, ProductIsNat, ShareIsNat

\* A plan worth its cost is a position of its side; without funds it is of
\* nothing.
LEMMA TradePlanIs ==
  ASSUME NEW side \in TradeSides, NEW setting \in RegimeNames, NEW drawn \in Charts,
         NEW wins \in WinRates, NEW funds \in Nat, NEW multiplier \in Nat,
         Worthwhile(setting, Distances(side, setting, drawn))
  PROVE  LET plan == TradePlan(side, setting, drawn, wins, funds, multiplier)
         IN  /\ plan \in BookRecord /\ plan.side = side
             /\ funds = 0 => plan.notional = 0
<1> DEFINE a == Adaptation[setting]
           d == Distances(side, setting, drawn)
           away == side * (Price - drawn.stop)
           stop == d.stop
           bias == RegimeBias(wins)
           scaled == (a.size * bias) \div 100
           size == Max({10, scaled})
           part == (funds * BaseRisk) \div 100
           risked == (part * size * multiplier) \div 10000
           leverage == Min({a.leverage, MaxLeverage})
           notional == (risked * Price) \div stop
<1>1. a.size \in Nat /\ a.stop \in Nat /\ a.leverage \in Nat \ {0}
  BY AdaptationIs
<1>2. stop \in Nat \ {0}
  <2>1. drawn.atr \in Nat /\ drawn.stop \in Int /\ side \in Int /\ Price \in Int
    BY ExposureAssumption DEF TradeSides, Price
  <2>2. away \in Int
    BY <2>1 DEF TradeSides
  <2>3. (drawn.atr * a.stop) \div 100 \in Nat
    BY <1>1, <2>1, ProductIsNat, ShareIsNat
  <2>4. stop = away \/ stop = (drawn.atr * a.stop) \div 100
    BY DEF Distances
  <2>5. stop \in Int
    BY <2>2, <2>3, <2>4
  <2>6. stop > 0
    BY DEF Worthwhile
  <2> HIDE DEF stop
  <2> QED
    BY <2>5, <2>6
<1>3. bias \in Nat
  <2>1. wins \in Int
    BY ExposureAssumption
  <2>2. 2 * wins \in Int
    BY <2>1
  <2>3. \A x \in Int : Between(50, x, 150) \in Int /\ 50 <= Between(50, x, 150)
    <3>1. 50 \in Int /\ 150 \in Int /\ 50 <= 150
      OBVIOUS
    <3> QED
      BY <3>1, BetweenIs
  <2> QED
    BY <2>2, <2>3 DEF RegimeBias
<1> HIDE DEF bias
<1>4. scaled \in Nat
  <2>1. a.size * bias \in Nat
    BY <1>1, <1>3, ProductIsNat
  <2> QED
    BY <2>1, ShareIsNat
<1> HIDE DEF scaled
<1>5. size \in Nat
  <2>1. Max({10, scaled}) \in Int /\ Max({10, scaled}) >= 10
    <3> DEFINE ten == 10
    <3>1. ten \in Int /\ scaled \in Int
      BY <1>4
    <3> HIDE DEF ten
    <3>2. Max({ten, scaled}) \in Int /\ Max({ten, scaled}) >= ten
      BY <3>1, MaxOfTwo
    <3> QED
      BY <3>2 DEF ten
  <2> QED
    BY <2>1
<1> HIDE DEF size
<1>6. part \in Nat /\ (funds = 0 => part = 0)
  BY DEF BaseRisk
<1> HIDE DEF part
<1>7. risked \in Nat /\ (funds = 0 => risked = 0)
  <2>1. part * size \in Nat
    BY <1>5, <1>6, ProductIsNat
  <2>2. part * size * multiplier \in Nat
    BY <2>1, ProductIsNat
  <2>3. risked \in Nat
    BY <2>2, ShareIsNat
  <2>4. ASSUME funds = 0 PROVE risked = 0
    <3>1. part = 0
      BY <1>6, <2>4
    <3>2. part * size = 0
      BY <3>1, <1>5
    <3>3. part * size * multiplier = 0
      BY <3>2
    <3> QED
      BY <3>3
  <2> QED
    BY <2>3, <2>4
<1> HIDE DEF risked
<1>8. notional \in Nat /\ (funds = 0 => notional = 0)
  <2>1. risked * Price \in Nat /\ (risked = 0 => risked * Price = 0)
    BY <1>7 DEF Price
  <2>2. notional \in Nat
    BY <1>2, <2>1, ShareIsNat
  <2>3. ASSUME risked = 0 PROVE notional = 0
    <3>1. notional = 0 \div stop
      BY <2>1, <2>3
    <3> HIDE DEF stop, notional
    <3> QED
      BY <3>1, <1>2
  <2> QED
    BY <1>7, <2>2, <2>3
<1>9. leverage \in Nat \ {0}
  <2>1. a.leverage \in Int /\ MaxLeverage \in Int
    BY <1>1 DEF MaxLeverage
  <2>2. leverage \in {a.leverage, MaxLeverage}
    BY <2>1, MinOfTwo
  <2> QED
    BY <1>1, <2>2 DEF MaxLeverage
<1>10. TradePlan(side, setting, drawn, wins, funds, multiplier) =
         [side |-> side, notional |-> notional, leverage |-> leverage, risk |-> risked]
  BY DEF TradePlan, part, risked, size, scaled, bias
<1>11. side \in {-1, 0, 1}
  BY DEF TradeSides
<1> HIDE DEF notional, leverage
<1> QED
  BY <1>7, <1>8, <1>9, <1>10, <1>11 DEF BookRecord

-----------------------------------------------------------------------------
(* Exposure: the invariant *)

ScanShape ==
  /\ scan \in [pc: {"idle", "scanning", "asking"}, todo: SUBSET Assets, seen: SUBSET Assets, funds: Nat,
               multiplier: Nat, of: SUBSET Assets, plan: BookRecord, entered: SUBSET Assets,
               since: [Assets -> Nat]]
  /\ IF scan.pc = "asking"
     THEN scan.plan.side \in TradeSides /\ \E a \in Assets : scan.of = {a}
     ELSE scan.of = {}

DeskRecord == [pc: {"idle", "asking", "approved", "filled"}, funds: Nat, plan: BookRecord,
               atStop: Nat, since: [Assets -> Nat]]
Checked == {"approved", "filled"}

\* What a symbol of the SMC agent asks for is a position that risks its share.
DeskAsksFor(a) ==
  desk[a].pc # "idle" =>
    /\ scan.pc = "idle" /\ desk[a].plan.side \in TradeSides
    /\ desk[a].plan.risk <= (desk[a].funds * BaseRisk) \div 100
    /\ desk[a].pc = "asking" => \A b \in Assets : desk[a].since[b] = 0
DeskShape == desk \in [Assets -> DeskRecord] /\ \A a \in Assets : DeskAsksFor(a)

\* The margin of an asset is what the history says: of an entry of this cycle a cap
\* and its slippage, of what came since the list at most that; else the list has it.
SinceCounts(b) ==
  scan.pc # "idle" =>
    /\ b \in scan.entered => 100 * MarginOf(b) <= CapPct * scan.funds + 100 * scan.since[b]
    /\ b \notin scan.entered /\ scan.since[b] > 0 => MarginOf(b) <= scan.since[b]
    /\ b \notin scan.entered /\ scan.since[b] = 0 /\ MarginOf(b) > 0 => b \in scan.seen

\* A plan that has been approved and not placed is within the cap, with what
\* moves with it of what the list showed.
KeptMargins(a, side) ==
  [b \in Assets |-> IF /\ b # a /\ Compounding(a, side, b)
                       /\ scan.since[b] = 0 /\ b \notin scan.entered
                    THEN MarginOf(b) ELSE 0]
PlanStillFits ==
  scan.pc = "asking" =>
    \A a \in Assets, side \in TradeSides : a \in scan.of /\ scan.plan.side = side =>
      100 * (Margin(scan.plan) + SumFunctionOnSet(KeptMargins(a, side), Assets)) <= CapPct * scan.funds

\* And what the risk engine has counted is within the limit.
KeptRisks(a) == [b \in Assets |-> IF desk[a].since[b] = 0 THEN RiskAtStop(b) ELSE 0]
RisksFit(a) ==
  desk[a].pc \in Checked =>
    /\ \A b \in Assets : desk[a].since[b] > 0 => RiskAtStop(b) <= desk[a].since[b]
    /\ SumFunctionOnSet(KeptRisks(a), Assets) + (desk[a].funds * BaseRisk) \div 100
         <= (desk[a].funds * MaxAccountRisk) \div 100

ExposureShape == rho \in Correlations /\ BookShape /\ ScanShape /\ DeskShape
ExposureInv ==
  /\ ExposureShape
  /\ \A b \in Assets : SinceCounts(b)
  /\ PlanStillFits
  /\ \A a \in Assets : RisksFit(a)

\* What is beyond the plan is a natural, and with it the plan is passed by nothing.
LEMMA ExcessIs ==
  ASSUME NEW now \in Int, NEW planned \in Int
  PROVE  Excess(now, planned) \in Nat /\ now <= planned + Excess(now, planned)
<1> DEFINE d == now - planned
           zero == 0
<1>1. d \in Int /\ zero \in Int /\ Excess(now, planned) = Max({zero, d})
  BY DEF Excess
<1> HIDE DEF d, zero
<1>2. Max({zero, d}) \in Int /\ Max({zero, d}) >= zero /\ Max({zero, d}) >= d
  BY <1>1, MaxOfTwo
<1> QED
  BY <1>1, <1>2 DEF d, zero

\* The margin of a position is a natural.
LEMMA MarginIsNat ==
  ASSUME NEW p \in BookRecord
  PROVE  Margin(p) \in Nat
<1>1. p.notional \in Nat /\ p.leverage \in Nat \ {0}
  BY DEF BookRecord
<1> QED
  BY <1>1, ShareIsNat DEF Margin

\* What moves with a candidate is held.
LEMMA CompoundingIsHeld ==
  ASSUME ExposureShape, NEW a \in Assets, NEW side \in TradeSides, NEW b \in Assets, a # b,
         Compounding(a, side, b)
  PROVE  Held(b)
<1>1. side * book[b].side * rho[{a, b}] = 1
  BY DEF Compounding
<1>2. rho[{a, b}] \in {-1, 0, 1}
  BY ExposureAssumption DEF ExposureShape
<1>3. book[b].side \in {-1, 0, 1}
  BY DEF ExposureShape, BookShape, BookRecord
<1> DEFINE r == rho[{a, b}]
           s == book[b].side
<1> HIDE DEF r, s
<1>4. s # 0
  <2>1. side * s * r = 1 /\ s \in {-1, 0, 1} /\ r \in {-1, 0, 1} /\ side \in {-1, 1}
    BY <1>1, <1>2, <1>3 DEF r, s, TradeSides
  <2> QED
    BY <2>1
<1> QED
  BY <1>4 DEF Held, s

\* A position filled at another price is one, of the side planned.
LEMMA FilledIs ==
  ASSUME NEW plan \in BookRecord, plan.side \in TradeSides, NEW price \in FillPrices
  PROVE  Filled(plan, price) \in BookRecord /\ Filled(plan, price).side = plan.side
<1> DEFINE notional == (plan.notional * price) \div Price
           risk == plan.risk + plan.side * (notional - plan.notional)
           lost == Max({risk, -risk})
<1>1. plan.notional \in Nat /\ plan.risk \in Nat /\ plan.leverage \in Nat \ {0} /\ price \in Nat
      /\ plan.side \in {-1, 1}
  BY ExposureAssumption DEF BookRecord, TradeSides
<1>2. notional \in Nat
  <2>1. plan.notional * price \in Nat /\ Price \in Nat \ {0}
    BY <1>1, ProductIsNat DEF Price
  <2> QED
    BY <2>1, ShareIsNat
<1>3. Filled(plan, price) = [plan EXCEPT !.notional = notional, !.risk = lost]
  BY DEF Filled
<1> HIDE DEF notional
<1>4. risk \in Int
  BY <1>1, <1>2
<1> HIDE DEF risk
<1>5. lost \in Nat
  <2> DEFINE other == -risk
  <2>1. other \in Int /\ lost = Max({risk, other}) /\ (risk >= 0 \/ other >= 0)
    BY <1>4
  <2> HIDE DEF other, lost
  <2>2. Max({risk, other}) \in Int /\ Max({risk, other}) >= risk /\ Max({risk, other}) >= other
    BY <1>4, <2>1, MaxOfTwo
  <2> QED
    BY <1>4, <2>1, <2>2
<1> HIDE DEF lost
<1> QED
  BY <1>2, <1>3, <1>5 DEF BookRecord

\* What nets a position is a position.
LEMMA NettedIs ==
  ASSUME NEW old \in BookRecord, NEW new \in BookRecord, new.side \in TradeSides,
         old.side = 0 => old.notional = 0
  PROVE  /\ Netted(old, new) \in BookRecord
         /\ Netted(old, new).side = 0 => Netted(old, new).notional = 0 /\ Netted(old, new).risk = 0
<1> DEFINE n == Netted(old, new)
           ratio == (old.risk * (old.notional - new.notional)) \div old.notional
           share == (new.risk * (new.notional - old.notional)) \div new.notional
<1>1. /\ old.notional \in Nat /\ new.notional \in Nat /\ old.leverage \in Nat \ {0}
      /\ new.leverage \in Nat \ {0} /\ old.risk \in Nat /\ new.risk \in Nat
      /\ old.side \in {-1, 0, 1} /\ new.side \in {-1, 1}
  BY DEF BookRecord, TradeSides
<1>2. CASE old.side = 0
  <2>1. n = new
    BY <1>2 DEF Netted
  <2> QED
    BY <1>1, <2>1
<1>3. CASE old.side # 0 /\ new.notional > old.notional
  <2>1. n = [new EXCEPT !.notional = new.notional - old.notional, !.risk = share]
    BY <1>3 DEF Netted
  <2>2. new.notional - old.notional \in Nat /\ new.notional \in Nat \ {0}
    BY <1>1, <1>3
  <2>3. share \in Nat
    BY <1>1, <2>2, ProductIsNat, ShareIsNat
  <2> HIDE DEF n, share
  <2>4. n \in BookRecord /\ n.side = new.side
    BY <2>1, <2>2, <2>3 DEF BookRecord
  <2> QED
    BY <1>1, <2>4 DEF n
<1>4. CASE old.side # 0 /\ ~(new.notional > old.notional) /\ new.notional = old.notional
  <2>1. n = Flat
    BY <1>4 DEF Netted
  <2>2. Flat \in BookRecord /\ Flat.side = 0 /\ Flat.notional = 0 /\ Flat.risk = 0
    BY DEF Flat, BookRecord
  <2> HIDE DEF n
  <2> QED
    BY <1>1, <2>1, <2>2 DEF n
<1>5. CASE old.side # 0 /\ ~(new.notional > old.notional) /\ new.notional # old.notional
  <2>1. n = [old EXCEPT !.notional = old.notional - new.notional, !.risk = ratio]
    BY <1>5 DEF Netted
  <2>2. old.notional - new.notional \in Nat /\ old.notional \in Nat \ {0}
    BY <1>1, <1>5
  <2>3. ratio \in Nat
    BY <1>1, <2>2, ProductIsNat, ShareIsNat
  <2> HIDE DEF n, ratio
  <2>4. n \in BookRecord /\ n.side = old.side
    BY <2>1, <2>2, <2>3 DEF BookRecord
  <2> QED
    BY <1>5, <2>4 DEF n
<1> QED
  BY <1>2, <1>3, <1>4, <1>5

\* What the SMC agent plans is a position of its side, and loses no more than
\* the share of the equity it may risk.
LEMMA DeskPlanIs ==
  ASSUME NEW side \in TradeSides, NEW d \in StopDistances, NEW funds \in Nat
  PROVE  /\ DeskPlan(side, d, funds) \in BookRecord /\ DeskPlan(side, d, funds).side = side
         /\ DeskPlan(side, d, funds).risk <= (funds * BaseRisk) \div 100
<1> DEFINE risked == (funds * BaseRisk) \div 100
           size == (risked * Price) \div d
           most == funds * DefaultLeverage
           notional == Min({size, most})
           risk == (notional * d) \div Price
<1>1. d \in Nat \ {0}
  BY ExposureAssumption
<1>2. DeskPlan(side, d, funds) = [side |-> side, notional |-> notional, leverage |-> DefaultLeverage,
                                  risk |-> risk]
  BY DEF DeskPlan
<1>3. risked \in Nat /\ most \in Nat
  BY DEF BaseRisk, DefaultLeverage
<1> HIDE DEF risked, most
<1>4. size \in Nat /\ size * d <= risked * Price
  <2>1. risked * Price \in Nat
    BY <1>3 DEF Price
  <2> DEFINE q == risked * Price
  <2> HIDE DEF q
  <2>2. \A x \in Nat, y \in Nat \ {0} : x \div y \in Nat /\ (x \div y) * y <= x
    OBVIOUS
  <2>3. q \div d \in Nat /\ (q \div d) * d <= q
    BY <1>1, <2>1, <2>2 DEF q
  <2> QED
    BY <2>3 DEF q
<1> HIDE DEF size
<1>5. notional \in Nat /\ notional <= size
  BY <1>3, <1>4, MinOfTwo
<1> HIDE DEF notional
<1>6. notional * d \in Nat /\ notional * d <= risked * Price
  <2>1. \A x, y, z \in Nat : x <= y => x * z <= y * z
    OBVIOUS
  <2>2. d \in Nat
    BY <1>1
  <2>3. notional * d <= size * d
    BY <1>4, <1>5, <2>1, <2>2
  <2>4. notional * d \in Nat /\ size * d \in Nat
    BY <1>4, <1>5, <2>2, ProductIsNat
  <2> QED
    BY <1>3, <1>4, <2>3, <2>4 DEF Price
<1>7. risk \in Nat /\ risk <= risked
  <2> DEFINE q == notional * d
  <2>1. q \in Nat /\ q <= risked * Price
    BY <1>6
  <2>2. risk = q \div Price
    OBVIOUS
  <2> HIDE DEF q, risk
  <2> QED
    BY <1>3, <2>1, <2>2 DEF Price
<1> HIDE DEF risk
<1>8. DefaultLeverage \in Nat \ {0} /\ side \in {-1, 0, 1}
  BY DEF DefaultLeverage, TradeSides
<1> QED
  BY <1>2, <1>5, <1>7, <1>8 DEF BookRecord, risked

\* With nothing held, no cycle and no candidate the invariant holds.
LEMMA ExposureInitInv == ExposureInit => ExposureInv
<1> SUFFICES ASSUME ExposureInit PROVE ExposureInv
  OBVIOUS
<1>1. Flat \in BookRecord /\ Flat.side = 0 /\ Flat.notional = 0 /\ Flat.risk = 0
  BY DEF Flat, BookRecord
<1> HIDE DEF BookRecord
<1>2. BookShape
  <2> HIDE DEF Flat
  <2> QED
    BY <1>1 DEF ExposureInit, BookShape
<1>3. ScanShape /\ scan.pc = "idle"
  <2> HIDE DEF Flat
  <2> QED
    BY <1>1 DEF ExposureInit, ScanShape, Resting
<1>4. NotAsking \in DeskRecord /\ NotAsking.pc = "idle"
  <2> HIDE DEF Flat
  <2> QED
    BY <1>1 DEF NotAsking, DeskRecord
<1>5. DeskShape /\ \A a \in Assets : desk[a].pc = "idle"
  <2> HIDE DEF NotAsking, DeskRecord
  <2> QED
    BY <1>4 DEF ExposureInit, DeskShape, DeskAsksFor
<1>6. \A a \in Assets : SinceCounts(a) /\ RisksFit(a)
  BY <1>3, <1>5 DEF SinceCounts, RisksFit, Checked
<1>7. PlanStillFits
  BY <1>3 DEF PlanStillFits
<1> QED
  BY <1>2, <1>3, <1>5, <1>6, <1>7 DEF ExposureInit, ExposureInv, ExposureShape

\* What the history of the SMC agent's checks becomes when an asset changes.
LEMMA DeskSawIs ==
  ASSUME NEW a \in Assets, NEW open \in [Assets -> DeskRecord], DeskSaw(a, open), book'[a].risk \in Nat
  PROVE  /\ desk' \in [Assets -> DeskRecord]
         /\ \A b \in Assets :
              /\ desk'[b].pc = open[b].pc /\ desk'[b].funds = open[b].funds
              /\ desk'[b].plan = open[b].plan /\ desk'[b].atStop = open[b].atStop
              /\ open[b].pc \notin Checked => desk'[b] = open[b]
              /\ open[b].pc \in Checked =>
                   /\ desk'[b].since[a] = book'[a].risk
                   /\ \A c \in Assets \ {a} : desk'[b].since[c] = open[b].since[c]
<1> DEFINE now == book'[a].risk
<1>1. desk' = [b \in Assets |-> IF open[b].pc \notin Checked THEN open[b]
                                ELSE [open[b] EXCEPT !.since[a] = now]]
  BY DEF DeskSaw, Checked
<1>2. now \in Nat
  OBVIOUS
<1> HIDE DEF now
<1>3. SUFFICES ASSUME NEW b \in Assets
      PROVE  /\ desk'[b] \in DeskRecord
             /\ desk'[b].pc = open[b].pc /\ desk'[b].funds = open[b].funds
             /\ desk'[b].plan = open[b].plan /\ desk'[b].atStop = open[b].atStop
             /\ open[b].pc \notin Checked => desk'[b] = open[b]
             /\ open[b].pc \in Checked =>
                  /\ desk'[b].since[a] = now
                  /\ \A c \in Assets \ {a} : desk'[b].since[c] = open[b].since[c]
  BY <1>1, <1>3 DEF now
<1> DEFINE d == open[b]
<1>4. d \in DeskRecord
  OBVIOUS
<1>5. CASE d.pc \notin Checked
  BY <1>1, <1>4, <1>5
<1>6. CASE d.pc \in Checked
  <2>1. desk'[b] = [d EXCEPT !.since[a] = now]
    BY <1>1, <1>6
  <2> HIDE DEF d
  <2> QED
    BY <1>2, <1>4, <1>6, <2>1 DEF DeskRecord, d
<1> QED
  BY <1>5, <1>6

\* A step keeps the book what it is: nothing is committed where nothing is held.
LEMMA BookShapeKept ==
  ExposureShape /\ ExposureNext => BookShape'
<1> SUFFICES ASSUME ExposureShape, ExposureNext PROVE BookShape'
  OBVIOUS
<1> USE DEF ExposureShape
<1>1. ASSUME NEW a \in Assets, NEW p \in BookRecord, p.side = 0 => p.notional = 0 /\ p.risk = 0,
             book' = [book EXCEPT ![a] = p]
      PROVE  BookShape'
  BY <1>1 DEF BookShape
<1>2. ASSUME UNCHANGED book PROVE BookShape'
  BY <1>2 DEF BookShape
<1>3. ASSUME NEW plan \in BookRecord, plan.side \in TradeSides, NEW price \in FillPrices, NEW a \in Assets
      PROVE  LET p == Netted(book[a], Filled(plan, price))
             IN  p \in BookRecord /\ (p.side = 0 => p.notional = 0 /\ p.risk = 0)
  <2>1. book[a] \in BookRecord /\ (book[a].side = 0 => book[a].notional = 0 /\ book[a].risk = 0)
    BY DEF BookShape
  <2>2. Filled(plan, price) \in BookRecord /\ Filled(plan, price).side \in TradeSides
    BY <1>3, FilledIs
  <2> QED
    BY <2>1, <2>2, NettedIs
<1>4. ASSUME NEW a \in Assets, NEW price \in FillPrices, AgentFills(a, price) PROVE BookShape'
  <2>1. scan.plan \in BookRecord /\ scan.plan.side \in TradeSides
    BY <1>4 DEF AgentFills, ScanShape
  <2> DEFINE p == Netted(book[a], Filled(scan.plan, price))
  <2>2. p \in BookRecord /\ (p.side = 0 => p.notional = 0 /\ p.risk = 0)
    BY <1>3, <2>1
  <2>3. book' = [book EXCEPT ![a] = p]
    BY <1>4 DEF AgentFills
  <2> HIDE DEF p
  <2> QED
    BY <1>1, <2>2, <2>3
<1>5. ASSUME NEW a \in Assets, OtherExits(a) PROVE BookShape'
  <2>1. Flat \in BookRecord /\ Flat.notional = 0 /\ Flat.risk = 0
    BY DEF Flat, BookRecord
  <2>2. book' = [book EXCEPT ![a] = Flat]
    BY <1>5 DEF OtherExits
  <2> HIDE DEF Flat
  <2> QED
    BY <1>1, <2>1, <2>2
<1>6. ASSUME NEW a \in Assets, NEW side \in TradeSides, NEW risk \in OtherRisks, OtherEnters(a, side, risk)
      PROVE  BookShape'
  <2> DEFINE p == [side |-> side, notional |-> OtherSize, leverage |-> DefaultLeverage, risk |-> risk]
  <2>1. p \in BookRecord /\ p.side # 0
    BY ExposureAssumption DEF BookRecord, TradeSides, DefaultLeverage
  <2>2. book' = [book EXCEPT ![a] = p]
    BY <1>6 DEF OtherEnters
  <2> HIDE DEF p
  <2> QED
    BY <1>1, <2>1, <2>2
<1>7. ASSUME NEW a \in Assets, NEW risk \in Nat, book' = [book EXCEPT ![a].risk = risk], Held(a)
      PROVE  BookShape'
  <2> DEFINE p == [book[a] EXCEPT !.risk = risk]
  <2>1. book[a] \in BookRecord /\ (book[a].side = 0 => book[a].notional = 0 /\ book[a].risk = 0)
    BY DEF BookShape
  <2>2. p \in BookRecord /\ (p.side = 0 => p.notional = 0 /\ p.risk = 0)
    BY <1>7, <2>1 DEF BookRecord, Held
  <2>3. book' = [book EXCEPT ![a] = p]
    BY <1>7
  <2> HIDE DEF p
  <2> QED
    BY <1>1, <2>2, <2>3
<1>8. ASSUME NEW a \in Assets, NEW risk \in OtherRisks, OtherProtects(a, risk) PROVE BookShape'
  BY <1>7, <1>8, ExposureAssumption DEF OtherProtects
<1>9. ASSUME NEW a \in Assets, NEW price \in FillPrices, DeskFills(a, price) PROVE BookShape'
  <2>1. desk[a].plan \in BookRecord /\ desk[a].plan.side \in TradeSides
    BY <1>9 DEF DeskFills, DeskShape, DeskAsksFor, DeskRecord
  <2> DEFINE p == Netted(book[a], Filled(desk[a].plan, price))
             q == [p EXCEPT !.risk = 0]
  <2>2. p \in BookRecord /\ (p.side = 0 => p.notional = 0 /\ p.risk = 0)
    BY <1>3, <2>1
  <2>3. q \in BookRecord /\ (q.side = 0 => q.notional = 0 /\ q.risk = 0)
    <3> HIDE DEF p
    <3> QED
      BY <2>2 DEF BookRecord
  <2>4. book' = [book EXCEPT ![a] = p] \/ book' = [book EXCEPT ![a] = q]
    BY <1>9 DEF DeskFills
  <2> HIDE DEF p, q
  <2> QED
    BY <1>1, <2>2, <2>3, <2>4
<1>10. ASSUME NEW a \in Assets, DeskProtects(a) PROVE BookShape'
  <2>1. desk[a].atStop \in Nat /\ (desk[a].pc = "filled" => desk[a].plan.side # 0)
    BY DEF DeskShape, DeskAsksFor, DeskRecord, TradeSides
  <2>2. book[a].side = desk[a].plan.side => Held(a)
    BY <1>10, <2>1 DEF DeskProtects, Held
  <2> QED
    BY <1>2, <1>7, <1>10, <2>1, <2>2 DEF DeskProtects
<1>11. ASSUME NEW r \in Records, NEW e \in EquityLevels, BeginScan(r, e) PROVE BookShape'
  BY <1>2, <1>11 DEF BeginScan
<1>12. ASSUME EndScan PROVE BookShape'
  BY <1>2, <1>12 DEF EndScan
<1>13. ASSUME NEW a \in Assets, PassBy(a) \/ AgentRefused(a) \/ DeskApproves(a) \/ DeskAbstains(a)
       PROVE  BookShape'
  BY <1>2, <1>13 DEF PassBy, AgentRefused, DeskApproves, DeskAbstains
<1>14. ASSUME NEW a \in Assets, NEW f \in Readings, NEW c \in Charts, NEW e \in EquityLevels,
              PyramidAdd(a, f, c, e)
       PROVE  BookShape'
  BY <1>2, <1>14 DEF PyramidAdd
<1>15. ASSUME NEW a \in Assets, NEW f \in Readings, NEW c \in Charts, NEW side \in TradeSides,
              NEW w \in WinRates, TakeUp(a, side, f, c, w)
       PROVE  BookShape'
  BY <1>2, <1>15 DEF TakeUp
<1>16. ASSUME NEW a \in Assets, NEW side \in TradeSides, NEW d \in StopDistances, NEW e \in EquityLevels,
              DeskAsks(a, side, d, e)
       PROVE  BookShape'
  BY <1>2, <1>16 DEF DeskAsks
<1> QED
  BY <1>4, <1>5, <1>6, <1>8, <1>9, <1>10, <1>11, <1>12, <1>13, <1>14, <1>15, <1>16 DEF ExposureNext

\* What a step of the cycle is, with the book and the SMC agent left alone.
ScanMoves ==
  /\ UNCHANGED <<book, rho, desk>>
  /\ \/ \E r \in Records, e \in EquityLevels : BeginScan(r, e)
     \/ EndScan
     \/ \E a \in Assets :
          \/ PassBy(a) \/ AgentRefused(a)
          \/ \E f \in Readings, c \in Charts :
               \/ \E e \in EquityLevels : PyramidAdd(a, f, c, e)
               \/ \E side \in TradeSides, w \in WinRates : TakeUp(a, side, f, c, w)

\* And a decision of the SMC agent, with the book and the cycle left alone.
DeskDecides(a) ==
  /\ UNCHANGED <<book, rho, scan>>
  /\ \/ \E side \in TradeSides, d \in StopDistances, e \in EquityLevels : DeskAsks(a, side, d, e)
     \/ DeskApproves(a) \/ DeskAbstains(a)

\* An asset changes under the cycle, or under the SMC agent: its fill, its stop, a step
\* of others.
Elsewhere(a) ==
  /\ \A b \in Assets \ {a} : book'[b] = book[b]
  /\ rho' = rho
  /\ \/ ScanSaw(a)
     \/ /\ scan' = scan
        /\ scan.pc = "idle" \/ (book'[a].side = book[a].side /\ Margin(book'[a]) = Margin(book[a]))
  /\ \/ DeskSaw(a, desk) \/ DeskProtects(a)
     \/ \E price \in FillPrices : DeskFills(a, price)

\* Every step is one of these, or the agent's fill.
LEMMA ExposureSteps ==
  ASSUME ExposureShape, ExposureNext
  PROVE  \/ ScanMoves
         \/ \E a \in Assets : DeskDecides(a)
         \/ \E a \in Assets : Elsewhere(a)
         \/ \E a \in Assets, price \in FillPrices : AgentFills(a, price)
<1>1. ASSUME NEW r \in Records, NEW e \in EquityLevels, BeginScan(r, e) PROVE ScanMoves
  BY <1>1 DEF ScanMoves, BeginScan
<1>2. ASSUME EndScan PROVE ScanMoves
  BY <1>2 DEF ScanMoves, EndScan
<1>3. ASSUME NEW a \in Assets, PassBy(a) \/ AgentRefused(a) PROVE ScanMoves
  BY <1>3 DEF ScanMoves, PassBy, AgentRefused
<1>4. ASSUME NEW a \in Assets, NEW f \in Readings, NEW c \in Charts, NEW e \in EquityLevels,
             PyramidAdd(a, f, c, e)
      PROVE  ScanMoves
  BY <1>4 DEF ScanMoves, PyramidAdd
<1>5. ASSUME NEW a \in Assets, NEW f \in Readings, NEW c \in Charts, NEW side \in TradeSides,
             NEW w \in WinRates, TakeUp(a, side, f, c, w)
      PROVE  ScanMoves
  <2>1. UNCHANGED <<book, rho, desk>>
    BY <1>5 DEF TakeUp
  <2> QED
    BY <1>5, <2>1 DEF ScanMoves
<1>6. ASSUME NEW a \in Assets, NEW side \in TradeSides, NEW d \in StopDistances, NEW e \in EquityLevels,
             DeskAsks(a, side, d, e)
      PROVE  DeskDecides(a)
  <2>1. UNCHANGED <<book, rho, scan>>
    BY <1>6 DEF DeskAsks
  <2> QED
    BY <1>6, <2>1 DEF DeskDecides
<1>7. ASSUME NEW a \in Assets, DeskApproves(a) \/ DeskAbstains(a) PROVE DeskDecides(a)
  <2>1. UNCHANGED <<book, rho, scan>>
    BY <1>7 DEF DeskApproves, DeskAbstains
  <2> QED
    BY <1>7, <2>1 DEF DeskDecides
<1>8. ASSUME NEW a \in Assets, NEW x, book' = [book EXCEPT ![a] = x]
      PROVE  \A b \in Assets \ {a} : book'[b] = book[b]
  BY <1>8 DEF ExposureShape, BookShape
<1>9. ASSUME NEW a \in Assets, OtherExits(a) PROVE Elsewhere(a)
  BY <1>8, <1>9 DEF OtherExits, Elsewhere
<1>10. ASSUME NEW a \in Assets, NEW side \in TradeSides, NEW risk \in OtherRisks, OtherEnters(a, side, risk)
       PROVE  Elsewhere(a)
  BY <1>8, <1>10 DEF OtherEnters, Elsewhere
<1>11. ASSUME NEW a \in Assets, NEW risk, book' = [book EXCEPT ![a].risk = risk]
       PROVE  /\ book'[a].side = book[a].side /\ Margin(book'[a]) = Margin(book[a])
              /\ \A b \in Assets \ {a} : book'[b] = book[b]
  BY <1>11 DEF ExposureShape, BookShape, BookRecord, Margin
<1>12. ASSUME NEW a \in Assets, NEW risk \in OtherRisks, OtherProtects(a, risk) PROVE Elsewhere(a)
  BY <1>11, <1>12 DEF OtherProtects, Elsewhere
<1>13. ASSUME NEW a \in Assets, DeskProtects(a) PROVE Elsewhere(a)
  <2>1. UNCHANGED <<rho, scan>>
        /\ (book' = book \/ book' = [book EXCEPT ![a].risk = desk[a].atStop])
    BY <1>13 DEF DeskProtects
  <2> QED
    BY <1>11, <1>13, <2>1 DEF Elsewhere
<1>14. ASSUME NEW a \in Assets, NEW price \in FillPrices, DeskFills(a, price) PROVE Elsewhere(a)
  <2>1. scan.pc = "idle" /\ UNCHANGED <<rho, scan>>
    BY <1>14 DEF DeskFills, ExposureShape, DeskShape, DeskAsksFor
  <2>2. \E x : book' = [book EXCEPT ![a] = x]
    BY <1>14 DEF DeskFills
  <2> QED
    BY <1>8, <1>14, <2>1, <2>2 DEF Elsewhere
<1> QED
  BY <1>1, <1>2, <1>3, <1>4, <1>5, <1>6, <1>7, <1>9, <1>10, <1>12, <1>13, <1>14 DEF ExposureNext

\* A step keeps the cycle what it is.
LEMMA ScanShapeKept ==
  ASSUME ExposureShape, BookShape', ExposureNext
  PROVE  ScanShape'
<1>0. ScanShape /\ BookShape
  BY DEF ExposureShape
<1>a. Flat \in BookRecord
  BY DEF Flat, BookRecord
<1>b. HeldAssets \in SUBSET Assets
  BY DEF HeldAssets
<1>c. \A e \in EquityLevels : e \in Nat
  BY ExposureAssumption
<1> HIDE DEF BookRecord, Flat
<1>d. Resting \in [pc: {"idle", "scanning", "asking"}, todo: SUBSET Assets, seen: SUBSET Assets,
                   funds: Nat, multiplier: Nat, of: SUBSET Assets, plan: BookRecord,
                   entered: SUBSET Assets, since: [Assets -> Nat]]
      /\ Resting.pc = "idle" /\ Resting.of = {}
  BY <1>a DEF Resting
<1>1. ASSUME NEW r \in Records, NEW e \in EquityLevels, BeginScan(r, e) PROVE ScanShape'
  <2> DEFINE m == (Suggested(r) * Dampened(r)) \div 100
  <2>1. m \in Nat
    BY MultiplierIsNat
  <2>2. scan' = [Resting EXCEPT !.pc = "scanning", !.todo = Assets, !.seen = HeldAssets, !.funds = e,
                                !.multiplier = m]
    BY <1>1 DEF BeginScan
  <2> HIDE DEF m
  <2> QED
    BY <1>b, <1>c, <1>d, <2>1, <2>2 DEF ScanShape
<1>2. ASSUME EndScan PROVE ScanShape'
  <2> HIDE DEF Resting
  <2> QED
    BY <1>0, <1>2, <1>d DEF EndScan, ScanShape
<1>3. ASSUME NEW a \in Assets, PassBy(a) PROVE ScanShape'
  BY <1>0, <1>3 DEF PassBy, ScanShape
<1>4. ASSUME NEW a \in Assets, AgentRefused(a) PROVE ScanShape'
  BY <1>0, <1>4, <1>a DEF AgentRefused, ScanShape
<1>5. ASSUME NEW a \in Assets, NEW price \in FillPrices, AgentFills(a, price) PROVE ScanShape'
  <2> DEFINE position == Netted(book[a], Filled(scan.plan, price))
             more == Excess(Margin(position), Margin(scan.plan))
  <2>1. scan.plan \in BookRecord /\ position = book'[a]
    BY <1>0, <1>5 DEF AgentFills, ScanShape, BookShape
  <2>2. position \in BookRecord
    BY <2>1 DEF BookShape
  <2>3. more \in Nat
    <3> HIDE DEF position
    <3>1. Margin(position) \in Int /\ Margin(scan.plan) \in Int
      BY <2>1, <2>2, MarginIsNat
    <3> QED
      BY <3>1, ExcessIs
  <2>4. scan' = [scan EXCEPT !.pc = "scanning", !.todo = @ \ {a}, !.of = {}, !.plan = Flat,
                             !.entered = @ \union {a}, !.since[a] = more]
    BY <1>5 DEF AgentFills
  <2> HIDE DEF position, more
  <2> QED
    BY <1>0, <1>a, <2>3, <2>4 DEF ScanShape
<1>6. ASSUME NEW a \in Assets, ScanSaw(a) PROVE ScanShape'
  <2> DEFINE m == Margin(book'[a])
  <2>1. m \in Nat
    BY MarginIsNat DEF BookShape
  <2>2. scan' = IF scan.pc = "idle" THEN scan ELSE [scan EXCEPT !.entered = @ \ {a}, !.since[a] = m]
    BY <1>6 DEF ScanSaw
  <2> HIDE DEF m
  <2> QED
    BY <1>0, <2>1, <2>2 DEF ScanShape
<1>7. ASSUME NEW a \in Assets, NEW f \in Readings, NEW c \in Charts, NEW e \in EquityLevels,
             PyramidAdd(a, f, c, e)
      PROVE  ScanShape'
  <2>1. scan' = [scan EXCEPT !.todo = scan.todo \ {a}] /\ scan.pc = "scanning"
    BY <1>7 DEF PyramidAdd
  <2> QED
    BY <1>0, <2>1 DEF ScanShape
<1>8. ASSUME NEW a \in Assets, NEW f \in Readings, NEW c \in Charts, NEW side \in TradeSides,
             NEW w \in WinRates, TakeUp(a, side, f, c, w)
      PROVE  ScanShape'
  <2> DEFINE setting == Classify(f)
             plan == TradePlan(side, setting, c, w, scan.funds, scan.multiplier)
  <2>1. plan \in BookRecord /\ plan.side = side
    <3>1. setting \in RegimeNames
      BY ClassifyIs
    <3>2. scan.funds \in Nat /\ scan.multiplier \in Nat
      BY <1>0 DEF ScanShape
    <3>3. Worthwhile(setting, Distances(side, setting, c))
      BY <1>8 DEF TakeUp
    <3> HIDE DEF setting
    <3> QED
      BY <3>1, <3>2, <3>3, TradePlanIs
  <2>2. scan' = [scan EXCEPT !.pc = "asking", !.of = {a}, !.plan = plan] /\ scan.pc = "scanning"
    BY <1>8 DEF TakeUp
  <2> HIDE DEF plan
  <2> QED
    BY <1>0, <2>1, <2>2 DEF ScanShape
<1>9. ASSUME ScanMoves PROVE ScanShape'
  BY <1>1, <1>2, <1>3, <1>4, <1>7, <1>8, <1>9 DEF ScanMoves
<1>10. ASSUME scan' = scan PROVE ScanShape'
  BY <1>0, <1>10 DEF ScanShape
<1>11. ASSUME NEW a \in Assets, DeskDecides(a) PROVE ScanShape'
  BY <1>10, <1>11 DEF DeskDecides
<1>12. ASSUME NEW a \in Assets, Elsewhere(a) PROVE ScanShape'
  BY <1>6, <1>10, <1>12 DEF Elsewhere
<1> QED
  BY <1>5, <1>9, <1>11, <1>12, ExposureSteps

\* While anything is asked for, no cycle begins; and none asks while one runs.
LEMMA OneAtATime ==
  ASSUME ExposureShape, ExposureNext
  PROVE  (\A a \in Assets : desk[a].pc = "idle") \/ (scan.pc = "idle" /\ scan' = scan)
<1>0. \A a \in Assets : desk[a].pc # "idle" => scan.pc = "idle"
  BY DEF ExposureShape, DeskShape, DeskAsksFor
<1>1. SUFFICES ASSUME NEW b \in Assets, desk[b].pc # "idle" PROVE scan' = scan
  BY <1>0
<1>2. scan.pc = "idle"
  BY <1>0, <1>1
<1>3. ASSUME ScanMoves PROVE FALSE
  <2>1. ~\E r \in Records, e \in EquityLevels : BeginScan(r, e)
    BY <1>1 DEF BeginScan, NobodyAsks
  <2>2. ~EndScan
    BY <1>2 DEF EndScan
  <2>3. \A a \in Assets : ~PassBy(a) /\ ~AgentRefused(a)
    BY <1>2 DEF PassBy, AgentRefused
  <2>4. \A a, f, c, e : ~PyramidAdd(a, f, c, e)
    BY <1>2 DEF PyramidAdd
  <2>5. \A a, side, f, c, w : ~TakeUp(a, side, f, c, w)
    BY <1>2 DEF TakeUp
  <2> QED
    BY <1>3, <2>1, <2>2, <2>3, <2>4, <2>5 DEF ScanMoves
<1>4. \A a \in Assets, price \in FillPrices : ~AgentFills(a, price)
  BY <1>2 DEF AgentFills
<1>5. \A a \in Assets : DeskDecides(a) => scan' = scan
  BY DEF DeskDecides
<1>6. \A a \in Assets : Elsewhere(a) => scan' = scan
  BY <1>2 DEF Elsewhere, ScanSaw
<1> QED
  BY <1>3, <1>4, <1>5, <1>6, ExposureSteps

\* A step keeps what each symbol of the SMC agent asks for.
LEMMA DeskShapeKept ==
  ASSUME ExposureShape, BookShape', ExposureNext
  PROVE  DeskShape'
<1>0. DeskShape /\ BookShape
  BY DEF ExposureShape
<1>a. (\A a \in Assets : desk[a].pc = "idle") \/ (scan.pc = "idle" /\ scan' = scan)
  BY OneAtATime
<1>b. NotAsking \in DeskRecord /\ NotAsking.pc = "idle"
  BY DEF NotAsking, DeskRecord, Flat, BookRecord
<1>1. ASSUME desk' = desk PROVE DeskShape'
  BY <1>0, <1>1, <1>a DEF DeskShape, DeskAsksFor
<1>2. ASSUME NEW open \in [Assets -> DeskRecord], NEW c \in Assets, DeskSaw(c, open),
             \A a \in Assets : open[a].pc # "idle" =>
               /\ scan.pc = "idle" /\ scan' = scan /\ open[a].plan.side \in TradeSides
               /\ open[a].plan.risk <= (open[a].funds * BaseRisk) \div 100
               /\ open[a].pc = "asking" => \A b \in Assets : open[a].since[b] = 0
      PROVE  DeskShape'
  <2>1. book'[c].risk \in Nat
    BY DEF BookShape, BookRecord
  <2>2. desk' \in [Assets -> DeskRecord]
        /\ \A b \in Assets :
              /\ desk'[b].pc = open[b].pc /\ desk'[b].funds = open[b].funds
              /\ desk'[b].plan = open[b].plan
              /\ open[b].pc \notin Checked => desk'[b] = open[b]
    BY <1>2, <2>1, DeskSawIs
  <2>3. SUFFICES ASSUME NEW a \in Assets, desk'[a].pc # "idle"
        PROVE  /\ scan'.pc = "idle" /\ desk'[a].plan.side \in TradeSides
               /\ desk'[a].plan.risk <= (desk'[a].funds * BaseRisk) \div 100
               /\ desk'[a].pc = "asking" => \A b \in Assets : desk'[a].since[b] = 0
    BY <2>2 DEF DeskShape, DeskAsksFor
  <2>4. open[a].pc # "idle"
    BY <2>2, <2>3
  <2>5. desk'[a].pc = "asking" => desk'[a] = open[a]
    BY <2>2 DEF Checked
  <2> QED
    BY <1>2, <2>2, <2>4, <2>5
<1>3. \A a \in Assets : desk[a].pc # "idle" =>
        /\ scan.pc = "idle" /\ scan' = scan /\ desk[a].plan.side \in TradeSides
        /\ desk[a].plan.risk <= (desk[a].funds * BaseRisk) \div 100
        /\ desk[a].pc = "asking" => \A b \in Assets : desk[a].since[b] = 0
  BY <1>0, <1>a DEF DeskShape, DeskAsksFor
<1>4. ASSUME NEW a \in Assets, DeskSaw(a, desk) PROVE DeskShape'
  BY <1>0, <1>2, <1>3, <1>4 DEF DeskShape
<1>5. ASSUME NEW a \in Assets, DeskSaw(a, [desk EXCEPT ![a] = NotAsking]) PROVE DeskShape'
  <2> DEFINE open == [desk EXCEPT ![a] = NotAsking]
  <2>1. open \in [Assets -> DeskRecord] /\ open[a].pc = "idle"
        /\ \A b \in Assets \ {a} : open[b] = desk[b]
    <3> HIDE DEF NotAsking, DeskRecord
    <3> QED
      BY <1>0, <1>b DEF DeskShape
  <2>2. DeskSaw(a, open)
    BY <1>5
  <2>3. \A b \in Assets : open[b].pc # "idle" => b # a /\ open[b] = desk[b]
    BY <2>1
  <2> HIDE DEF open
  <2> QED
    BY <1>2, <1>3, <2>1, <2>2, <2>3
<1>6. ASSUME NEW a \in Assets, NEW x \in Nat, desk[a].pc = "approved",
             DeskSaw(a, [desk EXCEPT ![a].pc = "filled", ![a].atStop = x])
      PROVE  DeskShape'
  <2> DEFINE open == [desk EXCEPT ![a].pc = "filled", ![a].atStop = x]
  <2>1. desk \in [Assets -> DeskRecord]
    BY <1>0 DEF DeskShape
  <2>2. open \in [Assets -> DeskRecord] /\ open[a].pc = "filled" /\ open[a].plan = desk[a].plan
        /\ open[a].funds = desk[a].funds
        /\ \A b \in Assets \ {a} : open[b] = desk[b]
    BY <2>1 DEF DeskRecord
  <2>3. DeskSaw(a, open)
    BY <1>6
  <2> HIDE DEF open
  <2>4. \A b \in Assets : open[b].pc # "idle" =>
          /\ scan.pc = "idle" /\ scan' = scan /\ open[b].plan.side \in TradeSides
          /\ open[b].plan.risk <= (open[b].funds * BaseRisk) \div 100
          /\ open[b].pc = "asking" => \A c \in Assets : open[b].since[c] = 0
    <3>1. SUFFICES ASSUME NEW b \in Assets, open[b].pc # "idle"
          PROVE  /\ scan.pc = "idle" /\ scan' = scan /\ open[b].plan.side \in TradeSides
                 /\ open[b].plan.risk <= (open[b].funds * BaseRisk) \div 100
                 /\ open[b].pc = "asking" => \A c \in Assets : open[b].since[c] = 0
      OBVIOUS
    <3>2. CASE b = a
      BY <1>3, <1>6, <2>2, <3>2
    <3>3. CASE b # a
      BY <1>3, <2>2, <3>1, <3>3
    <3> QED
      BY <3>2, <3>3
  <2> QED
    BY <1>2, <2>2, <2>3, <2>4
<1>7. ASSUME NEW a \in Assets, DeskProtects(a) PROVE DeskShape'
  BY <1>5, <1>7 DEF DeskProtects
<1>8. ASSUME NEW a \in Assets, NEW price \in FillPrices, DeskFills(a, price) PROVE DeskShape'
  <2> DEFINE position == Netted(book[a], Filled(desk[a].plan, price))
  <2>1. position.risk \in Nat
    <3>1. desk[a].plan \in BookRecord /\ desk[a].plan.side \in TradeSides
      BY <1>0, <1>8 DEF DeskFills, DeskShape, DeskAsksFor, DeskRecord
    <3>2. book[a] \in BookRecord /\ (book[a].side = 0 => book[a].notional = 0)
      BY <1>0 DEF BookShape
    <3>3. Filled(desk[a].plan, price) \in BookRecord /\ Filled(desk[a].plan, price).side \in TradeSides
      BY <3>1, FilledIs
    <3>4. position \in BookRecord
      BY <3>2, <3>3, NettedIs
    <3> HIDE DEF position
    <3> QED
      BY <3>4 DEF BookRecord
  <2>2. /\ desk[a].pc = "approved"
        /\ \/ DeskSaw(a, [desk EXCEPT ![a].pc = "filled", ![a].atStop = position.risk])
           \/ DeskSaw(a, [desk EXCEPT ![a] = NotAsking])
    BY <1>8 DEF DeskFills
  <2> HIDE DEF position
  <2> QED
    BY <1>5, <1>6, <2>1, <2>2
<1>9. ASSUME NEW a \in Assets, Elsewhere(a) PROVE DeskShape'
  BY <1>4, <1>7, <1>8, <1>9 DEF Elsewhere
<1>10. ASSUME NEW a \in Assets, NEW d \in DeskRecord, desk' = [desk EXCEPT ![a] = d], scan' = scan,
              d.pc # "idle" =>
                /\ scan.pc = "idle" /\ d.plan.side \in TradeSides
                /\ d.plan.risk <= (d.funds * BaseRisk) \div 100
                /\ d.pc = "asking" => \A b \in Assets : d.since[b] = 0
       PROVE  DeskShape'
  <2>1. desk' \in [Assets -> DeskRecord] /\ desk'[a] = d /\ \A b \in Assets \ {a} : desk'[b] = desk[b]
    BY <1>0, <1>10 DEF DeskShape
  <2>2. \A b \in Assets : DeskAsksFor(b)'
    <3>1. SUFFICES ASSUME NEW b \in Assets PROVE DeskAsksFor(b)'
      OBVIOUS
    <3>2. CASE b = a
      BY <1>10, <2>1, <3>2 DEF DeskAsksFor
    <3>3. CASE b # a
      BY <1>0, <1>10, <2>1, <3>3 DEF DeskShape, DeskAsksFor
    <3> QED
      BY <3>2, <3>3
  <2> QED
    BY <2>1, <2>2 DEF DeskShape
<1>11. ASSUME NEW a \in Assets, NEW side \in TradeSides, NEW d \in StopDistances, NEW e \in EquityLevels,
              DeskAsks(a, side, d, e)
       PROVE  DeskShape'
  <2> DEFINE plan == DeskPlan(side, d, e)
             new == [NotAsking EXCEPT !.pc = "asking", !.funds = e, !.plan = plan]
  <2>1. plan \in BookRecord /\ plan.side = side /\ plan.risk <= (e * BaseRisk) \div 100 /\ e \in Nat
    BY DeskPlanIs, ExposureAssumption
  <2>2. desk' = [desk EXCEPT ![a] = new] /\ scan' = scan /\ scan.pc = "idle"
    BY <1>11 DEF DeskAsks
  <2> HIDE DEF plan
  <2>3. new \in DeskRecord /\ new.pc = "asking" /\ new.funds = e /\ new.plan = plan
        /\ \A b \in Assets : new.since[b] = 0
    BY <1>b, <2>1 DEF NotAsking, DeskRecord
  <2> HIDE DEF new
  <2> QED
    BY <1>10, <2>1, <2>2, <2>3
<1>12. ASSUME NEW a \in Assets, DeskApproves(a) PROVE DeskShape'
  <2> DEFINE new == [desk[a] EXCEPT !.pc = "approved"]
  <2>1. desk[a] \in DeskRecord /\ desk' = [desk EXCEPT ![a] = new] /\ scan' = scan /\ desk[a].pc = "asking"
    BY <1>0, <1>12 DEF DeskApproves, DeskShape
  <2>2. new \in DeskRecord /\ new.pc = "approved" /\ new.funds = desk[a].funds /\ new.plan = desk[a].plan
    BY <2>1 DEF DeskRecord
  <2> HIDE DEF new
  <2> QED
    BY <1>3, <1>10, <2>1, <2>2
<1>13. ASSUME NEW a \in Assets, DeskAbstains(a) PROVE DeskShape'
  <2> HIDE DEF NotAsking
  <2>1. desk' = [desk EXCEPT ![a] = NotAsking] /\ scan' = scan
    BY <1>13 DEF DeskAbstains
  <2> QED
    BY <1>10, <1>b, <2>1
<1>14. ASSUME NEW a \in Assets, DeskDecides(a) PROVE DeskShape'
  BY <1>11, <1>12, <1>13, <1>14 DEF DeskDecides
<1>15. ASSUME NEW a \in Assets, NEW price \in FillPrices, AgentFills(a, price) PROVE DeskShape'
  BY <1>1, <1>15 DEF AgentFills
<1>16. ASSUME ScanMoves PROVE DeskShape'
  BY <1>1, <1>16 DEF ScanMoves
<1> QED
  BY <1>9, <1>14, <1>15, <1>16, ExposureSteps

\* A step keeps the history true of the margins: what an asset holds beyond the
\* list the agent has read is in it.
LEMMA SinceKept ==
  ASSUME ExposureInv, BookShape', ScanShape', ExposureNext, NEW b \in Assets
  PROVE  SinceCounts(b)'
<1>0. ScanShape /\ BookShape /\ SinceCounts(b) /\ PlanStillFits
  BY DEF ExposureInv, ExposureShape
<1>1. ASSUME scan'.pc = "idle" \/ scan.pc # "idle", scan'.entered = scan.entered, scan'.since[b] = scan.since[b],
             scan'.seen = scan.seen, scan'.funds = scan.funds, MarginOf(b)' = MarginOf(b)
      PROVE  SinceCounts(b)'
  BY <1>0, <1>1 DEF SinceCounts
<1>2. ASSUME book'[b] = book[b] PROVE MarginOf(b)' = MarginOf(b)
  BY <1>2 DEF MarginOf
<1>3. ASSUME scan' = scan, MarginOf(b)' = MarginOf(b) PROVE SinceCounts(b)'
  BY <1>0, <1>3 DEF SinceCounts
<1>4. ASSUME scan'.pc = "idle" PROVE SinceCounts(b)'
  BY <1>4 DEF SinceCounts
<1>5. ASSUME ScanMoves PROVE SinceCounts(b)'
  <2>1. MarginOf(b)' = MarginOf(b)
    BY <1>2, <1>5 DEF ScanMoves
  <2>2. ASSUME NEW r \in Records, NEW e \in EquityLevels, BeginScan(r, e) PROVE SinceCounts(b)'
    <3>1. scan'.entered = {} /\ scan'.since[b] = 0 /\ scan'.seen = HeldAssets
      BY <2>2 DEF BeginScan, Resting
    <3>2. MarginOf(b) > 0 => b \in HeldAssets
      <4>1. SUFFICES ASSUME ~Held(b) PROVE MarginOf(b) = 0
        BY DEF HeldAssets
      <4>2. book[b].notional = 0 /\ book[b].leverage \in Nat \ {0}
        BY <1>0, <4>1 DEF BookShape, BookRecord, Held
      <4> QED
        BY <4>2 DEF MarginOf, Margin
    <3> QED
      BY <2>1, <3>1, <3>2 DEF SinceCounts
  <2>3. ASSUME EndScan PROVE SinceCounts(b)'
    BY <1>4, <2>3 DEF EndScan, Resting
  <2>4. ASSUME NEW a \in Assets, PassBy(a) \/ AgentRefused(a) PROVE SinceCounts(b)'
    BY <1>0, <1>1, <2>1, <2>4 DEF PassBy, AgentRefused, ScanShape
  <2>5. ASSUME NEW a \in Assets, NEW f \in Readings, NEW c \in Charts, NEW e \in EquityLevels,
               PyramidAdd(a, f, c, e)
        PROVE  SinceCounts(b)'
    <3>1. scan.pc = "scanning" /\ scan' = [scan EXCEPT !.todo = @ \ {a}]
      BY <2>5 DEF PyramidAdd
    <3> QED
      BY <1>0, <1>1, <2>1, <3>1 DEF ScanShape
  <2>6. ASSUME NEW a \in Assets, NEW f \in Readings, NEW c \in Charts, NEW side \in TradeSides,
               NEW w \in WinRates, TakeUp(a, side, f, c, w)
        PROVE  SinceCounts(b)'
    <3>1. scan.pc = "scanning" /\ \E p : scan' = [scan EXCEPT !.pc = "asking", !.of = {a}, !.plan = p]
      BY <2>6, Zenon DEF TakeUp
    <3> QED
      BY <1>0, <1>1, <2>1, <3>1 DEF ScanShape
  <2> QED
    BY <1>5, <2>2, <2>3, <2>4, <2>5, <2>6 DEF ScanMoves
<1>6. ASSUME NEW a \in Assets, DeskDecides(a) PROVE SinceCounts(b)'
  BY <1>2, <1>3, <1>6 DEF DeskDecides
<1>m. MarginOf(b)' \in Nat
  <2>1. book'[b] \in BookRecord
    BY DEF BookShape
  <2> QED
    BY <2>1, MarginIsNat DEF MarginOf
<1>7. ASSUME NEW a \in Assets, Elsewhere(a) PROVE SinceCounts(b)'
  <2>1. a # b => MarginOf(b)' = MarginOf(b)
    BY <1>2, <1>7 DEF Elsewhere
  <2>2. CASE scan'.pc = "idle"
    BY <1>4, <2>2
  <2>3. CASE scan'.pc # "idle" /\ scan' = scan
    <3>1. ASSUME a = b, Margin(book'[a]) = Margin(book[a]) PROVE MarginOf(b)' = MarginOf(b)
      BY <3>1 DEF MarginOf
    <3>2. ASSUME a = b, ScanSaw(a) PROVE SinceCounts(b)'
      <4>1. scan' = [scan EXCEPT !.entered = @ \ {a}, !.since[a] = Margin(book'[a])]
        BY <2>3, <3>2 DEF ScanSaw
      <4>2. b \notin scan'.entered /\ scan'.since[b] = MarginOf(b)'
        BY <1>0, <3>2, <4>1 DEF ScanShape, MarginOf
      <4> QED
        BY <1>m, <4>2 DEF SinceCounts
    <3> QED
      BY <1>3, <1>7, <2>1, <2>3, <3>1, <3>2 DEF Elsewhere
  <2>4. CASE scan'.pc # "idle" /\ scan' # scan
    <3>1. scan' = [scan EXCEPT !.entered = @ \ {a}, !.since[a] = Margin(book'[a])] /\ scan.pc # "idle"
      BY <1>7, <2>4 DEF Elsewhere, ScanSaw
    <3>2. CASE a = b
      <4>2. b \notin scan'.entered /\ scan'.since[b] = MarginOf(b)'
        BY <1>0, <3>1, <3>2 DEF ScanShape, MarginOf
      <4> QED
        BY <1>m, <4>2 DEF SinceCounts
    <3>3. CASE a # b
      <4>1. b \in scan'.entered <=> b \in scan.entered
        BY <1>0, <3>1, <3>3 DEF ScanShape
      <4>2. scan'.since[b] = scan.since[b] /\ scan'.seen = scan.seen /\ scan'.funds = scan.funds
        BY <1>0, <3>1, <3>3 DEF ScanShape
      <4> QED
        BY <1>0, <2>1, <3>1, <3>3, <4>1, <4>2 DEF SinceCounts
    <3> QED
      BY <3>2, <3>3
  <2> QED
    BY <2>2, <2>3, <2>4
<1>8. ASSUME NEW a \in Assets, NEW price \in FillPrices, AgentFills(a, price) PROVE SinceCounts(b)'
  <2> DEFINE position == Netted(book[a], Filled(scan.plan, price))
  <2>1. /\ scan.pc = "asking" /\ a \in scan.of
        /\ book' = [book EXCEPT ![a] = position]
        /\ scan' = [scan EXCEPT !.pc = "scanning", !.todo = @ \ {a}, !.of = {}, !.plan = Flat,
                      !.entered = @ \union {a},
                      !.since[a] = Excess(Margin(position), Margin(scan.plan))]
    BY <1>8 DEF AgentFills
  <2> HIDE DEF position
  <2> DEFINE more == Excess(Margin(position), Margin(scan.plan))
  <2>2. book'[a] = position /\ (a # b => book'[b] = book[b])
    BY <1>0, <2>1 DEF BookShape
  <2>3. /\ scan'.pc = "scanning" /\ scan'.entered = scan.entered \union {a} /\ scan'.since[a] = more
        /\ a # b => scan'.since[b] = scan.since[b]
        /\ scan'.seen = scan.seen /\ scan'.funds = scan.funds
    BY <1>0, <2>1 DEF ScanShape
  <2>4. CASE a # b
    <3>1. b \in scan'.entered <=> b \in scan.entered
      BY <2>3, <2>4
    <3> QED
      BY <1>0, <1>2, <2>1, <2>2, <2>3, <2>4, <3>1 DEF SinceCounts
  <2>5. CASE a = b
    <3> DEFINE side == scan.plan.side
               kept == SumFunctionOnSet(KeptMargins(a, side), Assets)
               planned == Margin(scan.plan)
               now == Margin(position)
    <3>1. side \in TradeSides /\ scan.plan \in BookRecord /\ scan.funds \in Nat
      BY <1>0, <2>1 DEF ScanShape
    <3>2. 100 * (planned + kept) <= CapPct * scan.funds
      BY <1>0, <2>1, <3>1 DEF PlanStillFits
    <3>3. \A x \in Assets : KeptMargins(a, side)[x] \in Nat
      BY <1>0, MarginsAreNat DEF KeptMargins
    <3>4. kept \in Int /\ kept >= 0
      <4>1. {} \subseteq Assets
        OBVIOUS
      <4>2. SumFunctionOnSet(KeptMargins(a, side), {}) = 0
        BY SumOfNone
      <4>3. 0 <= kept
        <5> HIDE DEF kept, side
        <5>1. SumFunctionOnSet(KeptMargins(a, side), {}) <= SumFunctionOnSet(KeptMargins(a, side), Assets)
          BY <3>3, <4>1, SumOfFewer, ExposureAssumption
        <5> QED
          BY <4>2, <5>1 DEF kept
      <4>4. kept \in Int
        BY <3>3, SumIsInt, ExposureAssumption
      <4> QED
        BY <4>3, <4>4
    <3>5. planned \in Nat
      BY <3>1, MarginIsNat
    <3>6. now \in Nat
      <4>1. position \in BookRecord
        BY <1>0, <2>2, <2>1 DEF BookShape
      <4> QED
        BY <4>1, MarginIsNat
    <3>7. more \in Nat /\ now <= planned + more
      BY <3>5, <3>6, ExcessIs
    <3>8. MarginOf(b)' = now
      BY <2>2, <2>5 DEF MarginOf
    <3>9. CapPct * scan.funds \in Nat
      BY <3>1, ProductIsNat, ExposureAssumption
    <3> DEFINE cap == CapPct * scan.funds
    <3> HIDE DEF kept, planned, now, more, cap
    <3>10. 100 * now <= cap + 100 * more
      BY <3>2, <3>4, <3>5, <3>6, <3>7, <3>9 DEF cap
    <3>11. b \in scan'.entered
      BY <2>3, <2>5
    <3> QED
      BY <2>3, <2>5, <3>8, <3>10, <3>11 DEF SinceCounts, cap, more
  <2> QED
    BY <2>4, <2>5
<1> QED
  BY <1>5, <1>6, <1>7, <1>8, ExposureSteps DEF ExposureInv

\* When the guard has let a plan through, what the list showed and has not changed
\* is within the cap with it.
LEMMA PlanFitsTheList ==
  ASSUME ExposureInv, NEW a \in Assets, NEW side \in TradeSides, NEW setting \in RegimeNames,
         NEW drawn \in Charts, NEW wins \in WinRates, scan.pc = "scanning",
         Worthwhile(setting, Distances(side, setting, drawn)),
         TradePlan(side, setting, drawn, wins, scan.funds, scan.multiplier).notional > 0,
         scan.funds > 0 => Fits(a, side, Margin(TradePlan(side, setting, drawn, wins, scan.funds,
                                                         scan.multiplier)), scan.seen, scan.funds)
  PROVE  LET plan == TradePlan(side, setting, drawn, wins, scan.funds, scan.multiplier)
         IN  /\ plan.side = side
             /\ 100 * (Margin(plan) + SumFunctionOnSet(KeptMargins(a, side), Assets)) <= CapPct * scan.funds
<1> DEFINE plan == TradePlan(side, setting, drawn, wins, scan.funds, scan.multiplier)
           among == Cluster(a, side, scan.seen)
           kept == KeptMargins(a, side)
<1>1. ScanShape /\ BookShape /\ \A b \in Assets : SinceCounts(b)
  BY DEF ExposureInv, ExposureShape
<1>2. scan.funds \in Nat /\ scan.multiplier \in Nat /\ scan.seen \subseteq Assets
  BY <1>1 DEF ScanShape
<1>3. plan \in BookRecord /\ plan.side = side /\ (scan.funds = 0 => plan.notional = 0)
  BY <1>2, TradePlanIs
<1>4. plan.notional > 0 /\ (scan.funds > 0 => Fits(a, side, Margin(plan), scan.seen, scan.funds))
  OBVIOUS
<1> HIDE DEF plan
<1>5. Fits(a, side, Margin(plan), scan.seen, scan.funds)
  BY <1>2, <1>3, <1>4
<1>6. among \subseteq Assets
  BY <1>2 DEF Cluster
<1>7. 100 * (Margin(plan) + SumFunctionOnSet(Margins, among)) <= CapPct * scan.funds
  <2>1. MapThenSumSet(MarginOf, among) = SumFunctionOnSet(Margins, among)
    BY <1>1, <1>6, MarginSum
  <2> QED
    BY <1>5, <2>1 DEF Fits
<1>8. \A b \in Assets : kept[b] \in Nat /\ Margins[b] = MarginOf(b) /\ Margins[b] \in Nat
  BY <1>1, MarginsAreNat DEF KeptMargins, Margins
<1>9. \A b \in among : kept[b] <= Margins[b]
  <2>1. SUFFICES ASSUME NEW b \in among PROVE kept[b] <= Margins[b]
    OBVIOUS
  <2>2. b \in Assets /\ (kept[b] = MarginOf(b) \/ kept[b] = 0)
    BY <1>6 DEF KeptMargins
  <2> HIDE DEF kept
  <2> QED
    BY <1>8, <2>2
<1>10. \A b \in Assets \ among : kept[b] <= 0
  <2>1. SUFFICES ASSUME NEW b \in Assets \ among, kept[b] # 0 PROVE FALSE
    BY <1>8
  <2>2. b # a /\ Compounding(a, side, b) /\ scan.since[b] = 0 /\ b \notin scan.entered /\ MarginOf(b) # 0
    BY <2>1 DEF KeptMargins
  <2>3. MarginOf(b) > 0
    BY <1>8, <2>2
  <2>4. b \in scan.seen
    BY <1>1, <2>2, <2>3 DEF SinceCounts
  <2> QED
    BY <2>1, <2>2, <2>4 DEF Cluster
<1> HIDE DEF kept, among
<1>11. SumFunctionOnSet(kept, Assets) <= SumFunctionOnSet(Margins, among)
  <2>1. \A b \in Assets : kept[b] \in Int
    BY <1>8
  <2>2. \A b \in among : Margins[b] \in Int /\ kept[b] <= Margins[b]
    BY <1>6, <1>8, <1>9
  <2> QED
    BY <1>6, <1>10, <2>1, <2>2, SumOfCovered, ExposureAssumption
<1>12. SumFunctionOnSet(kept, Assets) \in Int /\ SumFunctionOnSet(Margins, among) \in Int
  <2>1. IsFiniteSet(among)
    BY <1>6, FS_Subset, ExposureAssumption
  <2>2. (\A b \in Assets : kept[b] \in Int) /\ \A b \in among : Margins[b] \in Int
    BY <1>6, <1>8
  <2> QED
    BY <2>1, <2>2, SumIsInt, ExposureAssumption
<1>13. Margin(plan) \in Nat /\ CapPct * scan.funds \in Nat
  BY <1>2, <1>3, MarginIsNat, ProductIsNat, ExposureAssumption
<1> DEFINE m == Margin(plan)
           k == SumFunctionOnSet(kept, Assets)
           s == SumFunctionOnSet(Margins, among)
           cap == CapPct * scan.funds
<1>14. 100 * (m + k) <= cap
  <2> HIDE DEF m, k, s, cap
  <2>1. m \in Nat /\ k \in Int /\ s \in Int /\ cap \in Nat /\ k <= s /\ 100 * (m + s) <= cap
    BY <1>7, <1>11, <1>12, <1>13 DEF m, k, s, cap
  <2> QED
    BY <2>1
<1> QED
  BY <1>3, <1>14 DEF plan, kept

\* A step keeps an approved plan within the cap, with what has not changed.
LEMMA PlanKept ==
  ASSUME ExposureInv, BookShape', ScanShape', ExposureNext
  PROVE  PlanStillFits'
<1>0. ScanShape /\ BookShape /\ PlanStillFits
  BY DEF ExposureInv, ExposureShape
<1>1. ASSUME scan'.pc # "asking" PROVE PlanStillFits'
  BY <1>1 DEF PlanStillFits
<1>2. ASSUME NEW a \in Assets, Elsewhere(a) PROVE PlanStillFits'
  <2>1. SUFFICES ASSUME NEW c \in Assets, NEW side \in TradeSides, scan'.pc = "asking", c \in scan'.of,
                        scan'.plan.side = side
        PROVE  100 * (Margin(scan'.plan) + SumFunctionOnSet(KeptMargins(c, side)', Assets))
                 <= CapPct * scan'.funds
    BY DEF PlanStillFits
  <2>2. /\ scan'.pc = scan.pc /\ scan'.of = scan.of /\ scan'.plan = scan.plan /\ scan'.funds = scan.funds
        /\ \A b \in Assets \ {a} : scan'.since[b] = scan.since[b] /\ (b \in scan'.entered <=> b \in scan.entered)
        /\ \/ /\ scan' = scan /\ book'[a].side = book[a].side
              /\ Margin(book'[a]) = Margin(book[a])
           \/ scan'.since[a] = Margin(book'[a])
    <3>1. CASE scan' = scan
      <4>1. ScanSaw(a) \/ (book'[a].side = book[a].side /\ Margin(book'[a]) = Margin(book[a]))
        BY <1>2, <2>1, <3>1 DEF Elsewhere
      <4>2. CASE ScanSaw(a)
        <5>1. scan' = [scan EXCEPT !.entered = @ \ {a}, !.since[a] = Margin(book'[a])]
          BY <2>1, <3>1, <4>2 DEF ScanSaw
        <5>2. scan'.since[a] = Margin(book'[a])
          BY <1>0, <5>1 DEF ScanShape
        <5> QED
          BY <3>1, <5>2
      <4> QED
        BY <3>1, <4>1, <4>2
    <3>2. CASE scan' # scan
      <4>1. scan' = [scan EXCEPT !.entered = @ \ {a}, !.since[a] = Margin(book'[a])]
        BY <1>2, <3>2 DEF Elsewhere, ScanSaw
      <4> QED
        BY <1>0, <4>1 DEF ScanShape
    <3> QED
      BY <3>1, <3>2
  <2> DEFINE before == KeptMargins(c, side)
             after == KeptMargins(c, side)'
  <2>3. \A b \in Assets : /\ before[b] \in Nat /\ after[b] \in Nat
    <3>1. \A b \in Assets : MarginOf(b) \in Nat
      BY <1>0, MarginsAreNat
    <3>2. \A b \in Assets : MarginOf(b)' \in Nat
      <4>1. \A b \in Assets : book'[b] \in BookRecord
        BY DEF BookShape
      <4> QED
        BY <4>1, MarginIsNat DEF MarginOf
    <3> QED
      BY <3>1, <3>2 DEF KeptMargins
  <2>4. \A b \in Assets : after[b] <= before[b]
    <3>1. SUFFICES ASSUME NEW b \in Assets PROVE after[b] = before[b] \/ after[b] = 0
      BY <2>3
    <3>2. rho' = rho
      BY <1>2 DEF Elsewhere
    <3>3. ASSUME book'[b].side = book[b].side, Margin(book'[b]) = Margin(book[b]),
                 scan'.since[b] = scan.since[b], b \in scan'.entered <=> b \in scan.entered
          PROVE  after[b] = before[b]
      BY <3>2, <3>3 DEF KeptMargins, Compounding, MarginOf
    <3>4. CASE b # a
      <4>1. book'[b] = book[b]
        BY <1>2, <3>4 DEF Elsewhere
      <4> QED
        BY <2>2, <3>3, <3>4, <4>1
    <3>5. CASE b = a /\ scan'.since[a] = Margin(book'[a])
      BY <3>5 DEF KeptMargins, MarginOf
    <3>6. CASE b = a /\ scan'.since[a] # Margin(book'[a])
      BY <2>2, <3>3, <3>6
    <3> QED
      BY <3>4, <3>5, <3>6
  <2> HIDE DEF before, after
  <2>5. SumFunctionOnSet(after, Assets) <= SumFunctionOnSet(before, Assets)
    <3>1. Assets \subseteq Assets /\ Assets \ Assets = {}
      OBVIOUS
    <3>2. (\A b \in Assets : after[b] \in Int) /\ \A b \in Assets : before[b] \in Int /\ after[b] <= before[b]
      BY <2>3, <2>4
    <3> QED
      BY <3>1, <3>2, SumOfCovered, ExposureAssumption
  <2>6. SumFunctionOnSet(after, Assets) \in Int /\ SumFunctionOnSet(before, Assets) \in Int
    <3>1. (\A b \in Assets : after[b] \in Int) /\ \A b \in Assets : before[b] \in Int
      BY <2>3
    <3> QED
      BY <3>1, SumIsInt, ExposureAssumption
  <2>7. 100 * (Margin(scan.plan) + SumFunctionOnSet(before, Assets)) <= CapPct * scan.funds
    BY <1>0, <2>1, <2>2 DEF PlanStillFits, before
  <2>8. Margin(scan.plan) \in Nat /\ CapPct * scan.funds \in Nat
    <3>1. scan.plan \in BookRecord /\ scan.funds \in Nat
      BY <1>0 DEF ScanShape
    <3> QED
      BY <3>1, MarginIsNat, ProductIsNat, ExposureAssumption
  <2> DEFINE m == Margin(scan.plan)
             k == SumFunctionOnSet(after, Assets)
             s == SumFunctionOnSet(before, Assets)
             cap == CapPct * scan.funds
  <2>9. 100 * (m + k) <= cap
    <3> HIDE DEF m, k, s, cap
    <3>1. m \in Nat /\ k \in Int /\ s \in Int /\ cap \in Nat /\ k <= s /\ 100 * (m + s) <= cap
      BY <2>5, <2>6, <2>7, <2>8 DEF m, k, s, cap
    <3> QED
      BY <3>1
  <2> QED
    BY <2>2, <2>9 DEF after
<1>3. ASSUME UNCHANGED <<book, rho, scan>> PROVE PlanStillFits'
  BY <1>0, <1>3 DEF PlanStillFits, KeptMargins, Compounding, MarginOf
<1>4. ASSUME NEW a \in Assets, DeskDecides(a) PROVE PlanStillFits'
  BY <1>3, <1>4 DEF DeskDecides
<1>5. ASSUME NEW a \in Assets, NEW price \in FillPrices, AgentFills(a, price) PROVE PlanStillFits'
  <2>1. scan'.pc = "scanning"
    BY <1>0, <1>5 DEF AgentFills, ScanShape
  <2> QED
    BY <1>1, <2>1
<1>6. ASSUME ScanMoves PROVE PlanStillFits'
  <2>1. ASSUME NEW r \in Records, NEW e \in EquityLevels, BeginScan(r, e) PROVE PlanStillFits'
    <3>1. scan'.pc = "scanning"
      BY <2>1 DEF BeginScan, Resting
    <3> QED
      BY <1>1, <3>1
  <2>2. ASSUME EndScan PROVE PlanStillFits'
    <3>1. scan'.pc = "idle"
      BY <2>2 DEF EndScan, Resting
    <3> QED
      BY <1>1, <3>1
  <2>3. ASSUME NEW a \in Assets, PassBy(a) \/ AgentRefused(a) PROVE PlanStillFits'
    <3>1. scan'.pc = "scanning"
      BY <1>0, <2>3 DEF PassBy, AgentRefused, ScanShape
    <3> QED
      BY <1>1, <3>1
  <2>4. ASSUME NEW a \in Assets, NEW f \in Readings, NEW c \in Charts, NEW e \in EquityLevels,
               PyramidAdd(a, f, c, e)
        PROVE  PlanStillFits'
    <3>1. scan.pc = "scanning" /\ scan' = [scan EXCEPT !.todo = @ \ {a}]
      BY <2>4 DEF PyramidAdd
    <3>2. scan'.pc = "scanning"
      BY <1>0, <3>1 DEF ScanShape
    <3> QED
      BY <1>1, <3>2
  <2>5. ASSUME NEW a \in Assets, NEW f \in Readings, NEW c \in Charts, NEW side \in TradeSides,
               NEW w \in WinRates, TakeUp(a, side, f, c, w)
        PROVE  PlanStillFits'
    <3> DEFINE setting == Classify(f)
               plan == TradePlan(side, setting, c, w, scan.funds, scan.multiplier)
    <3>1. setting \in RegimeNames
      BY ClassifyIs
    <3>2. /\ scan.pc = "scanning" /\ Worthwhile(setting, Distances(side, setting, c)) /\ plan.notional > 0
          /\ scan.funds > 0 => Fits(a, side, Margin(plan), scan.seen, scan.funds)
          /\ scan' = [scan EXCEPT !.pc = "asking", !.of = {a}, !.plan = plan]
          /\ UNCHANGED <<book, rho>>
      BY <2>5, Zenon DEF TakeUp
    <3> HIDE DEF setting
    <3>3. plan.side = side
          /\ 100 * (Margin(plan) + SumFunctionOnSet(KeptMargins(a, side), Assets)) <= CapPct * scan.funds
      BY <3>1, <3>2, PlanFitsTheList
    <3> HIDE DEF plan
    <3>4. /\ scan'.of = {a} /\ scan'.plan = plan /\ scan'.funds = scan.funds
          /\ scan'.since = scan.since /\ scan'.entered = scan.entered
      BY <1>0, <3>2 DEF ScanShape
    <3>5. KeptMargins(a, side)' = KeptMargins(a, side)
      BY <3>2, <3>4 DEF KeptMargins, Compounding, MarginOf
    <3> QED
      BY <3>3, <3>4, <3>5 DEF PlanStillFits
  <2> QED
    BY <1>6, <2>1, <2>2, <2>3, <2>4, <2>5 DEF ScanMoves
<1> QED
  BY <1>2, <1>4, <1>5, <1>6, ExposureSteps DEF ExposureInv

\* What a check counted stays within the limit while the book changes: what has
\* changed is no longer counted.
LEMMA RisksKept ==
  ASSUME ExposureInv, BookShape', DeskShape', ExposureNext, NEW a \in Assets
  PROVE  RisksFit(a)'
<1>0. DeskShape /\ BookShape /\ \A b \in Assets : RisksFit(b)
  BY DEF ExposureInv, ExposureShape
<1>1. ASSUME desk'[a].pc \notin Checked PROVE RisksFit(a)'
  BY <1>1 DEF RisksFit
<1>2. ASSUME UNCHANGED book, desk'[a] = desk[a] PROVE RisksFit(a)'
  BY <1>0, <1>2 DEF RisksFit, KeptRisks, RiskAtStop
<1>3. \A b \in Assets : RiskAtStop(b) \in Nat /\ RiskAtStop(b)' \in Nat
  <2>1. \A b \in Assets : RiskAtStop(b) \in Nat
    BY <1>0, MarginsAreNat
  <2>2. \A b \in Assets : RiskAtStop(b)' \in Nat
    BY DEF BookShape, BookRecord, RiskAtStop
  <2> QED
    BY <2>1, <2>2
<1>4. desk[a] \in DeskRecord /\ desk'[a] \in DeskRecord
  BY <1>0 DEF DeskShape
<1>5. ASSUME NEW c \in Assets, NEW open \in [Assets -> DeskRecord], DeskSaw(c, open),
             \A b \in Assets \ {c} : book'[b] = book[b],
             open[a].pc \in Checked =>
               desk[a].pc \in Checked /\ open[a].since = desk[a].since /\ open[a].funds = desk[a].funds
      PROVE  RisksFit(a)'
  <2>1. SUFFICES ASSUME desk'[a].pc \in Checked PROVE RisksFit(a)'
    BY <1>1
  <2>2. book'[c].risk \in Nat
    BY <1>3 DEF RiskAtStop
  <2>3. /\ desk[a].pc \in Checked /\ desk'[a].funds = desk[a].funds
        /\ desk'[a].since[c] = RiskAtStop(c)'
        /\ \A b \in Assets \ {c} : desk'[a].since[b] = desk[a].since[b]
    BY <1>5, <2>1, <2>2, DeskSawIs DEF RiskAtStop
  <2>4. \A b \in Assets \ {c} : RiskAtStop(b)' = RiskAtStop(b)
    BY <1>5 DEF RiskAtStop
  <2> DEFINE before == KeptRisks(a)
             after == KeptRisks(a)'
  <2>5. \A b \in Assets : after[b] = before[b] \/ after[b] = 0
    BY <2>3, <2>4 DEF KeptRisks
  <2>6. \A b \in Assets : before[b] \in Nat /\ after[b] \in Nat
    BY <1>3 DEF KeptRisks
  <2>7. \A b \in Assets : desk'[a].since[b] > 0 => RiskAtStop(b)' <= desk'[a].since[b]
    <3>1. SUFFICES ASSUME NEW b \in Assets, desk'[a].since[b] > 0 PROVE RiskAtStop(b)' <= desk'[a].since[b]
      OBVIOUS
    <3>2. CASE b = c
      BY <1>3, <2>3, <3>2
    <3>3. CASE b # c
      BY <1>0, <2>3, <2>4, <3>1, <3>3 DEF RisksFit
    <3> QED
      BY <3>2, <3>3
  <2> HIDE DEF before, after
  <2>8. SumFunctionOnSet(after, Assets) <= SumFunctionOnSet(before, Assets)
        /\ SumFunctionOnSet(after, Assets) \in Int /\ SumFunctionOnSet(before, Assets) \in Int
    <3>1. Assets \subseteq Assets /\ Assets \ Assets = {}
      OBVIOUS
    <3>2. (\A b \in Assets : after[b] \in Int) /\ \A b \in Assets : before[b] \in Int /\ after[b] <= before[b]
      BY <2>5, <2>6
    <3> QED
      BY <3>1, <3>2, SumOfCovered, SumIsInt, ExposureAssumption
  <2>9. SumFunctionOnSet(before, Assets) + (desk[a].funds * BaseRisk) \div 100
          <= (desk[a].funds * MaxAccountRisk) \div 100
    BY <1>0, <2>3 DEF RisksFit, before
  <2> DEFINE k == SumFunctionOnSet(after, Assets)
             s == SumFunctionOnSet(before, Assets)
             share == (desk[a].funds * BaseRisk) \div 100
             most == (desk[a].funds * MaxAccountRisk) \div 100
  <2>10. share \in Int /\ most \in Int
    <3>1. desk[a].funds \in Nat
      BY <1>4 DEF DeskRecord
    <3> QED
      BY <3>1 DEF BaseRisk, MaxAccountRisk
  <2>11. k + share <= most
    <3> HIDE DEF k, s, share, most
    <3>1. k \in Int /\ s \in Int /\ k <= s /\ s + share <= most
      BY <2>8, <2>9 DEF k, s, share, most
    <3> QED
      BY <2>10, <3>1
  <2> QED
    BY <2>3, <2>7, <2>11 DEF RisksFit, after
<1>6. \A c \in Assets : Elsewhere(c) => \A b \in Assets \ {c} : book'[b] = book[b]
  BY DEF Elsewhere
<1>7. desk \in [Assets -> DeskRecord]
  BY <1>0 DEF DeskShape
<1>8. ASSUME NEW c \in Assets, \A b \in Assets \ {c} : book'[b] = book[b],
             DeskSaw(c, [desk EXCEPT ![c] = NotAsking])
      PROVE  RisksFit(a)'
  <2> DEFINE open == [desk EXCEPT ![c] = NotAsking]
  <2>1. NotAsking \in DeskRecord /\ NotAsking.pc \notin Checked
    BY DEF NotAsking, DeskRecord, Flat, BookRecord, Checked
  <2>2. open \in [Assets -> DeskRecord]
        /\ (open[a].pc \in Checked => open[a] = desk[a])
    <3> HIDE DEF NotAsking, DeskRecord
    <3> QED
      BY <1>7, <2>1
  <2>3. DeskSaw(c, open)
    BY <1>8
  <2> HIDE DEF open
  <2> QED
    BY <1>5, <1>8, <2>2, <2>3
<1>9. ASSUME NEW c \in Assets, \A b \in Assets \ {c} : book'[b] = book[b], NEW x \in Nat,
             desk[c].pc = "approved", DeskSaw(c, [desk EXCEPT ![c].pc = "filled", ![c].atStop = x])
      PROVE  RisksFit(a)'
  <2> DEFINE open == [desk EXCEPT ![c].pc = "filled", ![c].atStop = x]
  <2>1. /\ open \in [Assets -> DeskRecord]
        /\ open[a].pc \in Checked =>
             desk[a].pc \in Checked /\ open[a].since = desk[a].since /\ open[a].funds = desk[a].funds
    BY <1>7, <1>9 DEF DeskRecord, Checked
  <2>2. DeskSaw(c, open)
    BY <1>9
  <2> HIDE DEF open
  <2> QED
    BY <1>5, <1>9, <2>1, <2>2
<1>10. ASSUME NEW c \in Assets, Elsewhere(c) PROVE RisksFit(a)'
  <2>1. ASSUME DeskSaw(c, desk) PROVE RisksFit(a)'
    BY <1>5, <1>6, <1>7, <1>10, <2>1
  <2>2. ASSUME DeskProtects(c) PROVE RisksFit(a)'
    BY <1>6, <1>8, <1>10, <2>2 DEF DeskProtects
  <2>3. ASSUME NEW price \in FillPrices, DeskFills(c, price) PROVE RisksFit(a)'
    <3> DEFINE position == Netted(book[c], Filled(desk[c].plan, price))
    <3>1. position.risk \in Nat
      <4>1. desk[c].plan \in BookRecord /\ desk[c].plan.side \in TradeSides
        BY <1>0, <2>3 DEF DeskFills, DeskShape, DeskAsksFor, DeskRecord
      <4>2. book[c] \in BookRecord /\ (book[c].side = 0 => book[c].notional = 0)
        BY <1>0 DEF BookShape
      <4>3. Filled(desk[c].plan, price) \in BookRecord /\ Filled(desk[c].plan, price).side \in TradeSides
        BY <4>1, FilledIs
      <4>4. position \in BookRecord
        BY <4>2, <4>3, NettedIs
      <4> HIDE DEF position
      <4> QED
        BY <4>4 DEF BookRecord
    <3>2. /\ desk[c].pc = "approved"
          /\ \/ DeskSaw(c, [desk EXCEPT ![c].pc = "filled", ![c].atStop = position.risk])
             \/ DeskSaw(c, [desk EXCEPT ![c] = NotAsking])
      BY <2>3 DEF DeskFills
    <3> HIDE DEF position
    <3> QED
      BY <1>6, <1>8, <1>9, <1>10, <3>1, <3>2
  <2> QED
    BY <1>10, <2>1, <2>2, <2>3 DEF Elsewhere
<1>11. ASSUME NEW c \in Assets, DeskApproves(c) PROVE RisksFit(a)'
  <2>1. book' = book /\ desk' = [desk EXCEPT ![c].pc = "approved"]
    BY <1>11 DEF DeskApproves
  <2>2. CASE c # a
    <3>1. desk'[a] = desk[a]
      BY <1>7, <2>1, <2>2
    <3> QED
      BY <1>2, <2>1, <3>1
  <2>3. CASE c = a
    <3>1. desk'[a].since = desk[a].since /\ desk'[a].funds = desk[a].funds
      BY <1>7, <2>1, <2>3 DEF DeskRecord
    <3>2. \A b \in Assets : desk[a].since[b] = 0
      BY <1>0, <1>11, <2>3 DEF DeskApproves, DeskShape, DeskAsksFor
    <3> DEFINE f == KeptRisks(a)'
    <3>3. \A b \in Assets : f[b] = RiskAtStop(b)
      BY <2>1, <3>1, <3>2 DEF KeptRisks, RiskAtStop
    <3>4. \A b \in Assets \ HeldAssets : f[b] <= 0
      BY <1>0, <3>3 DEF BookShape, HeldAssets, Held, RiskAtStop
    <3>5. HeldAssets \subseteq Assets
      BY DEF HeldAssets
    <3>6. \A b \in HeldAssets : Risks[b] \in Int /\ f[b] <= Risks[b]
      BY <1>3, <3>3, <3>5 DEF Risks
    <3>7. \A b \in Assets : f[b] \in Int
      BY <1>3, <3>3
    <3> HIDE DEF f
    <3>8. SumFunctionOnSet(f, Assets) <= SumFunctionOnSet(Risks, HeldAssets)
      BY <3>4, <3>5, <3>6, <3>7, SumOfCovered, ExposureAssumption
    <3>9. SumFunctionOnSet(f, Assets) \in Int /\ SumFunctionOnSet(Risks, HeldAssets) \in Int
      <4>1. IsFiniteSet(HeldAssets)
        BY <3>5, FS_Subset, ExposureAssumption
      <4> QED
        BY <3>6, <3>7, <4>1, SumIsInt, ExposureAssumption
    <3>10. MapThenSumSet(RiskAtStop, HeldAssets) = SumFunctionOnSet(Risks, HeldAssets)
      BY <1>0, <3>5, RiskSum
    <3> DEFINE k == SumFunctionOnSet(f, Assets)
               s == SumFunctionOnSet(Risks, HeldAssets)
               share == (desk[a].funds * BaseRisk) \div 100
               most == (desk[a].funds * MaxAccountRisk) \div 100
    <3>11. share \in Int /\ most \in Int
      <4>1. desk[a].funds \in Nat
        BY <1>4 DEF DeskRecord
      <4> QED
        BY <4>1 DEF BaseRisk, MaxAccountRisk
    <3>12. s + share <= most
      BY <1>11, <2>3, <3>10 DEF DeskApproves
    <3>13. k + share <= most
      <4> HIDE DEF k, s, share, most
      <4>1. k \in Int /\ s \in Int /\ k <= s
        BY <3>8, <3>9 DEF k, s
      <4> QED
        BY <3>11, <3>12, <4>1
    <3>14. \A b \in Assets : ~(desk'[a].since[b] > 0)
      BY <3>1, <3>2
    <3> QED
      BY <3>1, <3>13, <3>14 DEF RisksFit, f
  <2> QED
    BY <2>2, <2>3
<1>12. ASSUME NEW c \in Assets, NEW d, desk' = [desk EXCEPT ![c] = d], d.pc \notin Checked, UNCHANGED book
       PROVE  RisksFit(a)'
  <2>1. desk'[a] = desk[a] \/ desk'[a] = d
    BY <1>7, <1>12
  <2> QED
    BY <1>1, <1>2, <1>12, <2>1
<1>13. ASSUME NEW c \in Assets, NEW side \in TradeSides, NEW d \in StopDistances, NEW e \in EquityLevels,
              DeskAsks(c, side, d, e)
       PROVE  RisksFit(a)'
  <2> DEFINE new == [NotAsking EXCEPT !.pc = "asking", !.funds = e, !.plan = DeskPlan(side, d, e)]
  <2>1. new.pc \notin Checked
    BY DEF NotAsking, Checked
  <2>2. desk' = [desk EXCEPT ![c] = new] /\ UNCHANGED book
    BY <1>13 DEF DeskAsks
  <2> HIDE DEF new
  <2> QED
    BY <1>12, <2>1, <2>2
<1>14. ASSUME NEW c \in Assets, DeskAbstains(c) PROVE RisksFit(a)'
  <2>1. NotAsking.pc \notin Checked
    BY DEF NotAsking, Checked
  <2>2. desk' = [desk EXCEPT ![c] = NotAsking] /\ UNCHANGED book
    BY <1>14 DEF DeskAbstains
  <2> HIDE DEF NotAsking
  <2> QED
    BY <1>12, <2>1, <2>2
<1>15. ASSUME NEW c \in Assets, DeskDecides(c) PROVE RisksFit(a)'
  BY <1>11, <1>13, <1>14, <1>15 DEF DeskDecides
<1>16. ASSUME ScanMoves PROVE RisksFit(a)'
  BY <1>2, <1>16 DEF ScanMoves
<1>17. ASSUME NEW c \in Assets, NEW price \in FillPrices, AgentFills(c, price) PROVE RisksFit(a)'
  <2>1. desk[a].pc = "idle" /\ desk' = desk
    BY <1>0, <1>17 DEF AgentFills, DeskShape, DeskAsksFor
  <2> QED
    BY <1>1, <2>1 DEF Checked
<1> QED
  BY <1>10, <1>15, <1>16, <1>17, ExposureSteps DEF ExposureInv

\* A step keeps the invariant.
LEMMA ExposureStep ==
  ExposureInv /\ [ExposureNext]_exposureVars => ExposureInv'
<1> SUFFICES ASSUME ExposureInv, [ExposureNext]_exposureVars PROVE ExposureInv'
  OBVIOUS
<1>1. CASE UNCHANGED exposureVars
  <2>1. book' = book /\ rho' = rho /\ scan' = scan /\ desk' = desk
    BY <1>1 DEF exposureVars
  <2>2. ExposureShape'
    BY <2>1 DEF ExposureInv, ExposureShape, BookShape, ScanShape, DeskShape, DeskAsksFor
  <2>3. \A b \in Assets : SinceCounts(b)'
    BY <2>1 DEF ExposureInv, SinceCounts, MarginOf
  <2>4. PlanStillFits'
    BY <2>1 DEF ExposureInv, PlanStillFits, KeptMargins, Compounding, MarginOf
  <2>5. \A b \in Assets : RisksFit(b)'
    BY <2>1 DEF ExposureInv, RisksFit, KeptRisks, RiskAtStop
  <2> QED
    BY <2>2, <2>3, <2>4, <2>5 DEF ExposureInv
<1>2. CASE ExposureNext
  <2>1. ExposureShape
    BY DEF ExposureInv
  <2>2. BookShape'
    BY <1>2, <2>1, BookShapeKept
  <2>3. ScanShape' /\ DeskShape'
    BY <1>2, <2>1, <2>2, ScanShapeKept, DeskShapeKept
  <2>4. rho' \in Correlations
    <3>1. rho' = rho
      BY <1>2, <2>1, ExposureSteps DEF ScanMoves, DeskDecides, Elsewhere, AgentFills
    <3> QED
      BY <2>1, <3>1 DEF ExposureShape
  <2>5. PlanStillFits' /\ (\A b \in Assets : SinceCounts(b)') /\ \A b \in Assets : RisksFit(b)'
    BY <1>2, <2>2, <2>3, PlanKept, SinceKept, RisksKept
  <2> QED
    BY <2>2, <2>3, <2>4, <2>5 DEF ExposureInv, ExposureShape
<1> QED
  BY <1>1, <1>2

\* What the cycle's history leaves room for, asset by asset.
LEMMA AllowanceIs ==
  ASSUME ExposureInv, scan.pc = "asking", NEW a \in Assets, NEW side \in TradeSides,
         NEW b \in Cluster(a, side, Assets)
  PROVE  /\ b \in Assets /\ Allowance[b] \in Nat /\ Margins[b] \in Nat /\ KeptMargins(a, side)[b] \in Nat
         /\ 100 * Margins[b] <= 100 * KeptMargins(a, side)[b] + Allowance[b]
<1>1. ScanShape /\ BookShape /\ SinceCounts(b) /\ b \in Assets
  BY DEF ExposureInv, ExposureShape, Cluster
<1>2. b # a /\ Compounding(a, side, b)
  BY DEF Cluster
<1>3. scan.funds \in Nat /\ scan.since[b] \in Nat
  BY <1>1 DEF ScanShape
<1> DEFINE cap == CapPct * scan.funds
           since == scan.since[b]
           margin == MarginOf(b)
           kept == KeptMargins(a, side)[b]
<1>4. cap \in Nat
  BY <1>3, ProductIsNat, ExposureAssumption
<1>5. margin \in Nat /\ Margins[b] = margin
  BY <1>1, MarginsAreNat DEF Margins
<1>6. kept = IF since = 0 /\ b \notin scan.entered THEN margin ELSE 0
  BY <1>1, <1>2 DEF KeptMargins
<1>7. Allowance[b] = (IF b \in scan.entered THEN cap ELSE 0) + 100 * since
  BY <1>1 DEF Allowance
<1>8. /\ b \in scan.entered => 100 * margin <= cap + 100 * since
      /\ b \notin scan.entered /\ since > 0 => margin <= since
  BY <1>1 DEF SinceCounts
<1>9. since \in Nat
  BY <1>3
<1> HIDE DEF cap, since, margin, kept
<1>10. CASE b \in scan.entered
  <2>1. kept = 0 /\ Allowance[b] = cap + 100 * since
    BY <1>6, <1>7, <1>10
  <2> QED
    BY <1>1, <1>4, <1>5, <1>8, <1>9, <1>10, <2>1 DEF kept
<1>11. CASE b \notin scan.entered
  <2>1. Allowance[b] = 100 * since /\ (since = 0 => kept = margin) /\ (since # 0 => kept = 0)
    BY <1>6, <1>7, <1>9, <1>11
  <2> QED
    BY <1>1, <1>5, <1>8, <1>9, <1>11, <2>1 DEF kept
<1> QED
  BY <1>10, <1>11

\* The agent's fill is within the cap and what its guard could not count.
LEMMA FilledFits ==
  ASSUME ExposureInv, BookShape', NEW a \in Assets, NEW price \in FillPrices, AgentFills(a, price),
         book'[a].side = scan.plan.side
  PROVE  ClusterFits(a)
<1> DEFINE side == scan.plan.side
           among == Cluster(a, side, Assets)
           kept == KeptMargins(a, side)
<1>1. ScanShape /\ BookShape /\ PlanStillFits
  BY DEF ExposureInv, ExposureShape
<1>2. scan.pc = "asking" /\ a \in scan.of
  BY DEF AgentFills
<1>3. side \in TradeSides /\ scan.plan \in BookRecord /\ scan.funds \in Nat
  BY <1>1, <1>2 DEF ScanShape
<1>4. among \subseteq Assets
  BY DEF Cluster
<1>5. IsFiniteSet(among)
  BY <1>4, FS_Subset, ExposureAssumption
<1>6. \A b \in among : /\ Allowance[b] \in Nat /\ Margins[b] \in Nat /\ kept[b] \in Nat
                       /\ 100 * Margins[b] <= 100 * kept[b] + Allowance[b]
  BY <1>2, <1>3, AllowanceIs
<1>7. \A b \in Assets : kept[b] \in Nat
  BY <1>1, MarginsAreNat DEF KeptMargins
<1>8. 100 * (Margin(scan.plan) + SumFunctionOnSet(kept, Assets)) <= CapPct * scan.funds
  BY <1>1, <1>2, <1>3 DEF PlanStillFits
<1>9. MapThenSumSet(MarginOf, among) = SumFunctionOnSet(Margins, among)
  BY <1>1, <1>4, MarginSum
<1>10. book'[a] \in BookRecord
  BY DEF BookShape
<1>11. Margin(scan.plan) \in Nat /\ Margin(book'[a]) \in Nat /\ CapPct * scan.funds \in Nat
  BY <1>3, <1>10, MarginIsNat, ProductIsNat, ExposureAssumption
<1> DEFINE own == Margin(book'[a])
           planned == Margin(scan.plan)
           over == Excess(own, planned)
           cap == CapPct * scan.funds
           m == SumFunctionOnSet(Margins, among)
           k == SumFunctionOnSet(kept, among)
           all == SumFunctionOnSet(kept, Assets)
           w == SumFunctionOnSet(Allowance, among)
<1> HIDE DEF kept, among
<1>12. 100 * m <= 100 * k + w
  <2>1. \A b \in among : Margins[b] \in Int /\ kept[b] \in Int /\ Allowance[b] \in Int
    BY <1>6
  <2>2. \A b \in among : 100 * Margins[b] <= 100 * kept[b] + Allowance[b]
    BY <1>6
  <2> QED
    BY <1>5, <2>1, <2>2, SumWithAllowance
<1>13. m \in Int /\ k \in Int /\ w \in Int /\ all \in Int
  <2>1. /\ \A b \in among : Margins[b] \in Int
        /\ \A b \in among : kept[b] \in Int
        /\ \A b \in among : Allowance[b] \in Int
        /\ \A b \in Assets : kept[b] \in Int
    BY <1>6, <1>7
  <2> QED
    BY <1>5, <2>1, SumIsInt, ExposureAssumption
<1>14. k <= all
  BY <1>4, <1>7, SumOfFewer, ExposureAssumption
<1>15. over \in Nat /\ own <= planned + over
  <2>1. own \in Int /\ planned \in Int
    BY <1>11
  <2> HIDE DEF own, planned
  <2> QED
    BY <2>1, ExcessIs
<1>16. 100 * (own + m) <= cap + w + 100 * over
  <2>1. own \in Nat /\ planned \in Nat /\ cap \in Nat /\ 100 * (planned + all) <= cap
    BY <1>8, <1>11
  <2> HIDE DEF own, planned, over, cap, m, k, all, w
  <2> QED
    BY <1>12, <1>13, <1>14, <1>15, <2>1
<1> QED
  BY <1>9, <1>16 DEF ClusterFits, among

\* The SMC agent's position, once its stop is placed, is within the limit and what
\* came to the account's risk since the check.
LEMMA ProtectedFits ==
  ASSUME ExposureInv, BookShape', NEW a \in Assets, DeskProtects(a), book'[a] # book[a]
  PROVE  RiskFits(a)
<1> DEFINE others == Assets \ {a}
           kept == KeptRisks(a)
           since == desk[a].since
<1>1. BookShape /\ DeskShape /\ RisksFit(a) /\ desk[a].pc = "filled"
  BY DEF ExposureInv, ExposureShape, DeskProtects
<1>2. /\ desk[a].funds \in Nat /\ desk[a].plan \in BookRecord /\ since \in [Assets -> Nat]
      /\ desk[a].plan.risk <= (desk[a].funds * BaseRisk) \div 100
  BY <1>1 DEF DeskShape, DeskAsksFor, DeskRecord
<1>3. /\ \A b \in Assets : since[b] > 0 => RiskAtStop(b) <= since[b]
      /\ SumFunctionOnSet(kept, Assets) + (desk[a].funds * BaseRisk) \div 100
           <= (desk[a].funds * MaxAccountRisk) \div 100
  BY <1>1 DEF RisksFit, Checked
<1>4. \A b \in Assets : /\ RiskAtStop(b) \in Nat /\ Risks[b] = RiskAtStop(b) /\ kept[b] \in Nat
                        /\ kept[b] = IF since[b] = 0 THEN RiskAtStop(b) ELSE 0
  BY <1>1, MarginsAreNat DEF KeptRisks, Risks
<1>5. IsFiniteSet(others) /\ others \subseteq Assets
  BY FS_Subset, ExposureAssumption
<1>6. MapThenSumSet(RiskAtStop, others) = SumFunctionOnSet(Risks, others)
  BY <1>1, <1>5, RiskSum
<1>7. book'[a].risk \in Nat /\ desk[a].plan.risk \in Nat
  BY <1>2 DEF BookShape, BookRecord
<1> DEFINE own == book'[a].risk
           planned == desk[a].plan.risk
           over == Excess(own, planned)
           r == SumFunctionOnSet(Risks, others)
           k == SumFunctionOnSet(kept, others)
           all == SumFunctionOnSet(kept, Assets)
           w == SumFunctionOnSet(since, others)
           f == desk[a].funds
<1> HIDE DEF kept, others, since
<1>8. \A b \in others : /\ Risks[b] \in Int /\ kept[b] \in Int /\ since[b] \in Int
                        /\ Risks[b] <= kept[b] + since[b]
  <2>1. SUFFICES ASSUME NEW b \in others
        PROVE  /\ Risks[b] \in Int /\ kept[b] \in Int /\ since[b] \in Int
               /\ Risks[b] <= kept[b] + since[b]
    OBVIOUS
  <2>2. since[b] \in Nat /\ b \in Assets
    BY <1>2, <1>5
  <2>3. CASE since[b] = 0
    BY <1>4, <2>2, <2>3
  <2>4. CASE since[b] # 0
    BY <1>3, <1>4, <2>2, <2>4
  <2> QED
    BY <2>3, <2>4
<1>9. r <= k + w
  <2> DEFINE c == 1
  <2>1. c \in Nat /\ \A b \in others : c * Risks[b] <= c * kept[b] + since[b]
    BY <1>8
  <2>2. \A b \in others : Risks[b] \in Int /\ kept[b] \in Int /\ since[b] \in Int
    BY <1>8
  <2>3. c * r <= c * k + w
    <3> HIDE DEF c
    <3> QED
      BY <1>5, <2>1, <2>2, SumWithAllowance
  <2>4. r \in Int /\ k \in Int /\ w \in Int
    <3>1. /\ \A b \in others : Risks[b] \in Int
          /\ \A b \in others : kept[b] \in Int
          /\ \A b \in others : since[b] \in Int
      BY <1>8
    <3> QED
      BY <1>5, <3>1, SumIsInt
  <2> HIDE DEF r, k, w
  <2> QED
    BY <2>3, <2>4
<1>10. r \in Int /\ k \in Int /\ w \in Int /\ all \in Int
  <2>1. /\ \A b \in others : Risks[b] \in Int
        /\ \A b \in others : kept[b] \in Int
        /\ \A b \in others : since[b] \in Int
        /\ \A b \in Assets : kept[b] \in Int
    BY <1>4, <1>8
  <2> QED
    BY <1>5, <2>1, SumIsInt, ExposureAssumption
<1>11. k <= all
  BY <1>4, <1>5, SumOfFewer, ExposureAssumption
<1>12. over \in Nat /\ own <= planned + over
  <2>1. own \in Int /\ planned \in Int
    BY <1>7
  <2> HIDE DEF own, planned
  <2> QED
    BY <2>1, ExcessIs
<1>13. 100 * (r + own) <= MaxAccountRisk * f + 100 * (w + over)
  <2>1. /\ own \in Nat /\ planned \in Nat /\ f \in Nat /\ planned <= (f * BaseRisk) \div 100
        /\ all + (f * BaseRisk) \div 100 <= (f * MaxAccountRisk) \div 100
    BY <1>2, <1>3, <1>7
  <2> HIDE DEF own, planned, over, r, k, all, w, f
  <2> DEFINE share == (f * BaseRisk) \div 100
             most == (f * MaxAccountRisk) \div 100
  <2>2. share \in Int /\ most \in Int /\ 100 * most <= MaxAccountRisk * f
    BY <2>1 DEF BaseRisk, MaxAccountRisk
  <2>3. r + own <= most + w + over
    <3> HIDE DEF share, most
    <3>1. planned <= share /\ all + share <= most
      BY <2>1 DEF share, most
    <3> QED
      BY <1>9, <1>10, <1>11, <1>12, <2>1, <2>2, <3>1
  <2> HIDE DEF share, most
  <2>4. MaxAccountRisk * f \in Int
    BY <2>1 DEF MaxAccountRisk
  <2> QED
    BY <1>10, <1>12, <2>1, <2>2, <2>3, <2>4
<1> QED
  BY <1>6, <1>13 DEF RiskFits, others, since

-----------------------------------------------------------------------------
(* Exposure: the theorems *)

\* The invariant holds in every state.
LEMMA ExposureAlways == ExposureSpec => []ExposureInv
<1>1. ExposureInit => ExposureInv
  BY ExposureInitInv
<1>2. ExposureInv /\ [ExposureNext]_exposureVars => ExposureInv'
  BY ExposureStep
<1> QED
  BY <1>1, <1>2, PTL DEF ExposureSpec

\* The state has its type, whatever the market, the record and the other
\* strategies do.
THEOREM ExposureTypeCorrect == ExposureSpec => []ExposureTypeOK
<1>1. ExposureInv => ExposureTypeOK
  <2> SUFFICES ASSUME ExposureInv PROVE ExposureTypeOK
    OBVIOUS
  <2>1. ScanShape /\ DeskShape /\ BookShape /\ rho \in Correlations
    BY DEF ExposureInv, ExposureShape
  <2>2. Cardinality(scan.of) = (IF scan.pc = "asking" THEN 1 ELSE 0)
    <3>1. CASE scan.pc = "asking"
      <4>1. PICK a \in Assets : scan.of = {a}
        BY <2>1, <3>1 DEF ScanShape
      <4>2. Cardinality({a}) = 1
        BY FS_Singleton
      <4> QED
        BY <3>1, <4>1, <4>2
    <3>2. CASE scan.pc # "asking"
      <4>1. scan.of = {}
        BY <2>1, <3>2 DEF ScanShape
      <4>2. Cardinality({}) = 0
        BY FS_EmptySet
      <4> QED
        BY <3>2, <4>1, <4>2
    <3> QED
      BY <3>1, <3>2
  <2>3. scan.pc \in {"idle", "scanning", "asking"} /\ scan.todo \subseteq Assets
        /\ scan.seen \subseteq Assets /\ scan.entered \subseteq Assets /\ scan.since \in [Assets -> Nat]
    BY <2>1 DEF ScanShape
  <2>4. book \in [Assets -> [side: {-1, 0, 1}, notional: Nat, leverage: Nat \ {0}, risk: Nat]]
    BY <2>1 DEF BookShape, BookRecord
  <2>5. \A a \in Assets : desk[a].pc \in {"idle", "asking", "approved", "filled"}
                          /\ desk[a].since \in [Assets -> Nat]
    BY <2>1 DEF DeskShape, DeskRecord
  <2> QED
    BY <2>1, <2>2, <2>3, <2>4, <2>5 DEF ExposureTypeOK
<1> QED
  BY <1>1, ExposureAlways, PTL

\* How far the checks can be out when the orders fill, counting all that is open then:
\* for every cap, correlation, equity and plan, every price of the fill, and every
\* order of what others open and close meanwhile.
THEOREM EntriesFit == ExposureSpec => EntriesFitTheBook
<1> DEFINE Fit ==
      \A a \in Assets : book'[a] # book[a] =>
        /\ a \in scan.of /\ scan'.pc = "scanning" /\ book'[a].side = scan.plan.side
             => ClusterFits(a)
        /\ desk[a].pc = "filled" /\ desk'[a].pc = "idle" => RiskFits(a)
<1>1. ExposureInv /\ [ExposureNext]_exposureVars => [Fit]_exposureVars
  <2> SUFFICES ASSUME ExposureInv, ExposureNext PROVE Fit
    BY DEF exposureVars
  <2>1. ScanShape /\ DeskShape /\ BookShape /\ ExposureShape
    BY DEF ExposureInv, ExposureShape
  <2>2. BookShape'
    BY <2>1, BookShapeKept
  <2>3. ASSUME book' = book PROVE Fit
    BY <2>3
  <2>4. ASSUME NEW c \in Assets, NEW price \in FillPrices, AgentFills(c, price) PROVE Fit
    <3>1. \A a \in Assets : book'[a] # book[a] => a = c
      BY <2>1, <2>4 DEF AgentFills, BookShape
    <3>2. book'[c].side = scan.plan.side => ClusterFits(c)
      BY <2>2, <2>4, FilledFits
    <3>3. \A a \in Assets : desk[a].pc = "idle"
      BY <2>1, <2>4 DEF AgentFills, DeskShape, DeskAsksFor
    <3> QED
      BY <3>1, <3>2, <3>3
  <2>5. ASSUME NEW c \in Assets, Elsewhere(c) PROVE Fit
    <3>1. \A a \in Assets : book'[a] # book[a] => a = c
      BY <2>5 DEF Elsewhere
    <3>2. \A a \in Assets : a \in scan.of => scan'.pc # "scanning"
      BY <2>1, <2>5 DEF Elsewhere, ScanSaw, ScanShape
    <3>3. SUFFICES ASSUME desk[c].pc = "filled", desk'[c].pc = "idle", book'[c] # book[c] PROVE RiskFits(c)
      BY <3>1, <3>2
    <3>4. desk \in [Assets -> DeskRecord] /\ book'[c].risk \in Nat
      BY <2>1, <2>2 DEF DeskShape, BookShape, BookRecord
    <3>5. ~DeskSaw(c, desk)
      BY <3>3, <3>4, DeskSawIs
    <3>6. \A price \in FillPrices : ~DeskFills(c, price)
      BY <3>3 DEF DeskFills
    <3>7. DeskProtects(c)
      BY <2>5, <3>5, <3>6 DEF Elsewhere
    <3> QED
      BY <2>2, <3>3, <3>7, ProtectedFits
  <2>6. ASSUME ScanMoves PROVE Fit
    BY <2>3, <2>6 DEF ScanMoves
  <2>7. ASSUME NEW a \in Assets, DeskDecides(a) PROVE Fit
    BY <2>3, <2>7 DEF DeskDecides
  <2> QED
    BY <2>1, <2>4, <2>5, <2>6, <2>7, ExposureSteps
<1> QED
  BY <1>1, ExposureAlways, PTL DEF ExposureSpec, EntriesFitTheBook
-----------------------------------------------------------------------------
(* LiveLink: the gateway and the dashboard that shows the breaker *)

\* The three parts of its type, each with the actions that disturb it: the browser's
\* end of the connection, the gateway's clients and ghosts, and what the screen shows.
LinkIs ==
  /\ net \in {"up", "down"} /\ wire \in BOOLEAN
  /\ sock \in {"none", "connecting", "open", "closing", "closed"}
  /\ status \in {"idle", "connecting", "open", "reconnecting"}
  /\ attempts \in BOOLEAN /\ timer \in BOOLEAN /\ watched \in BOOLEAN /\ late \in 0..MaxLate

GatewayIs ==
  /\ client \in {"none", "fresh", "pinged"}
  /\ ghosts \in [fresh: Nat, pinged: Nat]
  /\ Clients <= MaxConnections /\ recent \in 0..MaxNew

ScreenIs ==
  /\ tripped \in BOOLEAN /\ shown \in BOOLEAN
  /\ queue \in Seq(BOOLEAN) /\ Len(queue) <= MaxQueued
  /\ snapshot \in {"idle", "asked", "tripped", "clear"}

\* A socket that closes leaves nothing on the wire.
LEMMA ClosedIs ==
  ASSUME LinkIs, ScreenIs, Closed
  PROVE  /\ sock' = "closed" /\ wire' = FALSE /\ queue' = <<>>
         /\ status' \in {"idle", "connecting", "open", "reconnecting"}
         /\ attempts' \in BOOLEAN /\ timer' \in BOOLEAN /\ watched' \in BOOLEAN
BY DEF LinkIs, Closed, ScheduleReconnect

\* The connection: whatever is heard of it or not.
LEMMA LinkStep ==
  ASSUME LinkIs, ScreenIs, LinkNext
  PROVE  LinkIs'
<1>1. CASE Appears \/ TimerFires
  <2>1. late' \in 0..MaxLate
    BY <1>1, LinkAssumption DEF Appears, TimerFires, Connect, GivenUp, LinkIs
  <2>2. /\ net' = net /\ wire' \in {wire, FALSE} /\ attempts' = attempts /\ timer' \in {timer, FALSE}
        /\ watched' = watched /\ sock' \in {sock, "connecting"}
        /\ status' \in {status, "reconnecting", "connecting"}
    BY <1>1 DEF Appears, TimerFires, Connect, GivenUp
  <2> QED
    BY <2>1, <2>2 DEF LinkIs
<1>7. ASSUME NEW failed \in BOOLEAN, LateClose(failed) PROVE LinkIs'
  <2>1. late' \in 0..MaxLate
    BY <1>7, LinkAssumption DEF LateClose, LinkIs
  <2>2. /\ net' = net /\ wire' = wire /\ watched' = FALSE /\ sock' \in {sock, "closing"}
        /\ attempts' \in {attempts, TRUE} /\ timer' \in {timer, TRUE}
        /\ status' \in {status, "reconnecting"}
    BY <1>7 DEF LateClose, ScheduleReconnect
  <2> QED
    BY <2>1, <2>2 DEF LinkIs
<1>2. CASE SocketFails \/ CloseCompletes \/ ClosedByServer
  <2>1. Closed /\ net' = net /\ late' = late
    BY <1>2 DEF SocketFails, CloseCompletes, ClosedByServer
  <2> QED
    BY <2>1, ClosedIs DEF LinkIs
<1>3. CASE StaleCloses \/ SocketOpens
  BY <1>3 DEF StaleCloses, SocketOpens, LinkIs
<1>4. CASE Heartbeat \/ Pong \/ WindowPasses
  BY <1>4 DEF Heartbeat, Pong, WindowPasses, LinkIs, browser
<1>5. CASE BreakerFlips \/ EventArrives \/ Poll \/ SnapshotTaken \/ SnapshotArrives \/ SnapshotFails
  BY <1>5 DEF BreakerFlips, EventArrives, Poll, SnapshotTaken, SnapshotArrives, SnapshotFails,
              LinkIs, browser
<1>6. CASE NetFails \/ NetReturns \/ WireLost
  BY <1>6 DEF NetFails, NetReturns, WireLost, LinkIs, browser
<1> QED
  BY <1>1, <1>2, <1>3, <1>4, <1>5, <1>6, <1>7 DEF LinkNext

\* The gateway: a client lost becomes a ghost that counts as it did, and only an
\* opening that the cap and the rate allow adds one.
LEMMA GatewayStep ==
  ASSUME GatewayIs, LinkNext
  PROVE  GatewayIs'
<1>1. MaxConnections \in Nat \ {0} /\ MaxNew \in Nat \ {0}
  BY LinkAssumption
<1>2. /\ client \in {"none", "fresh", "pinged"} /\ ghosts \in [fresh: Nat, pinged: Nat]
      /\ (IF client = "none" THEN 0 ELSE 1) + ghosts.fresh + ghosts.pinged <= MaxConnections
      /\ recent \in 0..MaxNew
  BY DEF GatewayIs, Clients
<1>3. ASSUME UNCHANGED gateway PROVE GatewayIs'
  BY <1>3 DEF GatewayIs, Clients, gateway
<1>4. ASSUME client' = "none", recent' = recent, ghosts' = ghosts \/ Deserted
      PROVE  GatewayIs'
  <2>1. CASE ghosts' = ghosts
    <3>1. ghosts.fresh \in Nat /\ ghosts.pinged \in Nat
      BY <1>2
    <3>2. ghosts.fresh + ghosts.pinged <= MaxConnections
      BY <1>1, <1>2, <3>1
    <3> QED
      BY <1>2, <1>4, <2>1, <3>1, <3>2 DEF GatewayIs, Clients
  <2>2. CASE ghosts' # ghosts
    <3>1. client # "none" /\ ghosts' = [ghosts EXCEPT ![client] = @ + 1]
      BY <1>4, <2>2 DEF Deserted
    <3>2. /\ ghosts' \in [fresh: Nat, pinged: Nat]
          /\ ghosts'.fresh + ghosts'.pinged = ghosts.fresh + ghosts.pinged + 1
      <4>1. CASE client = "fresh"
        BY <1>2, <3>1, <4>1
      <4>2. CASE client = "pinged"
        BY <1>2, <3>1, <4>2
      <4> QED
        BY <1>2, <3>1, <4>1, <4>2
    <3> QED
      BY <1>1, <1>2, <1>4, <3>1, <3>2 DEF GatewayIs, Clients
  <2> QED
    BY <2>1, <2>2
<1>10. CASE CloseCompletes
  BY <1>4, <1>10 DEF CloseCompletes
<1>11. CASE Appears \/ TimerFires
  <2>1. CASE sock = "closing"
    <3>1. GivenUp /\ recent' = recent
      BY <1>11, <2>1 DEF Appears, TimerFires, Connect
    <3> QED
      BY <1>4, <3>1 DEF GivenUp
  <2>2. CASE sock # "closing"
    <3>1. UNCHANGED gateway
      BY <1>11, <2>2 DEF Appears, TimerFires, Connect, gateway
    <3> QED
      BY <1>3, <3>1
  <2> QED
    BY <2>1, <2>2
<1>5. CASE SocketOpens
  <2>1. ghosts' = ghosts
    BY <1>5 DEF SocketOpens
  <2>2. CASE Clients >= MaxConnections \/ recent >= MaxNew
    <3>1. client' = client /\ recent' = recent
      BY <1>5, <2>2 DEF SocketOpens
    <3> QED
      BY <2>1, <3>1 DEF GatewayIs, Clients
  <2>3. CASE ~(Clients >= MaxConnections \/ recent >= MaxNew)
    <3>1. client' = "fresh" /\ recent' = recent + 1
      BY <1>5, <2>3 DEF SocketOpens
    <3>2. 1 + ghosts.fresh + ghosts.pinged <= MaxConnections /\ recent + 1 \in 0..MaxNew
      BY <1>1, <1>2, <2>3 DEF Clients
    <3> QED
      BY <1>2, <2>1, <3>1, <3>2 DEF GatewayIs, Clients
  <2> QED
    BY <2>2, <2>3
<1>6. CASE Heartbeat
  <2>1. /\ client' = (IF client = "fresh" THEN "pinged" ELSE "none") /\ recent' = recent
        /\ ghosts' = [fresh |-> 0, pinged |-> ghosts.fresh]
    BY <1>6 DEF Heartbeat
  <2> QED
    BY <1>1, <1>2, <2>1 DEF GatewayIs, Clients
<1>7. CASE Pong
  <2>1. client = "pinged" /\ client' = "fresh" /\ ghosts' = ghosts /\ recent' = recent
    BY <1>7 DEF Pong
  <2> QED
    BY <1>2, <2>1 DEF GatewayIs, Clients
<1>8. CASE WindowPasses
  <2>1. recent' = 0 /\ client' = client /\ ghosts' = ghosts
    BY <1>8 DEF WindowPasses
  <2> QED
    BY <1>1, <1>2, <2>1 DEF GatewayIs, Clients
<1>9. CASE \/ SocketFails \/ StaleCloses \/ ClosedByServer \/ \E failed \in BOOLEAN : LateClose(failed)
           \/ BreakerFlips \/ EventArrives \/ Poll \/ SnapshotTaken \/ SnapshotArrives
           \/ SnapshotFails \/ NetFails \/ NetReturns \/ WireLost
  <2>1. UNCHANGED gateway
    BY <1>9 DEF SocketFails, StaleCloses, ClosedByServer, LateClose,
                BreakerFlips, EventArrives, Poll, SnapshotTaken, SnapshotArrives,
                SnapshotFails, NetFails, NetReturns, WireLost
  <2> QED
    BY <1>3, <2>1
<1> QED
  BY <1>5, <1>6, <1>7, <1>8, <1>9, <1>10, <1>11 DEF LinkNext

\* The screen: an event is not queued beyond the bound, and what arrives is a state.
LEMMA ScreenStep ==
  ASSUME LinkIs, ScreenIs, LinkNext
  PROVE  ScreenIs'
<1>1. MaxQueued \in Nat
  BY LinkAssumption
<1>2. ASSUME UNCHANGED screen PROVE ScreenIs'
  BY <1>2 DEF ScreenIs, screen
<1>3. ASSUME queue' = <<>>, UNCHANGED <<tripped, snapshot, shown>> PROVE ScreenIs'
  BY <1>1, <1>3 DEF ScreenIs
<1>4. CASE SocketFails \/ CloseCompletes \/ ClosedByServer \/ WireLost
  <2>1. queue' = <<>> /\ UNCHANGED <<tripped, snapshot, shown>>
    BY <1>4, ClosedIs DEF SocketFails, CloseCompletes, ClosedByServer, WireLost
  <2> QED
    BY <1>3, <2>1
<1>5. CASE BreakerFlips
  <2>1. /\ tripped' = ~tripped /\ snapshot' = snapshot /\ shown' = shown
        /\ Receives => Len(queue) < MaxQueued
        /\ queue' = IF Receives THEN Append(queue, tripped') ELSE queue
    BY <1>5 DEF BreakerFlips
  <2>2. tripped' \in BOOLEAN
    BY <2>1
  <2>3. queue' \in Seq(BOOLEAN) /\ Len(queue') <= MaxQueued
    <3> DEFINE now == tripped'
    <3>1. now \in BOOLEAN
      BY <2>2
    <3>2. queue' = IF Receives THEN Append(queue, now) ELSE queue
      BY <2>1
    <3>3. queue \in Seq(BOOLEAN) /\ Len(queue) <= MaxQueued
      BY DEF ScreenIs
    <3> DEFINE Values == BOOLEAN
    <3>4. queue \in Seq(Values) /\ now \in Values
      BY <3>1, <3>3
    <3> HIDE DEF now, Values
    <3>5. queue' \in Seq(Values) /\ Len(queue') <= MaxQueued
      <4>1. CASE Receives
        BY <1>1, <2>1, <3>2, <3>4, <4>1
      <4>2. CASE ~Receives
        BY <3>2, <3>3, <3>4, <4>2
      <4> QED
        BY <4>1, <4>2
    <3> QED
      BY <3>5 DEF Values
  <2> QED
    BY <2>1, <2>2, <2>3 DEF ScreenIs
<1>6. CASE EventArrives
  <2>1. /\ queue # <<>> /\ shown' = Head(queue) /\ queue' = Tail(queue)
        /\ tripped' = tripped /\ snapshot' = snapshot
    BY <1>6 DEF EventArrives
  <2>2. Head(queue) \in BOOLEAN /\ Tail(queue) \in Seq(BOOLEAN) /\ Len(Tail(queue)) <= MaxQueued
    BY <1>1, <2>1 DEF ScreenIs
  <2> QED
    BY <2>1, <2>2 DEF ScreenIs
<1>7. CASE Poll \/ SnapshotTaken \/ SnapshotArrives \/ SnapshotFails
  <2>1. /\ queue' = queue /\ tripped' = tripped /\ shown' \in {shown, snapshot = "tripped"}
        /\ snapshot' \in {"idle", "asked", "tripped", "clear"}
    BY <1>7 DEF Poll, SnapshotTaken, SnapshotArrives, SnapshotFails
  <2>2. shown' \in BOOLEAN
    BY <2>1 DEF ScreenIs
  <2> QED
    BY <2>1, <2>2 DEF ScreenIs
<1>8. CASE \/ Appears \/ TimerFires \/ StaleCloses \/ SocketOpens \/ Heartbeat \/ Pong
           \/ WindowPasses \/ NetFails \/ NetReturns
  <2>1. UNCHANGED screen
    BY <1>8 DEF Appears, TimerFires, StaleCloses, SocketOpens, Heartbeat, Pong, WindowPasses,
                NetFails, NetReturns
  <2> QED
    BY <1>2, <2>1
<1>9. ASSUME NEW failed \in BOOLEAN, LateClose(failed) PROVE ScreenIs'
  BY <1>2, <1>3, <1>9 DEF LateClose, screen
<1> QED
  BY <1>4, <1>5, <1>6, <1>7, <1>8, <1>9 DEF LinkNext

\* The gateway never has more clients than its cap, those counted that are long lost,
\* nor accepts more than its rate; nothing else leaves its type either (addClient,
\* startHeartbeat, WsConnectionManager).
THEOREM LinkTypeCorrect == LinkSpec => []LinkTypeOK
<1> DEFINE LinkInv == LinkIs /\ GatewayIs /\ ScreenIs
<1>1. LinkInit => LinkInv
  <2>1. SUFFICES ASSUME LinkInit PROVE LinkInv
    OBVIOUS
  <2>2. LinkIs
    <3>1. /\ net \in {"up", "down"} /\ wire = FALSE /\ sock = "none" /\ status = "idle"
          /\ attempts = FALSE /\ timer = FALSE /\ watched = FALSE /\ late = 0
      BY <2>1 DEF LinkInit
    <3>2. late \in 0..MaxLate
      BY <3>1, LinkAssumption
    <3> QED
      BY <3>1, <3>2 DEF LinkIs
  <2>3. GatewayIs
    BY <2>1, LinkAssumption DEF LinkInit, GatewayIs, Clients
  <2>4. ScreenIs
    <3>1. tripped = FALSE /\ queue = <<>> /\ snapshot = "idle" /\ shown = FALSE
      BY <2>1 DEF LinkInit
    <3>2. queue \in Seq(BOOLEAN) /\ Len(queue) <= MaxQueued
      <4>1. Len(<<>>) = 0 /\ \A S : <<>> \in Seq(S)
        OBVIOUS
      <4>2. queue \in Seq(BOOLEAN)
        BY <3>1, <4>1
      <4> QED
        BY <3>1, <4>1, <4>2, LinkAssumption
    <3> QED
      BY <3>1, <3>2 DEF ScreenIs
  <2> QED
    BY <2>2, <2>3, <2>4
<1>2. LinkInv /\ [LinkNext]_linkVars => LinkInv'
  <2>1. ASSUME LinkInv, LinkNext PROVE LinkInv'
    BY <2>1, LinkStep, GatewayStep, ScreenStep
  <2>2. ASSUME LinkInv, UNCHANGED linkVars PROVE LinkInv'
    BY <2>2 DEF linkVars, browser, gateway, screen, LinkIs, GatewayIs, ScreenIs, Clients
  <2> QED
    BY <2>1, <2>2
<1>3. LinkInv => LinkTypeOK
  BY DEF LinkIs, GatewayIs, ScreenIs, LinkTypeOK
<1> QED
  BY <1>1, <1>2, <1>3, PTL DEF LinkSpec
-----------------------------------------------------------------------------
(* Scenarios: finite sets, and functions defined a step at a time *)

\* Of finitely many, one counts for most.
LEMMA HighestOf ==
  ASSUME NEW I, IsFiniteSet(I), I # {}, NEW f, \A x \in I : f[x] \in Int
  PROVE  \E x \in I : \A y \in I : f[x] >= f[y]
<1> DEFINE X == {t \in SUBSET I : t # {} /\ \A y \in I : \E x \in t : f[x] >= f[y]}
<1>1. X \subseteq SUBSET I /\ I \in X
  OBVIOUS
<1>2. PICK t \in X : \A u \in X : u \subseteq t => u = t
  <2> HIDE DEF X
  <2> QED
    BY <1>1, SmallestSubset
<1>3. PICK x \in t : TRUE
  OBVIOUS
<1>4. ASSUME NEW y \in t, y # x PROVE FALSE
  <2>1. x \in I /\ y \in I /\ f[x] \in Int /\ f[y] \in Int
    BY <1>3
  <2>2. CASE f[x] >= f[y]
    <3>1. \A z \in I : \E w \in t \ {y} : f[w] >= f[z]
      BY <1>4, <2>1, <2>2
    <3>2. t \ {y} \in X /\ t \ {y} \subseteq t /\ t \ {y} # t
      BY <1>4, <3>1
    <3> HIDE DEF X
    <3> QED
      BY <1>2, <3>2
  <2>3. CASE ~(f[x] >= f[y])
    <3>1. \A z \in I : \E w \in t \ {x} : f[w] >= f[z]
      BY <1>4, <2>1, <2>3
    <3>2. t \ {x} \in X /\ t \ {x} \subseteq t /\ t \ {x} # t
      BY <1>3, <1>4, <3>1
    <3> HIDE DEF X
    <3> QED
      BY <1>2, <3>2
  <2> QED
    BY <2>2, <2>3
<1>5. t = {x}
  BY <1>3, <1>4
<1> QED
  BY <1>5

\* What n steps come to, one after the other.
Steps(g, S, base, step, n) ==
  g \in [0..n -> S] /\ g[0] = base /\ \A k \in 1..n : g[k] = step[g[k - 1]]

\* A step of a set into itself can be taken any number of times.
LEMMA StepsExist ==
  ASSUME NEW S, NEW base \in S, NEW step \in [S -> S], NEW n \in Nat
  PROVE  \E g : Steps(g, S, base, step, n)
<1> DEFINE Runs(g, k) == g[0] = base /\ \A j \in 1..k : g[j] = step[g[j - 1]]
           N == {k \in Nat : ~ \E g \in [0..k -> S] : Runs(g, k)}
<1>1. SUFFICES ASSUME N # {} PROVE FALSE
  BY DEF Steps
<1>2. PICK k \in N : \A m \in N : k <= m
  <2>1. N \subseteq Nat
    OBVIOUS
  <2> HIDE DEF N
  <2> QED
    BY <1>1, <2>1, MinOfNaturals
<1>3. CASE k = 0
  <2> DEFINE g == [j \in 0..0 |-> base]
  <2>1. g \in [0..0 -> S] /\ Runs(g, 0)
    OBVIOUS
  <2> QED
    BY <1>2, <1>3, <2>1
<1>4. CASE k # 0
  <2>1. k - 1 \in Nat /\ k - 1 \notin N
    <3>1. k - 1 \in Nat /\ ~(k <= k - 1)
      BY <1>2, <1>4
    <3> HIDE DEF N
    <3> QED
      BY <1>2, <3>1
  <2>2. PICK g \in [0..(k - 1) -> S] : Runs(g, k - 1)
    BY <2>1
  <2> DEFINE h == [j \in 0..k |-> IF j = k THEN step[g[k - 1]] ELSE g[j]]
  <2>3. h \in [0..k -> S]
    BY <1>2, <2>1
  <2>4. h[0] = base
    BY <1>2, <1>4, <2>2
  <2>5. ASSUME NEW j \in 1..k PROVE h[j] = step[h[j - 1]]
    <3>1. CASE j = k
      BY <1>2, <2>1, <3>1
    <3>2. CASE j # k
      BY <1>2, <2>1, <2>2, <3>2
    <3> QED
      BY <3>1, <3>2
  <2>6. Runs(h, k)
    BY <2>4, <2>5
  <2> HIDE DEF h, Runs
  <2> QED
    BY <1>2, <2>3, <2>6
<1> QED
  BY <1>3, <1>4

\* What starts in a set and stays in it at each step is in it after any of them.
LEMMA StepsStay ==
  ASSUME NEW S, NEW n \in Nat, NEW g, g[0] \in S,
         \A k \in 1..n : g[k - 1] \in S => g[k] \in S
  PROVE  \A k \in 0..n : g[k] \in S
<1> DEFINE N == {k \in 0..n : g[k] \notin S}
<1>1. SUFFICES ASSUME N # {} PROVE FALSE
  OBVIOUS
<1>2. PICK k \in N : \A m \in N : k <= m
  <2>1. N \subseteq Nat
    OBVIOUS
  <2> HIDE DEF N
  <2> QED
    BY <1>1, <2>1, MinOfNaturals
<1>3. k # 0 /\ k \in 1..n /\ k - 1 \in 0..n
  BY <1>2
<1>4. k - 1 \notin N
  <2>1. ~(k <= k - 1)
    BY <1>3
  <2> HIDE DEF N
  <2> QED
    BY <1>2, <2>1
<1> QED
  BY <1>2, <1>3, <1>4
-----------------------------------------------------------------------------
(* Zones and liquidity *)

\* The strongest of some is one of them.
LEMMA StrongestIs ==
  ASSUME NEW n \in Nat, NEW S, S \subseteq 1..n, S # {}, NEW strength,
         \A i \in S : strength[i] \in Int
  PROVE  Strongest(S, strength) \in S
<1> DEFINE T == {i \in S : \A j \in S : strength[i] >= strength[j]}
<1>1. IsFiniteSet(S)
  <2>1. IsFiniteSet(1..n) /\ S \in SUBSET (1..n)
    BY FS_Interval
  <2> QED
    BY <2>1, FS_Subset
<1>2. T # {}
  BY <1>1, HighestOf
<1>3. T \subseteq Nat
  <2>1. T \subseteq S /\ 1..n \subseteq Nat
    OBVIOUS
  <2> QED
    BY <2>1
<1>4. Min(T) \in T
  <2> HIDE DEF T
  <2> QED
    BY <1>2, <1>3, MinOfNaturals
<1>5. Strongest(S, strength) = Min(T)
  BY DEF Strongest
<1> QED
  BY <1>4, <1>5

NonEmpty == Seq(ZoneRecord) \ {<<>>}

\* How strong a zone or a pool is, is a number.
LEMMA StrengthIs ==
  /\ \A z \in ZoneRecord : ZoneStrength(z) \in Int
  /\ \A p \in PoolRecord : PoolStrength(p) \in Int
<1>1. ASSUME NEW z \in ZoneRecord PROVE ZoneStrength(z) \in Int
  <2>1. /\ FrameWeight[z.frame] \in Nat /\ z.fresh \in Nat
    BY DEF ZoneRecord, FrameNames, FrameWeight
  <2> DEFINE base == FrameWeight[z.frame] + (IF z.high - z.low \in 10..150 THEN 100 ELSE 0)
                     + (IF z.block THEN 80 ELSE 0) + z.fresh
  <2>2. base \in Nat
    BY <2>1
  <2>3. ZoneStrength(z) = ((IF z.status = "ACTIVE" THEN base ELSE (base * 6) \div 10) + 5) \div 10
    BY DEF ZoneStrength
  <2> HIDE DEF base
  <2>4. (base * 6) \div 10 \in Nat /\ \A x \in Nat : (x + 5) \div 10 \in Nat
    BY <2>2
  <2> QED
    BY <2>2, <2>3, <2>4
<1>2. ASSUME NEW p \in PoolRecord PROVE PoolStrength(p) \in Int
  <2>1. PoolWeight[p.frame] \in Nat
    BY DEF PoolRecord, FrameNames, PoolWeight
  <2> QED
    BY <2>1 DEF PoolStrength
<1> QED
  BY <1>1, <1>2

\* A zone joins one of the clusters, or makes one.
LEMMA JoinedIs ==
  ASSUME NEW clusters \in Seq(NonEmpty), NEW z \in ZoneRecord
  PROVE  Joined(clusters, z) \in Seq(NonEmpty)
<1> DEFINE open == {k \in DOMAIN clusters :
                 /\ z.low <= HighOf(clusters[k]) /\ z.high >= LowOf(clusters[k])
                 /\ HighOf(Append(clusters[k], z)) - LowOf(Append(clusters[k], z)) <= 120
                 /\ Len(clusters[k]) < 5}
<1>1. open \subseteq DOMAIN clusters /\ open \subseteq Nat
  OBVIOUS
<1>2. Joined(clusters, z) = IF open = {} THEN Append(clusters, <<z>>)
                            ELSE [clusters EXCEPT ![Min(open)] = Append(@, z)]
  BY DEF Joined
<1> HIDE DEF open
<1>3. CASE open = {}
  <2>1. <<z>> \in NonEmpty
    <3>1. <<z>> \in Seq(ZoneRecord) /\ Len(<<z>>) = 1 /\ Len(<<>>) = 0
      OBVIOUS
    <3> QED
      BY <3>1 DEF NonEmpty
  <2> QED
    BY <1>2, <1>3, <2>1
<1>4. CASE open # {}
  <2>1. Min(open) \in DOMAIN clusters
    BY <1>1, <1>4, MinOfNaturals
  <2>2. PICK k \in DOMAIN clusters : k = Min(open)
    BY <2>1
  <2>3. clusters[k] \in Seq(ZoneRecord)
    BY DEF NonEmpty
  <2> DEFINE longer == Append(clusters[k], z)
  <2>4. longer \in Seq(ZoneRecord) /\ Len(longer) = Len(clusters[k]) + 1 /\ Len(clusters[k]) \in Nat
    BY <2>3
  <2>5. longer \in NonEmpty
    <3>1. Len(longer) # 0 /\ Len(<<>>) = 0
      BY <2>4
    <3> HIDE DEF longer
    <3> QED
      BY <2>4, <3>1 DEF NonEmpty
  <2>6. Joined(clusters, z) = [clusters EXCEPT ![k] = longer]
    BY <1>2, <1>4, <2>2
  <2> HIDE DEF longer
  <2> QED
    BY <2>5, <2>6
<1> QED
  BY <1>3, <1>4

\* However the zones are merged, they make clusters.
LEMMA ClustersAre ==
  ASSUME NEW zones \in Seq(ZoneRecord)
  PROVE  Clusters(zones) \in Seq(NonEmpty)
<1> DEFINE n == Len(zones)
           strength == [i \in DOMAIN zones |-> ZoneStrength(zones[i])]
           usable == {i \in DOMAIN zones : zones[i].high - zones[i].low >= 4}
           S == [clusters : Seq(NonEmpty), left : SUBSET (1..n)]
           base == [clusters |-> <<>>, left |-> usable]
           Is(g) == g = [k \in 0..n |-> IF k = 0 THEN base ELSE MergeNext(zones, strength, g[k - 1])]
           merged == CHOOSE g : Is(g)
<1>1. n \in Nat /\ DOMAIN zones = 1..n
  OBVIOUS
<1>2. base \in S
  <2>1. \A A : <<>> \in Seq(A)
    OBVIOUS
  <2>2. usable \in SUBSET (1..n)
    OBVIOUS
  <2> HIDE DEF usable, n
  <2> QED
    BY <2>1, <2>2
<1>3. ASSUME NEW m \in S PROVE MergeNext(zones, strength, m) \in S
  <2>1. CASE m.left = {}
    BY <2>1 DEF MergeNext
  <2>2. CASE m.left # {}
    <3> DEFINE next == Strongest(m.left, strength)
    <3>1. m.left \subseteq 1..n /\ \A i \in m.left : strength[i] \in Int
      BY <1>1, StrengthIs
    <3>2. next \in m.left
      <4> HIDE DEF strength, n
      <4> QED
        BY <1>1, <2>2, <3>1, StrongestIs
    <3>3. MergeNext(zones, strength, m) =
            [clusters |-> Joined(m.clusters, zones[next]), left |-> m.left \ {next}]
      BY <2>2 DEF MergeNext
    <3>4. zones[next] \in ZoneRecord
      BY <1>1, <3>1, <3>2
    <3> HIDE DEF next, strength, n
    <3>5. Joined(m.clusters, zones[next]) \in Seq(NonEmpty)
      BY <3>4, JoinedIs
    <3> QED
      BY <3>3, <3>5
  <2> QED
    BY <2>1, <2>2
<1> HIDE DEF S, strength, n, base
<1>4. PICK g \in [0..n -> S] : g[0] = base /\ \A k \in 1..n : g[k] = MergeNext(zones, strength, g[k - 1])
  <2> DEFINE step == [m \in S |-> MergeNext(zones, strength, m)]
  <2>1. step \in [S -> S]
    BY <1>3
  <2>2. \E g : Steps(g, S, base, step, n)
    <3> HIDE DEF step
    <3> QED
      BY <1>1, <1>2, <2>1, StepsExist
  <2>3. PICK g \in [0..n -> S] : g[0] = base /\ \A k \in 1..n : g[k] = step[g[k - 1]]
    BY <2>2 DEF Steps
  <2>4. \A k \in 1..n : g[k - 1] \in S
    BY <1>1
  <2> QED
    BY <2>3, <2>4
<1>5. Is(g)
  BY <1>1, <1>4
<1>6. Is(merged)
  BY <1>5
<1>7. merged[0] = base /\ \A k \in 1..n : merged[k] = MergeNext(zones, strength, merged[k - 1])
  <2> HIDE DEF merged
  <2> QED
    BY <1>1, <1>6
<1>8. merged[n] \in S
  <2> HIDE DEF merged
  <2>1. \A k \in 1..n : merged[k - 1] \in S => merged[k] \in S
    BY <1>3, <1>7
  <2>2. n \in Nat /\ n \in 0..n /\ merged[0] \in S
    BY <1>1, <1>2, <1>7
  <2>3. \A k \in 0..n : merged[k] \in S
    BY ONLY <2>1, <2>2, StepsStay
  <2> QED
    BY <2>2, <2>3
<1>9. Clusters(zones) = merged[n].clusters
  BY DEF Clusters, strength, base, n
<1> HIDE DEF merged
<1> QED
  BY <1>8, <1>9 DEF S

\* A pool is absorbed by one of the hosts, or is one.
LEMMA AbsorbedIs ==
  ASSUME NEW hosts \in Seq(PoolRecord), NEW p \in PoolRecord
  PROVE  Absorbed(hosts, p) \in Seq(PoolRecord)
<1> DEFINE near == {k \in DOMAIN hosts : hosts[k].side = p.side /\ Apart(hosts[k].price, p.price) <= 8}
<1>1. near \subseteq DOMAIN hosts /\ near \subseteq Nat
  OBVIOUS
<1>2. Absorbed(hosts, p) = IF near = {} THEN Append(hosts, p)
                           ELSE [hosts EXCEPT ![Min(near)].price = (@ + p.price) \div 2]
  BY DEF Absorbed
<1> HIDE DEF near
<1>3. CASE near = {}
  BY <1>2, <1>3
<1>4. CASE near # {}
  <2>1. Min(near) \in DOMAIN hosts
    BY <1>1, <1>4, MinOfNaturals
  <2>2. PICK k \in DOMAIN hosts : k = Min(near)
    BY <2>1
  <2>3. hosts[k] \in PoolRecord
    OBVIOUS
  <2> DEFINE host == [hosts[k] EXCEPT !.price = (hosts[k].price + p.price) \div 2]
  <2>4. (hosts[k].price + p.price) \div 2 \in Nat
    BY <2>3 DEF PoolRecord
  <2>5. host \in PoolRecord
    BY <2>3, <2>4 DEF PoolRecord
  <2>6. Absorbed(hosts, p) = [hosts EXCEPT ![k] = host]
    BY <1>2, <1>4, <2>2
  <2> HIDE DEF host
  <2> QED
    BY <2>5, <2>6
<1> QED
  BY <1>3, <1>4

LEMMA HostsAre ==
  ASSUME NEW pools \in Seq(PoolRecord)
  PROVE  Hosts(pools) \in Seq(PoolRecord)
<1> DEFINE n == Len(pools)
           strength == [i \in DOMAIN pools |-> PoolStrength(pools[i])]
           S == [hosts : Seq(PoolRecord), left : SUBSET (1..n)]
           base == [hosts |-> <<>>, left |-> DOMAIN pools]
           Is(g) == g = [k \in 0..n |-> IF k = 0 THEN base ELSE AbsorbNext(pools, strength, g[k - 1])]
           absorbed == CHOOSE g : Is(g)
<1>1. n \in Nat /\ DOMAIN pools = 1..n
  OBVIOUS
<1>2. base \in S
  <2>1. \A A : <<>> \in Seq(A)
    OBVIOUS
  <2>2. DOMAIN pools \in SUBSET (1..n)
    OBVIOUS
  <2> HIDE DEF n
  <2> QED
    BY <2>1, <2>2
<1>3. ASSUME NEW m \in S PROVE AbsorbNext(pools, strength, m) \in S
  <2>1. CASE m.left = {}
    BY <2>1 DEF AbsorbNext
  <2>2. CASE m.left # {}
    <3> DEFINE next == Strongest(m.left, strength)
    <3>1. m.left \subseteq 1..n /\ \A i \in m.left : strength[i] \in Int
      BY <1>1, StrengthIs
    <3>2. next \in m.left
      <4> HIDE DEF strength, n
      <4> QED
        BY <1>1, <2>2, <3>1, StrongestIs
    <3>3. AbsorbNext(pools, strength, m) =
            [hosts |-> Absorbed(m.hosts, pools[next]), left |-> m.left \ {next}]
      BY <2>2 DEF AbsorbNext
    <3>4. pools[next] \in PoolRecord
      BY <1>1, <3>1, <3>2
    <3> HIDE DEF next, strength, n
    <3>5. Absorbed(m.hosts, pools[next]) \in Seq(PoolRecord)
      BY <3>4, AbsorbedIs
    <3> QED
      BY <3>3, <3>5
  <2> QED
    BY <2>1, <2>2
<1> HIDE DEF S, strength, n, base
<1>4. PICK g \in [0..n -> S] : g[0] = base /\ \A k \in 1..n : g[k] = AbsorbNext(pools, strength, g[k - 1])
  <2> DEFINE step == [m \in S |-> AbsorbNext(pools, strength, m)]
  <2>1. step \in [S -> S]
    BY <1>3
  <2>2. \E g : Steps(g, S, base, step, n)
    <3> HIDE DEF step
    <3> QED
      BY <1>1, <1>2, <2>1, StepsExist
  <2>3. PICK g \in [0..n -> S] : g[0] = base /\ \A k \in 1..n : g[k] = step[g[k - 1]]
    BY <2>2 DEF Steps
  <2>4. \A k \in 1..n : g[k - 1] \in S
    BY <1>1
  <2> QED
    BY <2>3, <2>4
<1>5. Is(g)
  BY <1>1, <1>4
<1>6. Is(absorbed)
  BY <1>5
<1>7. absorbed[0] = base /\ \A k \in 1..n : absorbed[k] = AbsorbNext(pools, strength, absorbed[k - 1])
  <2> HIDE DEF absorbed
  <2> QED
    BY <1>1, <1>6
<1>8. absorbed[n] \in S
  <2> HIDE DEF absorbed
  <2>1. \A k \in 1..n : absorbed[k - 1] \in S => absorbed[k] \in S
    BY <1>3, <1>7
  <2>2. n \in Nat /\ n \in 0..n /\ absorbed[0] \in S
    BY <1>1, <1>2, <1>7
  <2>3. \A k \in 0..n : absorbed[k] \in S
    BY ONLY <2>1, <2>2, StepsStay
  <2> QED
    BY <2>2, <2>3
<1>9. Hosts(pools) = absorbed[n].hosts
  BY DEF Hosts, strength, base, n
<1> HIDE DEF absorbed
<1> QED
  BY <1>8, <1>9 DEF S

\* A merged zone: its edges are numbers, and its strength one of a hundred.
LEMMA ConfluenceIs ==
  ASSUME NEW cluster \in NonEmpty
  PROVE  /\ ConfluenceOf(cluster).low \in Nat /\ ConfluenceOf(cluster).high \in Nat
         /\ ConfluenceOf(cluster).strength \in Int /\ ConfluenceOf(cluster).strength <= 100
<1> DEFINE n == Len(cluster)
           D == DOMAIN cluster
<1>1. n \in Nat \ {0} /\ D = 1..n /\ \A i \in D : cluster[i] \in ZoneRecord
  <2>1. cluster \in Seq(ZoneRecord) /\ cluster # <<>>
    BY DEF NonEmpty
  <2> QED
    BY <2>1
<1>2. /\ IsFiniteSet(D) /\ D # {}
      /\ \A i \in D : cluster[i].low \in Nat /\ cluster[i].high \in Nat
  <2>1. IsFiniteSet(1..n)
    BY <1>1, FS_Interval
  <2>2. \A i \in D : cluster[i].low \in Nat /\ cluster[i].high \in Nat
    BY <1>1 DEF ZoneRecord
  <2> QED
    BY <1>1, <2>1, <2>2
<1>3. LowOf(cluster) \in Nat
  <2> DEFINE T == {cluster[i].low : i \in D}
  <2>1. T \subseteq Nat /\ T # {}
    BY <1>2
  <2>2. Min(T) \in T
    <3> HIDE DEF T
    <3> QED
      BY <2>1, MinOfNaturals
  <2> QED
    BY <2>1, <2>2 DEF LowOf
<1>4. HighOf(cluster) \in Nat
  <2> DEFINE T == {cluster[i].high : i \in D}
             f == [i \in D |-> cluster[i].high]
  <2>1. \A i \in D : f[i] \in Int
    BY <1>2
  <2>2. PICK i \in D : \A j \in D : f[i] >= f[j]
    <3> HIDE DEF f, D
    <3> QED
      BY <1>2, <2>1, HighestOf
  <2>3. f[i] \in T /\ \A x \in T : f[i] >= x
    BY <2>2
  <2>4. Max(T) \in T
    <3> HIDE DEF T, f
    <3> QED
      BY <2>3 DEF Max
  <2>5. T \subseteq Nat
    BY <1>2
  <2> QED
    BY <2>4, <2>5 DEF HighOf
<1>5. ConfluenceOf(cluster).strength \in Int /\ ConfluenceOf(cluster).strength <= 100
  <2> DEFINE s == ZoneStrength(cluster[1]) + Min({25, 10 * (n - 1)}) + Min({15, 3 * n})
  <2>1. ZoneStrength(cluster[1]) \in Int
    BY <1>1, StrengthIs
  <2>2. Min({25, 10 * (n - 1)}) \in Int /\ Min({15, 3 * n}) \in Int
    <3> DEFINE overlap == 10 * (n - 1)
               touch == 3 * n
    <3>1. overlap \in Int /\ touch \in Int
      BY <1>1
    <3> HIDE DEF overlap, touch
    <3>2. /\ Min({25, overlap}) = IF 25 <= overlap THEN 25 ELSE overlap
          /\ Min({15, touch}) = IF 15 <= touch THEN 15 ELSE touch
      BY <3>1, MinOfTwo
    <3>3. Min({25, overlap}) \in Int /\ Min({15, touch}) \in Int
      BY <3>1, <3>2
    <3> QED
      BY <3>3 DEF overlap, touch
  <2>3. s \in Int
    BY <2>1, <2>2
  <2>4. ConfluenceOf(cluster).strength = Min({100, s})
    BY DEF ConfluenceOf
  <2> HIDE DEF s
  <2>5. Min({100, s}) = IF 100 <= s THEN 100 ELSE s
    BY <2>3, MinOfTwo
  <2> QED
    BY <2>3, <2>4, <2>5
<1>6. ConfluenceOf(cluster).low = LowOf(cluster) /\ ConfluenceOf(cluster).high = HighOf(cluster)
  BY DEF ConfluenceOf
<1> QED
  BY <1>3, <1>4, <1>5, <1>6
-----------------------------------------------------------------------------
(* Votes and trust *)

LEMMA FramesAreFinite == IsFiniteSet(FrameNames)
<1>1. IsFiniteSet({})
  BY FS_EmptySet
<1>2. IsFiniteSet({} \union {"h4"})
  BY <1>1, FS_AddElement
<1>3. IsFiniteSet(({} \union {"h4"}) \union {"h2"})
  BY <1>2, FS_AddElement
<1>4. IsFiniteSet((({} \union {"h4"}) \union {"h2"}) \union {"h1"})
  BY <1>3, FS_AddElement
<1>5. IsFiniteSet(((({} \union {"h4"}) \union {"h2"}) \union {"h1"}) \union {"m15"})
  BY <1>4, FS_AddElement
<1>6. IsFiniteSet((((({} \union {"h4"}) \union {"h2"}) \union {"h1"}) \union {"m15"}) \union {"m5"})
  BY <1>5, FS_AddElement
<1>7. FrameNames = (((({} \union {"h4"}) \union {"h2"}) \union {"h1"}) \union {"m15"}) \union {"m5"}
  BY DEF FrameNames
<1> QED
  BY <1>6, <1>7

\* What some of the frames count is a number, and not none unless there are none.
LEMMA VotesAre ==
  ASSUME NEW S, S \subseteq FrameNames, NEW f, \A x \in FrameNames : f[x] \in Nat \ {0}
  PROVE  SumFunctionOnSet(f, S) \in Nat /\ (S # {} => SumFunctionOnSet(f, S) > 0)
<1>2. \A T : T \subseteq FrameNames => IsFiniteSet(T)
  BY FramesAreFinite, FS_Subset
<1>3. \A T : T \subseteq FrameNames => SumFunctionOnSet(f, T) \in Nat
  <2>1. SUFFICES ASSUME NEW T, T \subseteq FrameNames PROVE SumFunctionOnSet(f, T) \in Nat
    OBVIOUS
  <2>2. \A x \in T : f[x] \in Int /\ f[x] \in Nat
    BY <2>1
  <2>3. SumFunctionOnSet(f, T) \in Int
    BY <1>2, <2>1, <2>2, SumIsInt
  <2>4. SumFunctionOnSet(f, {}) <= SumFunctionOnSet(f, T)
    BY <1>2, <2>1, <2>2, SumOfFewer
  <2>5. SumFunctionOnSet(f, {}) = 0
    BY SumOfNone
  <2> QED
    BY <2>3, <2>4, <2>5
<1>4. ASSUME S # {} PROVE SumFunctionOnSet(f, S) > 0
  <2>1. PICK y \in S : TRUE
    BY <1>4
  <2> DEFINE J == S \ {y}
  <2>2. \A x \in S : f[x] \in Int
    OBVIOUS
  <2>3. SumFunctionOnSet(f, S) = SumFunctionOnSet(f, J) + f[y]
    BY <1>2, <2>1, <2>2, SumOfOneMore
  <2>4. SumFunctionOnSet(f, J) \in Nat /\ f[y] \in Nat \ {0}
    BY <1>3, <2>1
  <2> HIDE DEF J
  <2> QED
    BY <2>3, <2>4
<1> QED
  BY <1>3, <1>4

\* The bias is of numbers: some timeframe votes.
LEMMA BiasIs ==
  ASSUME NEW c
  PROVE  Bias(c).LONG \in Nat /\ Bias(c).SHORT \in Nat /\ Bias(c).neutral \in Nat
<1> DEFINE undecided == FrameNames \ (Following(c, "BULLISH") \union Following(c, "BEARISH"))
           less == [f \in FrameNames |-> (BiasWeight[f] * 6) \div 10]
           long == TrendVotes(c, "BULLISH")
           short == TrendVotes(c, "BEARISH")
           neutral == SumFunctionOnSet(less, undecided)
           total == long + short + neutral
<1>1. \A f \in FrameNames : BiasWeight[f] \in Nat \ {0} /\ BiasWeight[f] >= 1000
  BY DEF FrameNames, BiasWeight
<1>2. \A f \in FrameNames : Vote(c)[f] \in Nat \ {0}
  <2>1. \A x \in Nat \ {0} : x \div 4 \in Nat /\ x + x \div 4 \in Nat \ {0}
    OBVIOUS
  <2> QED
    BY <1>1, <2>1 DEF Vote
<1>3. \A f \in FrameNames : less[f] \in Nat \ {0}
  <2>1. \A x \in Nat : x >= 1000 => (x * 6) \div 10 \in Nat \ {0}
    OBVIOUS
  <2> QED
    BY <1>1, <2>1
<1>4. ASSUME NEW t
      PROVE  TrendVotes(c, t) \in Nat /\ (Following(c, t) # {} => TrendVotes(c, t) > 0)
  <2> DEFINE votes == SumFunctionOnSet(Vote(c), Following(c, t))
  <2>1. Following(c, t) \subseteq FrameNames
    BY DEF Following
  <2>2. votes \in Nat /\ (Following(c, t) # {} => votes > 0)
    BY <1>2, <2>1, VotesAre
  <2>3. TrendVotes(c, t) \in {votes + 500, votes + 0}
    BY DEF TrendVotes
  <2> HIDE DEF votes
  <2> QED
    BY <2>2, <2>3
<1>5. neutral \in Nat /\ (undecided # {} => neutral > 0)
  <2>1. undecided \subseteq FrameNames
    OBVIOUS
  <2> HIDE DEF undecided, less
  <2> QED
    BY <1>3, <2>1, VotesAre
<1>6. Following(c, "BULLISH") # {} \/ Following(c, "BEARISH") # {} \/ undecided # {}
  BY DEF FrameNames
<1>7. long \in Nat /\ short \in Nat
  BY <1>4
<1>8. total \in Nat \ {0}
  <2>1. long > 0 \/ short > 0 \/ neutral > 0
    BY <1>4, <1>5, <1>6
  <2> HIDE DEF long, short, neutral
  <2> QED
    BY <1>5, <1>7, <2>1
<1>9. /\ Bias(c).LONG = (1000 * long) \div total
      /\ Bias(c).SHORT = (1000 * short) \div total
      /\ Bias(c).neutral = (1000 * neutral) \div total
  BY DEF Bias
<1> HIDE DEF long, short, neutral, total
<1>10. 1000 * long \in Nat /\ 1000 * short \in Nat /\ 1000 * neutral \in Nat
  BY <1>5, <1>7
<1> QED
  BY <1>8, <1>9, <1>10, ShareIsNat

\* The greater of two.
LEMMA MaxOfTwoIs ==
  ASSUME NEW a \in Int, NEW b \in Int
  PROVE  Max({a, b}) = IF a >= b THEN a ELSE b
<1> DEFINE most == IF a >= b THEN a ELSE b
<1>1. most \in {a, b} /\ \A x \in {a, b} : most >= x
  OBVIOUS
<1>2. \A x \in {a, b} : (\A y \in {a, b} : x >= y) => x = most
  OBVIOUS
<1> QED
  BY <1>1, <1>2 DEF Max

\* The trust in a thesis is a number.
LEMMA ConfidenceIs ==
  ASSUME NEW c, NEW t, c.bias.LONG \in Nat, c.bias.SHORT \in Nat, c.bias.neutral \in Nat
  PROVE  Confidence(c, t) \in Int
<1> DEFINE side == IF Endorses(t, "LONG") THEN "LONG"
                   ELSE IF Endorses(t, "SHORT") THEN "SHORT" ELSE "NONE"
           fits == \/ side = "LONG" /\ PlacedUnder(c, 450)
                   \/ side = "SHORT" /\ PlacedOver(c, 550)
           extreme == \/ t = "BULLISH_CONTINUATION" /\ PlacedOver(c, 800)
                      \/ t = "BEARISH_CONTINUATION" /\ PlacedUnder(c, 200)
           fuel == \/ side = "LONG" /\ c.scene.swept = "SELL_SIDE"
                   \/ side = "SHORT" /\ c.scene.swept = "BUY_SIDE"
           lean == IF side = "NONE" THEN c.bias.neutral \div 10 ELSE c.bias[side] \div 4
           sum == 350 + 90 * AlignedCount(c) + (IF FullyStacked(c) THEN 80 ELSE 0)
                  + lean + (IF fits THEN 80 ELSE 0) - (IF extreme THEN 120 ELSE 0) + (IF fuel THEN 80 ELSE 0)
<1>1. AlignedCount(c) \in Int
  <2> DEFINE a == Cardinality(Following(c, "BULLISH"))
             b == Cardinality(Following(c, "BEARISH"))
  <2>1. \A u : Following(c, u) \in SUBSET FrameNames
    BY DEF Following
  <2>2. a \in Int /\ b \in Int
    BY <2>1, FramesAreFinite, FS_Subset, FS_CardinalityType
  <2>3. AlignedCount(c) = Max({a, b})
    <3>1. {Cardinality(Following(c, u)) : u \in {"BULLISH", "BEARISH"}} = {a, b}
      OBVIOUS
    <3> QED
      BY <3>1 DEF AlignedCount
  <2> HIDE DEF a, b
  <2> QED
    BY <2>2, <2>3, MaxOfTwo
<1>2. lean \in Nat
  <2>1. \A x \in Nat : x \div 10 \in Nat /\ x \div 4 \in Nat
    OBVIOUS
  <2>2. side \in {"LONG", "SHORT", "NONE"}
    OBVIOUS
  <2> HIDE DEF side
  <2> QED
    BY <2>1, <2>2
<1>3. sum \in Int
  <2> HIDE DEF lean, fits, extreme, fuel
  <2> QED
    BY <1>1, <1>2
<1>4. Confidence(c, t) = CASE t = "NO_CLEAR_THESIS" -> 200
                           [] t = "TRANSITION" -> 300
                           [] OTHER -> Max({50, Min({970, sum})})
  BY DEF Confidence
<1> HIDE DEF sum
<1>5. Min({970, sum}) \in Int
  <2>1. Min({970, sum}) = IF 970 <= sum THEN 970 ELSE sum
    BY <1>3, MinOfTwo
  <2> QED
    BY <1>3, <2>1
<1>6. Max({50, Min({970, sum})}) \in Int
  <2> DEFINE least == Min({970, sum})
  <2> HIDE DEF least, side, fits, extreme, fuel, lean
  <2>1. least \in Int
    BY <1>5 DEF least
  <2>2. Max({50, least}) = IF 50 >= least THEN 50 ELSE least
    BY <2>1, MaxOfTwoIs
  <2>3. Max({50, least}) \in Int
    BY <2>1, <2>2
  <2> QED
    BY <2>3 DEF least
<1>7. CASE t = "NO_CLEAR_THESIS"
  BY <1>4, <1>7
<1>8. CASE t = "TRANSITION"
  BY <1>4, <1>8
<1>9. CASE t # "NO_CLEAR_THESIS" /\ t # "TRANSITION"
  BY <1>4, <1>6, <1>9
<1> QED
  BY <1>7, <1>8, <1>9
-----------------------------------------------------------------------------
(* Scenarios *)

\* What a scenario is for the best of them to be one, and for its stop to be beyond
\* the zone it waits in.
WellMade(s) ==
  /\ s.side \in Ways /\ s.type \in {Rank[k] : k \in 1..5} /\ s.fit \in Int /\ s.fit <= 1000
  /\ s.side = "LONG" => s.stop < s.low
  /\ s.side = "SHORT" => s.stop > s.high

\* What a context is of.
ContextIs(c) ==
  /\ c.scene.price \in Nat /\ c.scene.atr \in Nat
  /\ \A z \in c.zones : z.low \in Nat /\ z.high \in Nat /\ z.strength \in Int /\ z.strength <= 100
  /\ \A p \in c.above : p \in Nat /\ p > c.scene.price
  /\ \A p \in c.below : p \in Nat /\ p < c.scene.price

LEMMA StopIs ==
  ASSUME NEW c, ContextIs(c), NEW level \in Int
  PROVE  /\ StopBelow(c, level) \in Int /\ StopBelow(c, level) <= level - 25
         /\ StopAbove(c, level) \in Int /\ StopAbove(c, level) >= level + 25
<1> DEFINE share == c.scene.atr \div 4
<1>1. share \in Int
  <2>1. \A x \in Nat : x \div 4 \in Int
    OBVIOUS
  <2> QED
    BY <2>1 DEF ContextIs
<1> HIDE DEF share
<1>2. Max({25, share}) \in Int /\ Max({25, share}) >= 25
  BY <1>1, MaxOfTwo
<1> DEFINE far == Max({25, share})
<1>3. StopBelow(c, level) = level - far /\ StopAbove(c, level) = level + far
  BY DEF StopBelow, StopAbove, share
<1> HIDE DEF far
<1>4. far \in Int /\ far >= 25
  BY <1>2 DEF far
<1> QED
  BY <1>3, <1>4

LEMMA MadeWell ==
  ASSUME NEW type \in {"RETEST_CONTINUATION", "BREAKOUT_RETEST", "LIQUIDITY_REJECTION", "REVERSAL"},
         NEW d \in Ways, NEW stage, NEW fit \in Int, NEW low, NEW high, NEW stop, NEW targets, NEW rr,
         d = "LONG" => stop < low, d = "SHORT" => stop > high
  PROVE  WellMade(Scenario(type, d, stage, fit, low, high, stop, targets, rr))
<1> DEFINE s == Scenario(type, d, stage, fit, low, high, stop, targets, rr)
<1>1. /\ s.type = type /\ s.side = d /\ s.fit = Min({1000, fit}) /\ s.low = low
      /\ s.high = high /\ s.stop = stop
  BY DEF Scenario
<1>2. s.fit \in Int /\ s.fit <= 1000
  <2>1. Min({1000, fit}) = IF 1000 <= fit THEN 1000 ELSE fit
    BY MinOfTwo
  <2> QED
    BY <1>1, <2>1
<1>3. type \in {Rank[k] : k \in 1..5}
  <2>1. /\ Rank[1] = "RETEST_CONTINUATION" /\ Rank[2] = "BREAKOUT_RETEST"
        /\ Rank[3] = "LIQUIDITY_REJECTION" /\ Rank[4] = "REVERSAL"
    BY DEF Rank
  <2> QED
    BY <2>1
<1> HIDE DEF s
<1>4. WellMade(s)
  BY <1>1, <1>2, <1>3 DEF WellMade
<1> QED
  BY <1>4 DEF s

\* The context made of a typed chart.
LEMMA ContextMade ==
  ASSUME NEW c, c.scene.price \in Nat, c.scene.atr \in Nat,
         c.scene.zones \in Seq(ZoneRecord), c.scene.pools \in Seq(PoolRecord)
  PROVE  ContextIs(ContextOf(c)) /\ \A t : Confidence(ContextOf(c), t) \in Int
<1> DEFINE x == ContextOf(c)
<1>1. /\ x.scene = c.scene /\ x.zones = ConfluenceZones(c) /\ x.bias = Bias(Located(c))
      /\ x.above = PoolsAbove(c) /\ x.below = PoolsBelow(c)
  BY DEF ContextOf
<1>2. \A z \in ConfluenceZones(c) :
        z.low \in Nat /\ z.high \in Nat /\ z.strength \in Int /\ z.strength <= 100
  <2> DEFINE clusters == Clusters(c.scene.zones)
  <2>1. clusters \in Seq(NonEmpty)
    BY ClustersAre
  <2> HIDE DEF clusters
  <2>2. \A k \in DOMAIN clusters : clusters[k] \in NonEmpty
    BY <2>1
  <2>3. ConfluenceZones(c) = {ConfluenceOf(clusters[k]) : k \in DOMAIN clusters}
    BY DEF ConfluenceZones, clusters
  <2> QED
    BY <2>2, <2>3, ConfluenceIs
<1>3. \A p \in Liquidity(c) : p.price \in Nat
  <2> DEFINE hosts == Hosts(c.scene.pools)
  <2>1. hosts \in Seq(PoolRecord)
    BY HostsAre
  <2>2. \A p \in Liquidity(c) : p \in {hosts[k] : k \in DOMAIN hosts}
    BY DEF Liquidity, ToSet
  <2> HIDE DEF hosts
  <2>3. \A k \in DOMAIN hosts : hosts[k].price \in Nat
    <3>1. \A k \in DOMAIN hosts : hosts[k] \in PoolRecord
      BY <2>1
    <3>2. \A p \in PoolRecord : p.price \in Nat
      BY DEF PoolRecord
    <3> QED
      BY <3>1, <3>2
  <2> QED
    BY <2>2, <2>3
<1>4. \A p \in PoolsAbove(c) : p \in Nat /\ p > c.scene.price
  BY <1>3 DEF PoolsAbove
<1>5. \A p \in PoolsBelow(c) : p \in Nat /\ p < c.scene.price
  BY <1>3 DEF PoolsBelow
<1>6. x.bias.LONG \in Nat /\ x.bias.SHORT \in Nat /\ x.bias.neutral \in Nat
  BY <1>1, BiasIs
<1> HIDE DEF x
<1>7. ContextIs(x)
  BY <1>1, <1>2, <1>4, <1>5 DEF ContextIs
<1>8. \A t : Confidence(x, t) \in Int
  BY <1>6, ConfidenceIs
<1> QED
  BY <1>7, <1>8 DEF x

\* Trust and strength give a whole number of points.
LEMMA FitsAre ==
  ASSUME NEW trust \in Int
  PROVE  /\ \A s \in Int : 550 + (trust * 35) \div 100 + s \in Int
         /\ 500 + (trust * 30) \div 100 \in Int
         /\ \A s \in Int : 450 + 3 * s + (trust * 20) \div 100 \in Int
OBVIOUS

\* The scenarios a directional thesis gives, one family at a time.
LEMMA BullishAre ==
  ASSUME NEW c, ContextIs(c), NEW trust \in Int, NEW s \in BullishFamily(c, trust)
  PROVE  WellMade(s)
<1> DEFINE targets == TargetsAbove(c)
           far(p) == StopBelow(c, Max({c.scene.price - 100, p - 60}))
           retest(z) == Scenario("RETEST_CONTINUATION", "LONG",
                          IF c.scene.price \in z.low..z.high THEN "ARMED" ELSE "WATCHING",
                          550 + (trust * 35) \div 100 + z.strength, z.low, z.high,
                          StopBelow(c, z.low), targets,
                          RewardToRisk(Mid(z), StopBelow(c, z.low), targets))
           breakout(p) == Scenario("BREAKOUT_RETEST", "LONG", "WATCHING", 500 + (trust * 30) \div 100,
                            p - 20, p + 20, far(p), targets, RewardToRisk(p, far(p), targets))
<1>1. \/ \E z \in Demand(c) : s = retest(z)
      \/ \E p \in c.above : s = breakout(p)
  <2> DEFINE broken == {p \in c.above : p = Min(c.above) /\ targets # <<>>}
  <2>1. BullishFamily(c, trust) = {retest(z) : z \in Demand(c)} \union {breakout(p) : p \in broken}
    BY DEF BullishFamily
  <2>2. broken \subseteq c.above
    OBVIOUS
  <2> HIDE DEF retest, breakout, broken
  <2> QED
    BY <2>1, <2>2
<1> HIDE DEF targets
<1>2. ASSUME NEW z \in Demand(c) PROVE WellMade(retest(z))
  <2>1. z.low \in Int /\ z.strength \in Int
    BY <1>2 DEF Demand, ContextIs
  <2>2. StopBelow(c, z.low) < z.low
    <3>1. StopBelow(c, z.low) \in Int /\ StopBelow(c, z.low) <= z.low - 25
      BY <2>1, StopIs
    <3> QED
      BY <2>1, <3>1
  <2> DEFINE fit == 550 + (trust * 35) \div 100 + z.strength
             stage == IF c.scene.price \in z.low..z.high THEN "ARMED" ELSE "WATCHING"
             rr == RewardToRisk(Mid(z), StopBelow(c, z.low), targets)
  <2>3. fit \in Int
    BY <2>1, FitsAre
  <2> HIDE DEF fit, stage, rr
  <2>4. WellMade(Scenario("RETEST_CONTINUATION", "LONG", stage, fit, z.low, z.high,
                          StopBelow(c, z.low), targets, rr))
    BY <2>2, <2>3, MadeWell DEF Ways
  <2> QED
    BY <2>4 DEF fit, stage, rr
<1>3. ASSUME NEW p \in c.above PROVE WellMade(breakout(p))
  <2>1. p \in Int /\ c.scene.price \in Int /\ p > c.scene.price
    BY <1>3 DEF ContextIs
  <2> DEFINE level == Max({c.scene.price - 100, p - 60})
             a == c.scene.price - 100
             b == p - 60
  <2>2. level \in Int /\ level <= p - 60
    <3>1. a \in Int /\ b \in Int /\ a <= b
      BY <2>1
    <3> HIDE DEF a, b
    <3>2. Max({a, b}) = b
      BY <3>1, MaxOfTwoIs
    <3> QED
      BY <3>1, <3>2 DEF a, b
  <2> HIDE DEF level
  <2>3. StopBelow(c, level) < p - 20
    <3>1. StopBelow(c, level) \in Int /\ StopBelow(c, level) <= level - 25
      BY <2>2, StopIs
    <3> QED
      BY <2>1, <2>2, <3>1
  <2> DEFINE fit == 500 + (trust * 30) \div 100
             low == p - 20
             high == p + 20
             rr == RewardToRisk(p, StopBelow(c, level), targets)
  <2>4. fit \in Int
    BY FitsAre
  <2> HIDE DEF fit, low, high, rr
  <2>5. WellMade(Scenario("BREAKOUT_RETEST", "LONG", "WATCHING", fit, low, high,
                          StopBelow(c, level), targets, rr))
    BY <2>3, <2>4, MadeWell DEF Ways, low
  <2> QED
    BY <2>5 DEF fit, low, high, rr, level
<1> HIDE DEF retest, breakout
<1> QED
  BY <1>1, <1>2, <1>3

LEMMA BullishReversalsAre ==
  ASSUME NEW c, ContextIs(c), NEW trust \in Int, NEW s \in BullishReversals(c, trust)
  PROVE  WellMade(s)
<1> DEFINE targets == TargetsAbove(c)
           rejection(p) == Scenario("LIQUIDITY_REJECTION", "LONG", "CONDITIONAL",
                             500 + (trust * 30) \div 100, p - 50, p + 20, StopBelow(c, p - 30),
                             OrEquilibrium(c, targets),
                             RewardToRisk(c.scene.price, StopBelow(c, p - 30), OrEquilibrium(c, targets)))
           reversal(z) == Scenario("REVERSAL", "LONG",
                          IF c.scene.price <= z.high THEN "ARMED" ELSE "WATCHING",
                          450 + 3 * z.strength + (trust * 20) \div 100, z.low, z.high,
                          StopBelow(c, z.low), OrEquilibrium(c, targets),
                          RewardToRisk(Mid(z), StopBelow(c, z.low), targets))
<1>1. \/ \E p \in c.below : s = rejection(p)
      \/ \E z \in Demand(c) : s = reversal(z)
  BY DEF BullishReversals
<1> HIDE DEF targets
<1>2. ASSUME NEW p \in c.below PROVE WellMade(rejection(p))
  <2>1. p \in Int
    BY <1>2 DEF ContextIs
  <2> DEFINE level == p - 30
             fit == 500 + (trust * 30) \div 100
             low == p - 50
             high == p + 20
             to == OrEquilibrium(c, targets)
             rr == RewardToRisk(c.scene.price, StopBelow(c, level), to)
  <2>2. level \in Int
    BY <2>1
  <2>3. StopBelow(c, level) < low
    <3> HIDE DEF level
    <3>1. StopBelow(c, level) \in Int /\ StopBelow(c, level) <= level - 25
      BY <2>2, StopIs
    <3> QED
      BY <2>1, <3>1 DEF level
  <2>4. fit \in Int
    BY FitsAre
  <2> HIDE DEF fit, low, high, rr, to, level
  <2>5. WellMade(Scenario("LIQUIDITY_REJECTION", "LONG", "CONDITIONAL", fit, low, high,
                          StopBelow(c, level), to, rr))
    BY <2>3, <2>4, MadeWell DEF Ways
  <2> QED
    BY <2>5 DEF fit, low, high, rr, to, level
<1>3. ASSUME NEW z \in Demand(c) PROVE WellMade(reversal(z))
  <2>1. z.low \in Int /\ z.high \in Int /\ z.strength \in Int
    BY <1>3 DEF Demand, ContextIs
  <2>2. StopBelow(c, z.low) < z.low
    <3>1. StopBelow(c, z.low) \in Int /\ StopBelow(c, z.low) <= z.low - 25
      BY <2>1, StopIs
    <3> QED
      BY <2>1, <3>1
  <2> DEFINE fit == 450 + 3 * z.strength + (trust * 20) \div 100
             stage == IF c.scene.price <= z.high THEN "ARMED" ELSE "WATCHING"
             to == OrEquilibrium(c, targets)
             rr == RewardToRisk(Mid(z), StopBelow(c, z.low), targets)
  <2>3. fit \in Int
    BY <2>1, FitsAre
  <2> HIDE DEF fit, stage, rr, to
  <2>4. WellMade(Scenario("REVERSAL", "LONG", stage, fit, z.low, z.high,
                          StopBelow(c, z.low), to, rr))
    BY <2>2, <2>3, MadeWell DEF Ways
  <2> QED
    BY <2>4 DEF fit, stage, rr, to
<1> HIDE DEF rejection, reversal
<1> QED
  BY <1>1, <1>2, <1>3

LEMMA BearishAre ==
  ASSUME NEW c, ContextIs(c), NEW trust \in Int, NEW s \in BearishFamily(c, trust)
  PROVE  WellMade(s)
<1> DEFINE targets == TargetsBelow(c)
           retest(z) == Scenario("RETEST_CONTINUATION", "SHORT",
                          IF c.scene.price \in z.low..z.high THEN "ARMED" ELSE "WATCHING",
                          550 + (trust * 35) \div 100 + z.strength, z.low, z.high,
                          StopAbove(c, z.high), targets,
                          RewardToRisk(Mid(z), StopAbove(c, z.high), targets))
           far(p) == StopAbove(c, Min({c.scene.price + 100, p + 60}))
           breakout(p) == Scenario("BREAKOUT_RETEST", "SHORT", "WATCHING", 500 + (trust * 30) \div 100,
                            p - 20, p + 20, far(p), targets, RewardToRisk(p, far(p), targets))
<1>1. \/ \E z \in Supply(c) : s = retest(z)
      \/ \E p \in c.below : s = breakout(p)
  <2> DEFINE broken == {p \in c.below : p = Max(c.below) /\ targets # <<>>}
  <2>1. BearishFamily(c, trust) = {retest(z) : z \in Supply(c)} \union {breakout(p) : p \in broken}
    BY DEF BearishFamily
  <2>2. broken \subseteq c.below
    OBVIOUS
  <2> HIDE DEF retest, breakout, broken
  <2> QED
    BY <2>1, <2>2
<1> HIDE DEF targets
<1>2. ASSUME NEW z \in Supply(c) PROVE WellMade(retest(z))
  <2>1. z.low \in Int /\ z.high \in Int /\ z.strength \in Int
    BY <1>2 DEF Supply, ContextIs
  <2>2. StopAbove(c, z.high) > z.high
    <3>1. StopAbove(c, z.high) \in Int /\ StopAbove(c, z.high) >= z.high + 25
      BY <2>1, StopIs
    <3> QED
      BY <2>1, <3>1
  <2> DEFINE fit == 550 + (trust * 35) \div 100 + z.strength
             stage == IF c.scene.price \in z.low..z.high THEN "ARMED" ELSE "WATCHING"
             to == targets
             rr == RewardToRisk(Mid(z), StopAbove(c, z.high), targets)
  <2>3. fit \in Int
    BY <2>1, FitsAre
  <2> HIDE DEF fit, stage, rr, to
  <2>4. WellMade(Scenario("RETEST_CONTINUATION", "SHORT", stage, fit, z.low, z.high,
                          StopAbove(c, z.high), to, rr))
    BY <2>2, <2>3, MadeWell DEF Ways
  <2> QED
    BY <2>4 DEF fit, stage, rr, to
<1>3. ASSUME NEW p \in c.below PROVE WellMade(breakout(p))
  <2>1. p \in Int /\ c.scene.price \in Int /\ p < c.scene.price
    BY <1>3 DEF ContextIs
  <2> DEFINE level == Min({c.scene.price + 100, p + 60})
             a == c.scene.price + 100
             b == p + 60
  <2>2. level \in Int /\ level >= p + 60
    <3>1. a \in Int /\ b \in Int /\ ~(a <= b)
      BY <2>1
    <3> HIDE DEF a, b
    <3>2. Min({a, b}) = b
      BY <3>1, MinOfTwo
    <3> QED
      BY <3>1, <3>2 DEF a, b
  <2> HIDE DEF level
  <2>3. StopAbove(c, level) > p + 20
    <3>1. StopAbove(c, level) \in Int /\ StopAbove(c, level) >= level + 25
      BY <2>2, StopIs
    <3> QED
      BY <2>1, <2>2, <3>1
  <2> DEFINE fit == 500 + (trust * 30) \div 100
             low == p - 20
             high == p + 20
             rr == RewardToRisk(p, StopAbove(c, level), targets)
  <2>4. fit \in Int
    BY FitsAre
  <2> HIDE DEF fit, low, high, rr
  <2>5. WellMade(Scenario("BREAKOUT_RETEST", "SHORT", "WATCHING", fit, low, high,
                          StopAbove(c, level), targets, rr))
    BY <2>3, <2>4, MadeWell DEF Ways, high
  <2> QED
    BY <2>5 DEF fit, low, high, rr, level
<1> HIDE DEF retest, breakout
<1> QED
  BY <1>1, <1>2, <1>3

LEMMA BearishReversalsAre ==
  ASSUME NEW c, ContextIs(c), NEW trust \in Int, NEW s \in BearishReversals(c, trust)
  PROVE  WellMade(s)
<1> DEFINE targets == TargetsBelow(c)
           rejection(p) == Scenario("LIQUIDITY_REJECTION", "SHORT", "CONDITIONAL",
                             500 + (trust * 30) \div 100, p - 20, p + 50, StopAbove(c, p + 30),
                             OrEquilibrium(c, targets),
                             RewardToRisk(c.scene.price, StopAbove(c, p + 30), OrEquilibrium(c, targets)))
           reversal(z) == Scenario("REVERSAL", "SHORT",
                          IF c.scene.price >= z.low THEN "ARMED" ELSE "WATCHING",
                          450 + 3 * z.strength + (trust * 20) \div 100, z.low, z.high,
                          StopAbove(c, z.high), OrEquilibrium(c, targets),
                          RewardToRisk(Mid(z), StopAbove(c, z.high), targets))
<1>1. \/ \E p \in c.above : s = rejection(p)
      \/ \E z \in Supply(c) : s = reversal(z)
  BY DEF BearishReversals
<1> HIDE DEF targets
<1>2. ASSUME NEW p \in c.above PROVE WellMade(rejection(p))
  <2>1. p \in Int
    BY <1>2 DEF ContextIs
  <2> DEFINE level == p + 30
             fit == 500 + (trust * 30) \div 100
             low == p - 20
             high == p + 50
             to == OrEquilibrium(c, targets)
             rr == RewardToRisk(c.scene.price, StopAbove(c, level), to)
  <2>2. level \in Int
    BY <2>1
  <2>3. StopAbove(c, level) > high
    <3> HIDE DEF level
    <3>1. StopAbove(c, level) \in Int /\ StopAbove(c, level) >= level + 25
      BY <2>2, StopIs
    <3> QED
      BY <2>1, <3>1 DEF level
  <2>4. fit \in Int
    BY FitsAre
  <2> HIDE DEF fit, low, high, rr, to, level
  <2>5. WellMade(Scenario("LIQUIDITY_REJECTION", "SHORT", "CONDITIONAL", fit, low, high,
                          StopAbove(c, level), to, rr))
    BY <2>3, <2>4, MadeWell DEF Ways
  <2> QED
    BY <2>5 DEF fit, low, high, rr, to, level
<1>3. ASSUME NEW z \in Supply(c) PROVE WellMade(reversal(z))
  <2>1. z.low \in Int /\ z.high \in Int /\ z.strength \in Int
    BY <1>3 DEF Supply, ContextIs
  <2>2. StopAbove(c, z.high) > z.high
    <3>1. StopAbove(c, z.high) \in Int /\ StopAbove(c, z.high) >= z.high + 25
      BY <2>1, StopIs
    <3> QED
      BY <2>1, <3>1
  <2> DEFINE fit == 450 + 3 * z.strength + (trust * 20) \div 100
             stage == IF c.scene.price >= z.low THEN "ARMED" ELSE "WATCHING"
             to == OrEquilibrium(c, targets)
             rr == RewardToRisk(Mid(z), StopAbove(c, z.high), targets)
  <2>3. fit \in Int
    BY <2>1, FitsAre
  <2> HIDE DEF fit, stage, rr, to
  <2>4. WellMade(Scenario("REVERSAL", "SHORT", stage, fit, z.low, z.high,
                          StopAbove(c, z.high), to, rr))
    BY <2>2, <2>3, MadeWell DEF Ways
  <2> QED
    BY <2>4 DEF fit, stage, rr, to
<1> HIDE DEF rejection, reversal
<1> QED
  BY <1>1, <1>2, <1>3

LEMMA ScenariosAre ==
  ASSUME NEW c, ContextIs(c), NEW t, Confidence(c, t) \in Int, Directional(t),
         NEW s \in ScenariosOf(c, t)
  PROVE  WellMade(s)
<1> DEFINE trust == Confidence(c, t)
<1>1. trust \in Int
  OBVIOUS
<1>2. t \in {"BULLISH_CONTINUATION", "BEARISH_CONTINUATION", "BULLISH_REVERSAL", "BEARISH_REVERSAL"}
  BY DEF Directional, Endorses
<1>3. \/ s \in BullishFamily(c, trust) \/ s \in BearishFamily(c, trust)
      \/ s \in BullishReversals(c, trust) \/ s \in BearishReversals(c, trust)
  BY <1>2 DEF ScenariosOf
<1> HIDE DEF trust
<1> QED
  BY <1>1, <1>3, BullishAre, BearishAre, BullishReversalsAre, BearishReversalsAre

\* Every scenario has its place among the equals.
LEMMA RanksAre ==
  ASSUME NEW s, WellMade(s)
  PROVE  RankOf(s) \in Nat
<1>1. DOMAIN Rank = 1..5
  BY DEF Rank
<1>2. PICK k \in 1..5 : Rank[k] = s.type
  BY DEF WellMade
<1> DEFINE place == CHOOSE j \in DOMAIN Rank : Rank[j] = s.type
<1>3. place \in 1..5
  BY <1>1, <1>2
<1> HIDE DEF place
<1>4. RankOf(s) = 2 * place + 1 \/ RankOf(s) = 2 * place + 0
  BY DEF RankOf, place
<1> QED
  BY <1>3, <1>4

\* The best of some scenarios is one of them.
LEMMA BestIs ==
  ASSUME NEW S, S # {}, \A s \in S : WellMade(s)
  PROVE  BestOf(S) \in S
<1> DEFINE fits == {s.fit : s \in S}
           most == Max(fits)
           equals == {s \in S : s.fit = most}
           ranks == {RankOf(s) : s \in equals}
           first == Min(ranks)
<1>1. \A s \in S : s.fit \in Int /\ s.fit <= 1000
  BY DEF WellMade
<1>2. most \in fits /\ \A f \in fits : most >= f
  <2> DEFINE bound == 1000
  <2>1. fits \subseteq Int /\ fits # {}
    BY <1>1
  <2>2. \A f \in fits : f <= bound
    BY <1>1
  <2>3. bound \in Int
    OBVIOUS
  <2> HIDE DEF fits, most, equals, ranks, first, bound
  <2>4. Max(fits) \in fits /\ \A f \in fits : Max(fits) >= f
    BY <2>1, <2>2, <2>3, MaxOfBounded
  <2> QED
    BY <2>4 DEF most
<1>3. equals # {} /\ most \in Int /\ \A s \in S : most >= s.fit
  <2> HIDE DEF most
  <2> QED
    BY <1>1, <1>2
<1>4. first \in ranks /\ \A r \in ranks : first <= r
  <2>1. ranks # {}
    BY <1>3
  <2>2. ranks \subseteq Nat
    BY RanksAre
  <2> HIDE DEF ranks
  <2> QED
    BY <2>1, <2>2, MinOfNaturals
<1>5. PICK x \in equals : RankOf(x) = first
  <2> HIDE DEF first, most
  <2> QED
    BY <1>4
<1>6. ASSUME NEW y \in S PROVE Ahead(x, y)
  <2>1. x.fit = most /\ y.fit \in Int
    BY <1>1
  <2>2. CASE y.fit = most
    <3>1. RankOf(y) \in ranks
      BY <2>2
    <3>2. RankOf(x) <= RankOf(y)
      <4> HIDE DEF first, ranks
      <4> QED
        BY <1>4, <1>5, <3>1
    <3> HIDE DEF most
    <3> QED
      BY <2>1, <2>2, <3>2 DEF Ahead
  <2>3. CASE y.fit # most
    <3> HIDE DEF most
    <3> QED
      BY <1>3, <2>1, <2>3 DEF Ahead
  <2> QED
    BY <2>2, <2>3
<1>7. x \in S
  OBVIOUS
<1> HIDE DEF equals, most, first, ranks, fits
<1> QED
  BY <1>6, <1>7 DEF BestOf

\* The scenario a setup is given is well made, and of its direction.
LEMMA PlanIs ==
  ASSUME NEW plans, NEW d, \A s \in plans : WellMade(s), PlanFor(plans, d) # NoTrade
  PROVE  PlanFor(plans, d) \in plans /\ PlanFor(plans, d).side = d
<1> DEFINE own == {s \in plans : s.side = d}
<1>1. own # {}
  BY DEF PlanFor, BestOf
<1>2. BestOf(own) \in own
  <2>1. \A s \in own : WellMade(s)
    OBVIOUS
  <2> HIDE DEF own
  <2> QED
    BY <1>1, <2>1, BestIs
<1>3. PlanFor(plans, d) = BestOf(own)
  BY DEF PlanFor
<1> QED
  BY <1>2, <1>3
-----------------------------------------------------------------------------
(* Scores *)

\* What the zones add to a score.
LEMMA ZoneCreditIs ==
  ASSUME NEW zone \in Int, zone <= 100
  PROVE  5 + (zone + 10) \div 20 \in Int /\ 5 + (zone + 10) \div 20 <= 10
<1> DEFINE q == (zone + 10) \div 20
<1>1. q \in Int /\ 20 * q <= zone + 10
  OBVIOUS
<1> HIDE DEF q
<1>2. 5 + q \in Int /\ 5 + q <= 10
  BY <1>1
<1> QED
  BY <1>2 DEF q

LEMMA AgreesOrIs ==
  ASSUME NEW c, NEW f, NEW d, NEW full \in Nat, NEW unclear \in Nat, unclear <= full
  PROVE  /\ AgreesOr(c, f, d, full, unclear) \in {0, unclear, full}
         /\ AgreesOr(c, f, d, full, unclear) \in Nat
         /\ AgreesOr(c, f, d, full, unclear) <= full
         /\ c.frames[f].trend # TrendOf(d) => AgreesOr(c, f, d, full, unclear) <= unclear
         /\ (c.frames[f].trend # TrendOf(d) /\ c.frames[f].trend \notin {"RANGE", "UNKNOWN"}) =>
              AgreesOr(c, f, d, full, unclear) = 0
BY DEF AgreesOr

\* A setup against the four hours scores at most 85 of the 100, and without a sweep 75.
LEMMA ScoreIs ==
  ASSUME NEW c, ContextIs(c), NEW t, NEW e, NEW d \in Ways, NEW rr
  PROVE  /\ HierarchicalScore(c, t, e, d, rr) \in Int
         /\ (c.frames.h4.trend # TrendOf(d) /\ c.frames.h4.trend \notin {"RANGE", "UNKNOWN"}) =>
              /\ HierarchicalScore(c, t, e, d, rr) <= 85
              /\ e.sweep = "NONE" => HierarchicalScore(c, t, e, d, rr) <= 75
<1> DEFINE zones == {z.strength : z \in {z \in c.zones :
                      z.side \in {TrendOf(d), "NEUTRAL"} /\ z.status # "BROKEN"}}
           zone == IF zones = {} THEN 50 ELSE Max(zones)
           ofThesis == IF Endorses(t, d) THEN (IF c.frames.h1.trend = TrendOf(d) THEN 15 ELSE 11)
                       ELSE IF t = "TRANSITION" THEN 4 ELSE 0
           two == AgreesOr(c, "h2", d, 10, 4)
           ofFour == AgreesOr(c, "h4", d, 15, 6)
           ofTwo == IF two = 0 /\ Reverses(t, d) THEN 5 ELSE two
           ofStructure == StructureCredit(c.frames.m15, d)
           ofSweep == IF e.sweep # "NONE" THEN 10 ELSE 0
           ofZone == IF HasZone(e) THEN 5 + (zone + 10) \div 20 ELSE 0
           ofPlace == IF d = "LONG" THEN LongPlaces[Position(c)] ELSE ShortPlaces[Position(c)]
           ofTrigger == IF Fires(c, e, d) THEN 10 ELSE 0
           ofRatio == RatioCredit(rr)
           score == HierarchicalScore(c, t, e, d, rr)
<1>1. score = ofFour + ofTwo + ofThesis + ofStructure + ofSweep + ofZone + ofPlace
              + ofTrigger + ofRatio
  BY DEF HierarchicalScore
<1>2. /\ ofFour \in Nat /\ ofFour <= 15
      /\ (c.frames.h4.trend # TrendOf(d) /\ c.frames.h4.trend \notin {"RANGE", "UNKNOWN"}) =>
           ofFour = 0
  BY AgreesOrIs
<1>3. ofTwo \in Int /\ ofTwo <= 10
  <2>1. two \in Int /\ two <= 10
    <3>1. two \in {0, 4, 10}
      BY DEF AgreesOr
    <3> HIDE DEF two
    <3> QED
      BY <3>1
  <2>2. ofTwo = 5 \/ ofTwo = two
    OBVIOUS
  <2> HIDE DEF ofTwo, two
  <2> QED
    BY <2>1, <2>2
<1>4. ofThesis \in {15, 11, 4, 0}
  OBVIOUS
<1>5. ofStructure \in {0, 6, 10, 12, 15}
  BY DEF StructureCredit
<1>6. ofSweep \in {0, 10} /\ (e.sweep = "NONE" => ofSweep = 0)
  OBVIOUS
<1>7. ofZone \in Int /\ ofZone <= 10
  <2>1. \A s \in zones : s \in Int /\ s <= 100
    BY DEF ContextIs
  <2>2. zone \in Int /\ zone <= 100
    <3>1. CASE zones = {}
      BY <3>1
    <3>2. CASE zones # {}
      <4>1. zones \subseteq Int /\ 100 \in Int
        BY <2>1
      <4>2. zone = Max(zones)
        BY <3>2
      <4> HIDE DEF zones, zone
      <4>3. Max(zones) \in zones
        BY <2>1, <3>2, <4>1, MaxOfBounded
      <4> QED
        BY <2>1, <4>2, <4>3
    <3> QED
      BY <3>1, <3>2
  <2> HIDE DEF zone
  <2>3. 5 + (zone + 10) \div 20 \in Int /\ 5 + (zone + 10) \div 20 <= 10
    BY <2>2, ZoneCreditIs
  <2> DEFINE credit == 5 + (zone + 10) \div 20
  <2>4. ofZone = credit \/ ofZone = 0
    OBVIOUS
  <2> HIDE DEF credit, ofZone
  <2>5. credit \in Int /\ credit <= 10
    BY <2>3 DEF credit
  <2> QED
    BY <2>4, <2>5
<1>8. ofPlace \in Int /\ ofPlace <= 10
  <2>1. Position(c) \in {"DEEP_DISCOUNT", "DISCOUNT", "EQUILIBRIUM", "PREMIUM", "DEEP_PREMIUM"}
    BY DEF Position
  <2>2. LongPlaces[Position(c)] \in {0, 3, 5, 8, 10} /\ ShortPlaces[Position(c)] \in {0, 3, 5, 8, 10}
    BY <2>1 DEF LongPlaces, ShortPlaces
  <2>3. ofPlace \in {0, 3, 5, 8, 10}
    BY <2>2
  <2> HIDE DEF ofPlace
  <2> QED
    BY <2>3
<1>9. ofTrigger \in {0, 10}
  OBVIOUS
<1>10. ofRatio \in {0, 2, 3, 4, 5}
  BY DEF RatioCredit
<1> HIDE DEF ofFour, ofTwo, ofThesis, ofStructure, ofSweep, ofZone, ofPlace, ofTrigger, ofRatio, score
<1>11. score \in Int /\ score <= ofFour + ofSweep + 75
  <2>1. /\ ofThesis \in Int /\ ofThesis <= 15 /\ ofStructure \in Int /\ ofStructure <= 15
        /\ ofTrigger \in Int /\ ofTrigger <= 10 /\ ofRatio \in Int /\ ofRatio <= 5
        /\ ofSweep \in Int
    BY <1>4, <1>5, <1>6, <1>9, <1>10
  <2> QED
    BY <1>1, <1>2, <1>3, <1>7, <1>8, <2>1
<1>12. ofSweep \in Int /\ ofSweep <= 10
  BY <1>6
<1>13. (c.frames.h4.trend # TrendOf(d) /\ c.frames.h4.trend \notin {"RANGE", "UNKNOWN"}) =>
         score <= 85 /\ (e.sweep = "NONE" => score <= 75)
  BY <1>2, <1>6, <1>11, <1>12
<1> QED
  BY <1>11, <1>13 DEF score
-----------------------------------------------------------------------------
(* The thesis *)

\* With every timeframe the same way, the four hours are too.
LEMMA StackedIs ==
  ASSUME NEW c, FullyStacked(c)
  PROVE  c.frames.h4.trend \in {"BULLISH", "BEARISH"}
<1> DEFINE a == Cardinality(Following(c, "BULLISH"))
           b == Cardinality(Following(c, "BEARISH"))
           all == Cardinality(FrameNames)
<1>1. \A u : Following(c, u) \in SUBSET FrameNames
  BY DEF Following
<1>2. a \in Int /\ b \in Int
  BY <1>1, FramesAreFinite, FS_Subset, FS_CardinalityType
<1>3. a = all \/ b = all
  <2>1. {Cardinality(Following(c, u)) : u \in {"BULLISH", "BEARISH"}} = {a, b}
    OBVIOUS
  <2>2. Max({a, b}) = all
    BY <2>1 DEF FullyStacked, AlignedCount
  <2> HIDE DEF a, b, all
  <2>3. Max({a, b}) = IF a >= b THEN a ELSE b
    BY <1>2, MaxOfTwoIs
  <2> QED
    BY <2>2, <2>3
<1>4. Following(c, "BULLISH") = FrameNames \/ Following(c, "BEARISH") = FrameNames
  BY <1>1, <1>3, FramesAreFinite, FS_Subset
<1>5. "h4" \in FrameNames
  BY DEF FrameNames
<1> QED
  BY <1>4, <1>5 DEF Following

\* A thesis with a direction has the four hours with it or against it, and one they
\* are with is a continuation.
LEMMA ThesisIs ==
  ASSUME NEW c, Directional(ThesisOf(c))
  PROVE  /\ c.frames.h4.trend \in {"BULLISH", "BEARISH"}
         /\ \A d \in Ways : (Endorses(ThesisOf(c), d) /\ c.frames.h4.trend = TrendOf(d)) =>
              ThesisOf(c) = (IF d = "LONG" THEN "BULLISH_CONTINUATION" ELSE "BEARISH_CONTINUATION")
<1>1. CASE FullyStacked(c) /\ c.bias.final # "NEUTRAL"
  <2>1. ThesisOf(c) \in {"BULLISH_CONTINUATION", "BEARISH_CONTINUATION"}
    BY <1>1 DEF ThesisOf
  <2>2. c.frames.h4.trend \in {"BULLISH", "BEARISH"}
    BY <1>1, StackedIs
  <2> QED
    BY <2>1, <2>2 DEF Endorses, Ways
<1>2. CASE ~(FullyStacked(c) /\ c.bias.final # "NEUTRAL")
  <2> DEFINE t == ThesisOf(c)
             h4 == c.frames.h4.trend
  <2>1. \/ h4 = "BULLISH" /\ t \in {"BEARISH_REVERSAL", "BULLISH_CONTINUATION", "TRANSITION"}
        \/ h4 = "BEARISH" /\ t \in {"BULLISH_REVERSAL", "BEARISH_CONTINUATION", "TRANSITION"}
        \/ t \in {"RANGE", "TRANSITION", "NO_CLEAR_THESIS"}
    BY <1>2 DEF ThesisOf
  <2>2. t \notin {"RANGE", "TRANSITION", "NO_CLEAR_THESIS"}
    BY DEF Directional, Endorses
  <2> HIDE DEF t
  <2>3. h4 \in {"BULLISH", "BEARISH"}
    BY <2>1, <2>2
  <2>4. \A d \in Ways : (Endorses(t, d) /\ h4 = TrendOf(d)) =>
          t = (IF d = "LONG" THEN "BULLISH_CONTINUATION" ELSE "BEARISH_CONTINUATION")
    BY <2>1, <2>2 DEF Endorses, TrendOf, Ways
  <2> QED
    BY <2>3, <2>4 DEF t
<1> QED
  BY <1>1, <1>2
-----------------------------------------------------------------------------
(* Entries *)

\* The weights as configured: the most that a reversal against the four hours can
\* score, given the weight of a range, and anything else against them, given that of
\* a counter trade, round to less than an entry needs.
AsConfigured ==
  /\ 85 * RangeWeight + 50 < 100 * MinScore
  /\ 75 * CounterWeight + 50 < 100 * MinScore

LEMMA WeightsAre == MinScore \in Nat /\ RangeWeight \in Nat /\ CounterWeight \in Nat
<1>1. \A x \in 0..100 : x \in Nat
  OBVIOUS
<1> QED
  BY <1>1, ScenarioAssumption

LEMMA WeighsLess ==
  ASSUME NEW s \in Int, NEW most \in Nat, s <= most, NEW w \in Nat, NEW least \in Nat,
         (s * w + 50) \div 100 >= least
  PROVE  most * w + 50 >= 100 * least
<1>1. s * w \in Int /\ most * w \in Int /\ s * w <= most * w
  <2>1. \A x \in Nat : x * w \in Nat
    OBVIOUS
  <2>2. (most - s) * w \in Nat
    BY <2>1
  <2>3. (most - s) * w = most * w - s * w
    OBVIOUS
  <2>4. s * w \in Int /\ most * w \in Int
    OBVIOUS
  <2> QED
    BY <2>2, <2>3, <2>4
<1> DEFINE p == s * w
           m == most * w
<1> HIDE DEF p, m
<1>2. p \in Int /\ m \in Int /\ p <= m /\ (p + 50) \div 100 >= least
  BY <1>1 DEF p, m
<1>3. m + 50 >= 100 * least
  BY <1>2
<1> QED
  BY <1>3 DEF m

\* What the agent enters of a typed chart.
LEMMA EntriesAre ==
  ASSUME AsConfigured, NEW c, c.scene.price \in Nat, c.scene.atr \in Nat,
         c.scene.zones \in Seq(ZoneRecord), c.scene.pools \in Seq(PoolRecord)
  PROVE  /\ Cardinality(ChoiceFor(c).entries) <= 1
         /\ \A e \in ChoiceFor(c).entries :
              /\ c.frames.h4.trend = TrendOf(e.side)
              /\ ChoiceFor(c).thesis =
                   (IF e.side = "LONG" THEN "BULLISH_CONTINUATION" ELSE "BEARISH_CONTINUATION")
              /\ e.plan # NoTrade =>
                   IF e.side = "LONG" THEN e.plan.stop < e.plan.low ELSE e.plan.stop > e.plan.high
<1> DEFINE x == ContextOf(c)
           t == ThesisOf(x)
           plans == ScenariosOf(x, t)
           entered == Entered(x, t, plans)
           entry(d) == [side |-> d, plan |-> PlanFor(plans, d)]
<1>1. ContextIs(x) /\ Confidence(x, t) \in Int
  BY ContextMade
<1>2. x.frames = c.frames
  BY DEF ContextOf
<1>3. ChoiceFor(c).thesis = t /\ ChoiceFor(c).entries = {entry(d) : d \in entered}
  BY DEF ChoiceFor, OnContext, OnThesis, Decision
<1> HIDE DEF x, t, plans
<1>4. ASSUME NEW d \in entered
      PROVE  /\ d \in Ways /\ Directional(t) /\ Endorses(t, d)
             /\ x.finds[d].structure # "NONE"
             /\ Effective(x, t, plans, x.finds[d], d) >= MinScore
  BY DEF Entered, ReadySetups, StructureConfirmed, Qualifies
<1>5. ASSUME NEW d \in entered PROVE x.frames.h4.trend = TrendOf(d)
  <2> DEFINE e == x.finds[d]
             rr == RatioOf(PlanFor(plans, d))
             score == HierarchicalScore(x, t, e, d, rr)
             weight == AlignmentWeight(x, e, d)
  <2>1. SUFFICES ASSUME x.frames.h4.trend # TrendOf(d) PROVE FALSE
    OBVIOUS
  <2>2. x.frames.h4.trend \in {"BULLISH", "BEARISH"}
    BY <1>4, ThesisIs DEF t
  <2>3. /\ score \in Int /\ score <= 85
        /\ e.sweep = "NONE" => score <= 75
    BY <1>1, <1>4, <2>1, <2>2, ScoreIs
  <2>4. (score * weight + 50) \div 100 >= MinScore
    BY <1>4 DEF Effective, ScoreFor
  <2>5. MinScore \in Nat /\ RangeWeight \in Nat /\ CounterWeight \in Nat
    BY WeightsAre
  <2>6. weight = IF Reversal(e) THEN RangeWeight ELSE CounterWeight
    BY <2>1, <2>2 DEF AlignmentWeight
  <2> HIDE DEF score, weight
  <2>7. CASE e.sweep = "NONE"
    <3>1. weight = CounterWeight /\ score <= 75
      BY <2>3, <2>6, <2>7 DEF Reversal
    <3>2. 75 * CounterWeight + 50 >= 100 * MinScore
      BY <2>3, <2>4, <2>5, <3>1, WeighsLess
    <3> QED
      BY <2>5, <3>2 DEF AsConfigured
  <2>8. CASE e.sweep # "NONE"
    <3>1. weight = RangeWeight
      BY <1>4, <2>6, <2>8 DEF Reversal
    <3>2. 85 * RangeWeight + 50 >= 100 * MinScore
      BY <2>3, <2>4, <2>5, <3>1, WeighsLess
    <3> QED
      BY <2>5, <3>2 DEF AsConfigured
  <2> QED
    BY <2>7, <2>8
<1>6. ASSUME NEW d \in entered
      PROVE  t = (IF d = "LONG" THEN "BULLISH_CONTINUATION" ELSE "BEARISH_CONTINUATION")
  BY <1>4, <1>5, ThesisIs DEF t
<1>7. ASSUME NEW d \in entered, PlanFor(plans, d) # NoTrade
      PROVE  IF d = "LONG" THEN PlanFor(plans, d).stop < PlanFor(plans, d).low
             ELSE PlanFor(plans, d).stop > PlanFor(plans, d).high
  <2>1. \A s \in plans : WellMade(s)
    BY <1>1, <1>4, ScenariosAre DEF plans
  <2>2. WellMade(PlanFor(plans, d)) /\ PlanFor(plans, d).side = d
    BY <1>7, <2>1, PlanIs
  <2>3. d \in Ways
    BY <1>4
  <2> QED
    BY <2>2, <2>3 DEF WellMade, Ways
<1>8. Cardinality(ChoiceFor(c).entries) <= 1
  <2>1. CASE entered = {}
    <3>1. ChoiceFor(c).entries = {}
      BY <1>3, <2>1
    <3> QED
      BY <3>1, FS_EmptySet
  <2>2. CASE entered # {}
    <3>1. PICK d \in entered : TRUE
      BY <2>2
    <3>2. \A f \in entered : f = d
      BY <1>4, <1>6, <3>1 DEF Ways
    <3>3. ChoiceFor(c).entries = {entry(d)}
      BY <1>3, <3>1, <3>2
    <3>4. Cardinality({entry(d)}) = 1
      BY FS_Singleton
    <3> QED
      BY <3>3, <3>4
  <2> QED
    BY <2>1, <2>2
<1>9. ASSUME NEW e \in ChoiceFor(c).entries
      PROVE  /\ c.frames.h4.trend = TrendOf(e.side)
             /\ ChoiceFor(c).thesis =
                  (IF e.side = "LONG" THEN "BULLISH_CONTINUATION" ELSE "BEARISH_CONTINUATION")
             /\ e.plan # NoTrade =>
                  IF e.side = "LONG" THEN e.plan.stop < e.plan.low ELSE e.plan.stop > e.plan.high
  <2>1. PICK d \in entered : e = entry(d)
    BY <1>3
  <2>2. e.side = d /\ e.plan = PlanFor(plans, d)
    BY <2>1
  <2> HIDE DEF entered, entry
  <2> QED
    BY <1>2, <1>3, <1>5, <1>6, <1>7, <2>2
<1> QED
  BY <1>8, <1>9

\* The chart is one of those there are, and the choice, once made, is of that chart.
AnalysisInv ==
  /\ chart \in [frames : Markets, scene : Scenes, finds : Findings] /\ Coherent(chart)
  /\ choice = Undecided \/ choice = ChoiceFor(chart)

LEMMA AnalysisStarts == AnalysisInit => AnalysisInv
BY DEF AnalysisInit, AnalysisInv

LEMMA AnalysisKept == AnalysisInv /\ [AnalysisNext]_analysisVars => AnalysisInv'
<1> SUFFICES ASSUME AnalysisInv, [AnalysisNext]_analysisVars PROVE AnalysisInv'
  OBVIOUS
<1>1. ASSUME NEW c \in [frames : Markets, scene : Scenes, finds : Findings], Changes(c)
      PROVE  AnalysisInv'
  <2>1. chart' = c /\ Coherent(c) /\ choice' = Undecided
    BY <1>1 DEF Changes
  <2>2. Coherent(chart)'
    BY <2>1 DEF Coherent, Ways, TrendOf
  <2> QED
    BY <2>1, <2>2 DEF AnalysisInv
<1>2. CASE StructureTurns
  <2>1. PICK m \in Markets, f \in Findings : Changes([chart EXCEPT !.frames = m, !.finds = f])
    BY <1>2 DEF StructureTurns
  <2>2. [chart EXCEPT !.frames = m, !.finds = f] \in [frames : Markets, scene : Scenes, finds : Findings]
    BY DEF AnalysisInv
  <2> QED
    BY <1>1, <2>1, <2>2
<1>3. CASE SceneShifts
  <2>1. PICK s \in Scenes : Changes([chart EXCEPT !.scene = s])
    BY <1>3 DEF SceneShifts
  <2>2. [chart EXCEPT !.scene = s] \in [frames : Markets, scene : Scenes, finds : Findings]
    BY DEF AnalysisInv
  <2> QED
    BY <1>1, <2>1, <2>2
<1>4. CASE EvidenceShows
  <2>1. PICK f \in Findings : Changes([chart EXCEPT !.finds = f])
    BY <1>4 DEF EvidenceShows
  <2>2. [chart EXCEPT !.finds = f] \in [frames : Markets, scene : Scenes, finds : Findings]
    BY DEF AnalysisInv
  <2> QED
    BY <1>1, <2>1, <2>2
<1>5. CASE RunAnalysis
  <2>1. chart' = chart /\ choice' = ChoiceFor(chart)
    BY <1>5 DEF RunAnalysis
  <2>2. Coherent(chart)'
    BY <2>1 DEF AnalysisInv, Coherent, Ways, TrendOf
  <2>3. choice' = ChoiceFor(chart')
    BY <2>1
  <2> QED
    BY <2>1, <2>2, <2>3 DEF AnalysisInv
<1>6. CASE UNCHANGED analysisVars
  <2>1. chart' = chart /\ choice' = choice
    BY <1>6 DEF analysisVars
  <2>2. Coherent(chart)' /\ (choice' = Undecided \/ choice' = ChoiceFor(chart'))
    BY <2>1 DEF AnalysisInv, Coherent, Ways, TrendOf
  <2> QED
    BY <2>1, <2>2 DEF AnalysisInv
<1> QED
  BY <1>2, <1>3, <1>4, <1>5, <1>6 DEF AnalysisNext

LEMMA AnalysisTyped == AnalysisInv => AnalysisTypeOK
<1> SUFFICES ASSUME AnalysisInv, choice # Undecided
             PROVE  /\ choice.execution \in {"EXECUTE", "READY", "WAIT"}
                    /\ \A e \in choice.entries : e.side \in Ways
  BY DEF AnalysisInv, AnalysisTypeOK
<1> DEFINE x == ContextOf(chart)
           t == ThesisOf(x)
           plans == ScenariosOf(x, t)
<1>1. choice = Decision(x, t, plans)
  BY DEF AnalysisInv, ChoiceFor, OnContext, OnThesis
<1> HIDE DEF x, t, plans
<1>2. choice.execution \in {"EXECUTE", "READY", "WAIT"}
  BY <1>1 DEF Decision, ExecutionState
<1>3. \A e \in choice.entries : e.side \in Ways
  BY <1>1 DEF Decision, Entered, ReadySetups
<1> QED
  BY <1>2, <1>3

\* The analysis keeps its types: the chart is coherent, and what was chosen is an
\* execution state with entries of the two ways.
THEOREM AnalysisTypeCorrect == AnalysisSpec => []AnalysisTypeOK
<1>1. AnalysisInit => AnalysisInv
  BY AnalysisStarts
<1>2. AnalysisInv /\ [AnalysisNext]_analysisVars => AnalysisInv'
  BY AnalysisKept
<1>3. AnalysisInv => AnalysisTypeOK
  BY AnalysisTyped
<1> QED
  BY <1>1, <1>2, <1>3, PTL DEF AnalysisSpec

\* Whatever the timeframes, zones, pools and evidence may be, with weights under
\* which what a setup against the four hours can score is not enough (those the
\* repository configures are such) the agent of runCycle enters only with the four
\* hours, on a continuation, in one direction, and with its stop beyond its zone.
THEOREM TrendKept ==
  ASSUME AsConfigured
  PROVE  AnalysisSpec => []EntriesKeepToTheTrend
<1>1. AnalysisInv => EntriesKeepToTheTrend
  <2> SUFFICES ASSUME AnalysisInv, choice # Undecided PROVE EntriesKeepToTheTrend
    BY DEF EntriesKeepToTheTrend
  <2>1. choice = ChoiceFor(chart)
    BY DEF AnalysisInv
  <2>2. /\ chart.scene.price \in Nat /\ chart.scene.atr \in Nat
        /\ chart.scene.zones \in Seq(ZoneRecord) /\ chart.scene.pools \in Seq(PoolRecord)
    <3>1. chart.scene \in Scenes
      BY DEF AnalysisInv
    <3> QED
      BY <3>1, ScenarioAssumption
  <2> QED
    BY <2>1, <2>2, EntriesAre DEF EntriesKeepToTheTrend
<1>2. AnalysisInit => AnalysisInv
  BY AnalysisStarts
<1>3. AnalysisInv /\ [AnalysisNext]_analysisVars => AnalysisInv'
  BY AnalysisKept
<1> QED
  BY <1>1, <1>2, <1>3, PTL DEF AnalysisSpec
=============================================================================
