-------------------------------- MODULE Debate --------------------------------
(***************************************************************************)
(* TradingAgentsPipeline: analyst, bull and bear, judge and trader are     *)
(* models that answer, fail, and are asked again; the risk personas and    *)
(* the fund manager are rules.  It runs as a cycle that may approve an     *)
(* entry (smc-agent) or as a consultation that may veto one (the agent).   *)
(*                                                                         *)
(* What the models argue is left out; what the trader proposes is any      *)
(* proposal its schema lets through.  Confidence and size are percent.     *)
(*                                                                         *)
(* A definition with an underscore in its name is a plausible slip in the  *)
(* definition it is named after: no action uses it.                        *)
(***************************************************************************)
EXTENDS Integers, FiniteSetsExt

CONSTANTS
  Rounds,               \* debateRounds
  OtherModel,           \* researchers are asked on a cloud model first
  Tools,                \* tools the analyst stage always pulls
  Personas,
  Ceiling,              \* personaCeilings: [leverage, size, confidence] of each
  MinApproval,          \* minApprovalConfidence
  Facts,                \* market and account as read for a debate: price, equity, available
  Proposals             \* TraderDecision: action, leverage, size, stop, confidence

Directions == {"LONG", "SHORT"}
\* stopLoss undefined; a null of the model is coerced to a stop of 0.
NoStop == -1

ASSUME DebateAssumption ==
  /\ Rounds \in Nat /\ OtherModel \in BOOLEAN /\ Tools \in Nat /\ MinApproval \in Nat
  /\ Personas # {}
  /\ Ceiling \in [Personas -> [leverage: Nat \ {0}, size: Nat, confidence: Nat]]
  /\ Facts \subseteq [price: Nat \ {0}, equity: Nat, available: Int]
  /\ Proposals \subseteq [action: Directions \union {"NEUTRAL"}, leverage: 1..20, size: 0..25,
                         stop: Nat \union {NoStop}, confidence: 0..100]

VARIABLES
  debate,               \* where it is, and what it was started with
  outcome               \* what its caller got of the last one

debateVars == <<debate, outcome>>

Neutral == [action |-> "NEUTRAL", leverage |-> 1, size |-> 0, stop |-> NoStop,
            confidence |-> 0]
Nothing == [approved |-> FALSE, vetoed |-> FALSE, final |-> Neutral]

DebateInit ==
  /\ debate = [pc |-> "idle"]
  /\ outcome = Nothing
-----------------------------------------------------------------------------
(* Rules *)

\* evaluateRiskPersona: why it rejects a directional proposal.
WrongSide(p, price) ==
  p.stop # NoStop /\ (IF p.action = "LONG" THEN p.stop >= price ELSE p.stop <= price)
Rejects(who, p, f) ==
  \/ p.confidence < Ceiling[who].confidence
  \/ p.stop = NoStop
  \/ WrongSide(p, f.price)

\* The leverage and the size it lets through.
AllowedLeverage(who, p) == Min({p.leverage, Ceiling[who].leverage})
AllowedSize(who, p, f) ==
  LET capped == Min({p.size, Ceiling[who].size})
  IN  IF f.equity > 0 /\ f.available > 0 /\ f.equity * capped > 100 * f.available
      THEN (100 * f.available) \div f.equity ELSE capped

\* A rejection carries no numbers.
Surviving(p, f) == {who \in Personas : ~Rejects(who, p, f)}
Reduced(p, f) ==
  IF Surviving(p, f) = {} THEN p
  ELSE [p EXCEPT !.leverage = Min({AllowedLeverage(who, p) : who \in Surviving(p, f)}),
                 !.size = Min({AllowedSize(who, p, f) : who \in Surviving(p, f)})]

FundManager_Majority(p, f) ==
  [approved |->
     /\ p.action # "NEUTRAL"
     /\ Cardinality(Surviving(p, f)) * 2 > Cardinality(Personas)
     /\ p.confidence >= MinApproval
     /\ Reduced(p, f).size > 0,
   vetoed |-> FALSE, final |-> Reduced(p, f)]
\* runRiskTeam, runFundManager: any rejection blocks, the smallest numbers win.
FundManager(p, f) ==
  [approved |->
     /\ p.action # "NEUTRAL"
     /\ Surviving(p, f) = Personas
     /\ p.confidence >= MinApproval
     /\ Reduced(p, f).size > 0,
   vetoed |-> FALSE, final |-> Reduced(p, f)]

Veto_Degraded(p, side, fell) ==
  [approved |-> FALSE, vetoed |-> p.action # side, final |-> p]
\* runVetoConsultation, and probeEntryConfidence's use of it.
Veto(p, side, fell) ==
  [approved |-> FALSE, vetoed |-> fell = {} /\ p.action # side, final |-> p]
-----------------------------------------------------------------------------
(* Stages *)

\* runCycle, or runVetoConsultation for an entry on a side.
Begin(f, side) ==
  /\ debate.pc = "idle"
  /\ debate' = [pc |-> "analyst", facts |-> f, side |-> side, tool |-> 1, round |-> 1,
                again |-> FALSE, fell |-> {}]
  /\ outcome' = Nothing

\* runToolsLoop: a tool answers, fails, or its deadline passes; past the loop's own
\* no other is asked.
ToolDone(late) ==
  /\ debate.pc = "analyst" /\ debate.tool <= Tools
  /\ debate' = [debate EXCEPT !.tool = IF late THEN Tools + 1 ELSE @ + 1]
  /\ UNCHANGED outcome

Prompted == debate.pc = "analyst" => debate.tool > Tools

\* What follows a stage; runDebate has at least one round.
Onward(d) ==
  CASE d.pc = "analyst" -> [d EXCEPT !.pc = "bull", !.again = FALSE]
    [] d.pc = "bull" -> [d EXCEPT !.pc = "bear", !.again = FALSE]
    [] d.pc = "bear" /\ d.round < Rounds ->
         [d EXCEPT !.pc = "bull", !.round = @ + 1, !.again = FALSE]
    [] d.pc = "bear" /\ d.round >= Rounds -> [d EXCEPT !.pc = "judge", !.again = FALSE]
    [] d.pc = "judge" -> [d EXCEPT !.pc = "trader", !.again = FALSE]

Answers ==
  /\ debate.pc \in {"analyst", "bull", "bear", "judge"} /\ Prompted
  /\ debate' = Onward(debate)
  /\ UNCHANGED outcome

\* generateSchemaWithFallback asks a second time for plain JSON, generateProse on
\* the local model, if it is another.
AskedTwice == debate.pc \in {"analyst", "judge", "trader"} \/ OtherModel

CallFails ==
  /\ debate.pc # "idle" /\ Prompted /\ AskedTwice /\ ~debate.again
  /\ debate' = [debate EXCEPT !.again = TRUE]
  /\ UNCHANGED outcome

OutOfCalls == debate.pc # "idle" /\ Prompted /\ (debate.again \/ ~AskedTwice)

\* The stage is emitted as failed and a stand-in takes its place.
FallsBack ==
  /\ OutOfCalls /\ debate.pc # "trader"
  /\ debate' = Onward([debate EXCEPT !.fell = @ \union {debate.pc}])
  /\ UNCHANGED outcome

Concludes(p, fell) ==
  /\ debate' = [pc |-> "idle"]
  /\ outcome' = IF debate.side = "none" THEN FundManager(p, debate.facts)
                ELSE Veto(p, debate.side, fell)

TraderDecides(p) ==
  /\ debate.pc = "trader"
  /\ Concludes(p, debate.fell)

TraderFallsBack ==
  /\ OutOfCalls /\ debate.pc = "trader"
  /\ Concludes(Neutral, debate.fell \union {"trader"})

\* A step's listener throws (its event cannot be stored): nothing is approved, and
\* nothing vetoed.
Throws ==
  /\ debate.pc # "idle"
  /\ debate' = [pc |-> "idle"]
  /\ outcome' = Nothing

DebateNext ==
  \/ \E f \in Facts, side \in Directions \union {"none"} : Begin(f, side)
  \/ \E late \in BOOLEAN : ToolDone(late)
  \/ Answers \/ CallFails \/ FallsBack
  \/ \E p \in Proposals : TraderDecides(p)
  \/ TraderFallsBack \/ Throws

DebateSpec == DebateInit /\ [][DebateNext]_debateVars
-----------------------------------------------------------------------------
(* Properties *)

\* The state has its type.
DebateTypeOK ==
  /\ debate.pc \in {"idle", "analyst", "bull", "bear", "judge", "trader"}
  /\ debate.pc # "idle" =>
       /\ debate.facts \in Facts /\ debate.side \in Directions \union {"none"}
       /\ debate.tool \in 1..(Tools + 1) /\ debate.round \in 1..Max({1, Rounds})
       /\ debate.again \in BOOLEAN
       /\ debate.fell \subseteq {"analyst", "bull", "bear", "judge"}
  /\ outcome.approved \in BOOLEAN /\ outcome.vetoed \in BOOLEAN
  /\ ~(outcome.approved /\ outcome.vetoed)

\* A size that every persona's ceiling allows, and the free margin too.  Of an account
\* that is worth nothing or has no margin left, nobody asks what it can afford.
Affordable(size, f) == f.equity > 0 /\ f.available > 0 => f.equity * size <= 100 * f.available
Allowed(size, f) == Affordable(size, f) /\ \A who \in Personas : size <= Ceiling[who].size

\* What d is of proposal p: the same but for its leverage and its size, and of its size as
\* much as is allowed.  A stop may be the 0 that a null of the model became.
WithinLimits(p, d, f) ==
  /\ d.action = p.action /\ d.confidence = p.confidence /\ d.stop = p.stop
  /\ d.confidence >= MinApproval
  /\ \A who \in Personas : /\ d.confidence >= Ceiling[who].confidence
                           /\ d.leverage <= Ceiling[who].leverage
  /\ d.leverage <= p.leverage
  /\ d.size \in 1..p.size /\ Allowed(d.size, f)
  /\ \A more \in d.size + 1 .. p.size : ~Allowed(more, f)
  /\ IF d.action = "LONG" THEN d.stop \in 0..f.price - 1 ELSE d.stop > f.price

\* Models advise (CONTRACTS.md, section 5).  However they answer and whichever of
\* them fail, what is approved is what the trader proposed, cut to what every persona
\* and the free margin allow, if there is any, and no further, with a stop on the losing
\* side of the price the debate was given; and an entry is vetoed by a debate in which
\* every model spoke, or not at all.
ModelsOnlyAdvise ==
  [][debate.pc # "idle" /\ debate'.pc = "idle" =>
       /\ outcome'.approved => \E p \in Proposals : WithinLimits(p, outcome'.final, debate.facts)
       /\ outcome'.vetoed =>
            /\ debate.fell = {} /\ outcome'.final \in Proposals
            /\ debate.side # "none" /\ outcome'.final.action # debate.side]_debateVars
=============================================================================
