----------------------------- MODULE Execution -----------------------------
(* Where an order goes (ExecutionRouter), what may stop it                  *)
(* (LiveTradingGuard) and what checks afterwards that both sides agree      *)
(* (ExchangeReconciler), with the part of CoinDCXBroker that reads the      *)
(* venue before it writes to it. One instrument; a request to the venue is  *)
(* a step of its own, so that other submissions, reports and operator       *)
(* commands fall between it and its answer.                                 *)
EXTENDS Integers

CONSTANTS
  Callers,          \* submissions that may be under way at once
  Runs,             \* reconciliations that may be under way at once
  MaxQty,           \* the largest position the venue grants
  PaperQuantities,  \* positions the paper broker may hold
  Commands          \* the orders callers submit

Kinds == {"entry", "exit", "bracket"}
Modes == {"paper", "live"}
Triggers == {"STARTUP", "RECONNECT", "MANUAL"}

\* qty is signed: positive buys. A bracket's quantity is never read.
Command == [kind: Kinds, qty: Int]

ASSUME CommandsAssumption == Commands \subseteq Command
ASSUME QuantityAssumption == /\ MaxQty \in Nat
                             /\ PaperQuantities \subseteq Int /\ 0 \in PaperQuantities

VARIABLES
  mode,        \* profile.mode; shadow routes as paper does
  armed,       \* profile.liveArmed and realOrders, always assigned together
  adapter,     \* the router has a CoinDCXBroker
  safeMode,    \* LiveTradingGuard.safeMode
  lastReport,  \* ExchangeReconciler.lastReport?.ok
  started,     \* startEngine is past the startup reconciliation
  calls,       \* the running submission of each caller
  runs,        \* the running reconciliations
  paper,       \* quantity the paper broker holds
  venue        \* quantity the venue holds

profile == <<mode, armed, adapter>>
control == <<safeMode, lastReport, started>>
vars == <<profile, control, calls, runs, paper, venue>>

Abs(n) == IF n < 0 THEN -n ELSE n
Quantities == -MaxQty .. MaxQty

NoCommand == [kind |-> "entry", qty |-> 0]

\* step: a read or a write under way at the venue, or a position that was found
\* (its size) and will be acted on. answer: the accountId of the last Order.
Call == [step: {"idle", "read", "found", "write"}, cmd: Commands \cup {NoCommand},
         size: 0..MaxQty, answer: {"none", "router-guard", "paper-main", "coindcx-live"}]

\* The caller has its answer, or an exception ("none").
Answered(answer) ==
  [step |-> "idle", cmd |-> NoCommand, size |-> 0, answer |-> answer]

\* clean: whether the venue's answer, on its way back, equals the local read.
Run == [step: {"idle", "reading", "answered"}, trigger: Triggers,
        local: PaperQuantities, clean: BOOLEAN]
NoRun == [step |-> "idle", trigger |-> "MANUAL", local |-> 0, clean |-> FALSE]
-----------------------------------------------------------------------------
(* A process starts: runtime profile, guard, adapter, router and reconciler *)

\* The adapter is built when the profile is armed and there are credentials,
\* the reconciler only with an adapter: without one no startup run is due.
Init ==
  /\ mode \in Modes /\ armed \in BOOLEAN /\ adapter \in BOOLEAN
  /\ armed => mode = "live"
  /\ adapter => armed
  /\ safeMode = FALSE
  /\ lastReport = "none"
  /\ started = ~adapter
  /\ calls = [c \in Callers |-> Answered("none")]
  /\ runs = [r \in Runs |-> NoRun]
  /\ paper \in PaperQuantities
  /\ venue \in Quantities

\* Nothing of the above survives, the account and the venue do. The operator
\* may have changed the environment. A request under way is executed before
\* this step or lost.
Restart ==
  /\ mode' \in Modes /\ armed' \in BOOLEAN /\ adapter' \in BOOLEAN
  /\ armed' => mode' = "live"
  /\ adapter' => armed'
  /\ safeMode' = FALSE
  /\ lastReport' = "none"
  /\ started' = ~adapter'
  /\ calls' = [c \in Callers |-> Answered("none")]
  /\ runs' = [r \in Runs |-> NoRun]
  /\ UNCHANGED <<paper, venue>>
-----------------------------------------------------------------------------
(* ExecutionRouter.submitOrder *)

WantsRealOrders == mode = "live" /\ armed
MissingLiveAdapter == WantsRealOrders /\ ~adapter

\* LiveTradingGuard.canExecute
CanExecute == ~safeMode /\ (mode = "live" => armed)

\* An armed profile without an adapter falls through to getActiveBroker.
Destination_FallsThrough ==
  IF ~CanExecute THEN "router"
  ELSE IF WantsRealOrders /\ adapter THEN "venue" ELSE "paper"

\* Everything up to here is one synchronous stretch of code.
Destination ==
  IF MissingLiveAdapter \/ ~CanExecute THEN "router"
  ELSE IF WantsRealOrders THEN "venue" ELSE "paper"

Reject(c) ==
  /\ calls[c].step = "idle"
  /\ Destination = "router"
  /\ calls' = [calls EXCEPT ![c] = Answered("router-guard")]
  /\ UNCHANGED <<profile, control, runs, paper, venue>>

\* What the order does there is PaperBroker's matter.
SubmitToPaper(c) ==
  /\ calls[c].step = "idle"
  /\ Destination = "paper"
  /\ paper' \in PaperQuantities
  /\ calls' = [calls EXCEPT ![c] = Answered("paper-main")]
  /\ UNCHANGED <<profile, control, runs, venue>>

\* Every order asks for the position first.
FirstRequest_AlwaysReads(cmd) == "read"

\* CoinDCXBroker.submitOrder: an entry is sent at once, anything reduce-only
\* asks for the venue's position first. (Orders it rejects for their type or a
\* missing price change nothing.)
FirstRequest(cmd) == IF cmd.kind = "entry" THEN "write" ELSE "read"

SubmitToVenue(c, cmd) ==
  /\ calls[c].step = "idle"
  /\ Destination = "venue"
  /\ calls' = [calls EXCEPT ![c] = [step |-> FirstRequest(cmd), cmd |-> cmd,
                                    size |-> 0, answer |-> "none"]]
  /\ UNCHANGED <<profile, control, runs, paper, venue>>

\* The size keeps its sign.
SizesSeen_Signed == {venue, 0}

\* The sizes the adapter may take the venue's answer for: an answer that is not
\* a list counts as no position, and the side is dropped.
SizesSeen == {Abs(venue), 0}

FindPosition(c) ==
  /\ calls[c].step = "read"
  /\ \E size \in SizesSeen :
       calls' = [calls EXCEPT ![c].step = "found", ![c].size = size]
  /\ UNCHANGED <<profile, control, runs, paper, venue>>

\* Neither the guard nor the profile is asked again.
ActOnPosition(c) ==
  LET call == calls[c]
      rejected == \/ call.size = 0
                  \/ call.cmd.kind = "exit" /\ Abs(call.cmd.qty) < call.size
  IN  /\ call.step = "found"
      /\ calls' = [calls EXCEPT ![c] = IF rejected THEN Answered("coindcx-live")
                                       ELSE [@ EXCEPT !.step = "write"]]
      /\ UNCHANGED <<profile, control, runs, paper, venue>>

\* An exit is an order on the other side.
Executed_PlainOrder(cmd) ==
  IF cmd.kind = "bracket" THEN venue ELSE venue + cmd.qty

\* The venue's position after a request: createOrder, exitPosition, which closes
\* whatever is there, or createTPSL, whose trigger is a VenueCloses.
Executed(cmd) ==
  CASE cmd.kind = "entry"   -> venue + cmd.qty
    [] cmd.kind = "exit"    -> 0
    [] cmd.kind = "bracket" -> venue

\* The answer may get lost on its way back, which throws in the caller.
VenueExecutes(c) ==
  /\ calls[c].step = "write"
  /\ Executed(calls[c].cmd) \in Quantities
  /\ venue' = Executed(calls[c].cmd)
  /\ \E answer \in {"coindcx-live", "none"} :
       calls' = [calls EXCEPT ![c] = Answered(answer)]
  /\ UNCHANGED <<profile, control, runs, paper>>

\* The request is lost or refused, which throws as well.
RequestFails(c) ==
  /\ calls[c].step \in {"read", "write"}
  /\ calls' = [calls EXCEPT ![c] = Answered("none")]
  /\ UNCHANGED <<profile, control, runs, paper, venue>>
-----------------------------------------------------------------------------
(* ExchangeReconciler *)

\* The request is sent and the local position is read in the same step. The
\* startup run is made once, a reconnect or an operator may call at any time.
StartRun(r, trigger) ==
  /\ adapter
  /\ runs[r].step = "idle"
  /\ trigger = "STARTUP" =>
       /\ ~started
       /\ \A s \in Runs : runs[s].step = "idle" \/ runs[s].trigger # "STARTUP"
  /\ runs' = [runs EXCEPT ![r] = [step |-> "reading", trigger |-> trigger,
                                  local |-> paper, clean |-> FALSE]]
  /\ UNCHANGED <<profile, control, calls, paper, venue>>

VenueReports(r) ==
  /\ runs[r].step = "reading"
  /\ \E size \in SizesSeen :
       runs' = [runs EXCEPT ![r].step = "answered", ![r].clean = (size = runs[r].local)]
  /\ UNCHANGED <<profile, control, calls, paper, venue>>

\* Any clean report clears it.
Resumes_Always(run) == run.clean

\* reconcileAndResume clears safe mode right after its own clean report (the
\* continuation of an await on a promise that is already resolved).
Resumes(run) == run.clean /\ run.trigger = "MANUAL"

Report(r, ok) ==
  /\ lastReport' = IF ok THEN "ok" ELSE "bad"
  /\ started' = (started \/ runs[r].trigger = "STARTUP")
  /\ runs' = [runs EXCEPT ![r] = NoRun]
  /\ UNCHANGED <<profile, calls, paper, venue>>

FinishRun(r) ==
  /\ runs[r].step = "answered"
  /\ safeMode' = IF runs[r].clean THEN safeMode /\ ~Resumes(runs[r]) ELSE TRUE
  /\ Report(r, runs[r].clean)

\* An unreadable venue is no mismatch.
FailRun_NoTrip(r) ==
  /\ runs[r].step = "reading"
  /\ safeMode' = safeMode
  /\ Report(r, FALSE)

\* The venue cannot be read: a failure, not a pass.
FailRun(r) ==
  /\ runs[r].step = "reading"
  /\ safeMode' = TRUE
  /\ Report(r, FALSE)
-----------------------------------------------------------------------------
(* The operator, the API and the markets *)

Arm ==
  /\ mode = "live"
  /\ armed' = TRUE
  /\ UNCHANGED <<mode, adapter, control, calls, runs, paper, venue>>

Disarm ==
  /\ armed' = FALSE
  /\ UNCHANGED <<mode, adapter, control, calls, runs, paper, venue>>

\* The paper broker also fills, liquidates and is reset by itself, and POST
\* /orders hands orders to it directly, in every mode.
PaperMoves ==
  /\ paper' \in PaperQuantities
  /\ UNCHANGED <<profile, control, calls, runs, venue>>

\* A bracket triggers or the venue liquidates.
VenueCloses ==
  /\ venue' = 0
  /\ UNCHANGED <<profile, control, calls, runs, paper>>

Next ==
  \/ Restart \/ Arm \/ Disarm \/ PaperMoves \/ VenueCloses
  \/ \E c \in Callers :
       \/ Reject(c) \/ SubmitToPaper(c)
       \/ \E cmd \in Commands : SubmitToVenue(c, cmd)
       \/ FindPosition(c) \/ ActOnPosition(c) \/ VenueExecutes(c) \/ RequestFails(c)
  \/ \E r \in Runs :
       \/ \E trigger \in Triggers : StartRun(r, trigger)
       \/ VenueReports(r) \/ FinishRun(r) \/ FailRun(r)

Spec == Init /\ [][Next]_vars
-----------------------------------------------------------------------------
(* Properties *)

TypeOK ==
  /\ mode \in Modes /\ armed \in BOOLEAN /\ adapter \in BOOLEAN /\ safeMode \in BOOLEAN
  /\ lastReport \in {"none", "ok", "bad"} /\ started \in BOOLEAN
  /\ calls \in [Callers -> Call]
  /\ runs \in [Runs -> Run]
  /\ paper \in PaperQuantities /\ venue \in Quantities

\* No order the router takes in live mode is filled by the paper broker: the
\* missing-adapter check and the guard between them leave getActiveBroker no
\* way back to it, whatever the operator arms, disarms or restarts (CONTRACTS.md
\* section 6: live execution is never simulated).
LiveNeverSimulated ==
  mode = "live" => \A c \in Callers : calls[c].answer # "paper-main"

\* Once a process is past its startup reconciliation it only takes orders if
\* the last report, whichever trigger it had, was clean: an unreadable venue, a
\* late answer or an overlapping run never leaves order flow open behind a
\* report that says the two sides disagree.
OpenOnlyOnCleanReport ==
  (adapter /\ started /\ ~safeMode) => lastReport = "ok"

\* An entry is sent to the venue only while the profile is armed and the guard
\* lets orders pass, also when other submissions, disarming or a tripped guard
\* come between its submission and its request.
EntriesOnlyWhileArmed ==
  [][\A c \in Callers :
       (/\ calls[c].step # "write" /\ calls'[c].step = "write"
        /\ calls'[c].cmd.kind = "entry")
       => mode = "live" /\ armed /\ ~safeMode]_vars

\* Within the life of a process, safe mode ends with an operator's own clean run
\* and with nothing else.
OnlyOperatorResumes ==
  [][(safeMode /\ ~safeMode')
     => \/ lastReport' = "none"     \* a new process
        \/ \E r \in Runs : /\ runs[r].step = "answered" /\ runs[r].clean
                           /\ runs[r].trigger = "MANUAL"
                           /\ runs'[r].step = "idle"]_vars

\* A reduce-only order never enlarges or turns the position at the venue,
\* whatever entries, triggers and other exits came between the read it is based
\* on and its request.
ExitsNeverOpen ==
  [][\A c \in Callers :
       (calls[c].step = "write" /\ calls'[c].step = "idle" /\ calls[c].cmd.kind # "entry")
       => venue' \in {venue, 0}]_vars

\* engine.ts: the startup reconciliation "runs before the scheduler starts
\* placing anything", so that the engine "will not trade blind": an entry is
\* sent only after some report of this process.
NeverTradesBlind ==
  [][\A c \in Callers :
       (/\ calls[c].step # "write" /\ calls'[c].step = "write"
        /\ calls'[c].cmd.kind = "entry")
       => lastReport # "none"]_vars
=============================================================================
