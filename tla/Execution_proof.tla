--------------------------- MODULE Execution_proof ---------------------------
(* Proofs about Execution, for any number of submissions and runs, any       *)
(* commands and any positions.                                               *)
EXTENDS Execution, TLAPS

\* The record an ended submission leaves is well typed.
LEMMA AnsweredType ==
  ASSUME NEW a \in {"none", "router-guard", "paper-main", "coindcx-live"}
  PROVE  Answered(a) \in Call
BY QuantityAssumption DEF Answered, Call, NoCommand

\* So is the record of a run that is over.
LEMMA NoRunType == NoRun \in Run
BY QuantityAssumption DEF NoRun, Run, Triggers

\* The sizes the adapter sees fit the venue's limit, whichever side is held.
LEMMA SizesSeenType ==
  ASSUME venue \in Quantities
  PROVE  SizesSeen \subseteq 0..MaxQty
BY QuantityAssumption DEF SizesSeen, Quantities, Abs

-----------------------------------------------------------------------------
(* Type correctness *)

\* A well-typed state stays well typed, one step per action.
LEMMA TypeStep == TypeOK /\ [Next]_vars => TypeOK'
<1> SUFFICES ASSUME TypeOK, [Next]_vars PROVE TypeOK'
  OBVIOUS
<1> USE DEF TypeOK, profile, control
<1>1. CASE Restart
  BY <1>1, AnsweredType, NoRunType DEF Restart
<1>2. CASE Arm \/ Disarm
  BY <1>2 DEF Arm, Disarm
<1>3. CASE PaperMoves
  BY <1>3 DEF PaperMoves
<1>4. CASE VenueCloses
  BY <1>4, QuantityAssumption DEF VenueCloses, Quantities
<1>5. ASSUME NEW c \in Callers, Reject(c) \/ SubmitToPaper(c) PROVE TypeOK'
  BY <1>5, AnsweredType DEF Reject, SubmitToPaper
<1>6. ASSUME NEW c \in Callers, NEW cmd \in Commands, SubmitToVenue(c, cmd) PROVE TypeOK'
  <2>1. [step |-> FirstRequest(cmd), cmd |-> cmd, size |-> 0, answer |-> "none"] \in Call
    BY QuantityAssumption DEF FirstRequest, Call
  <2> QED
    BY <1>6, <2>1 DEF SubmitToVenue
<1>7. ASSUME NEW c \in Callers, FindPosition(c) PROVE TypeOK'
  <2>1. PICK size \in SizesSeen :
          calls' = [calls EXCEPT ![c].step = "found", ![c].size = size]
    BY <1>7 DEF FindPosition
  <2>2. size \in 0..MaxQty
    BY SizesSeenType
  <2>3. [calls[c] EXCEPT !.step = "found", !.size = size] \in Call
    BY <2>2 DEF Call
  <2> QED
    BY <1>7, <2>1, <2>3 DEF FindPosition
<1>8. ASSUME NEW c \in Callers, ActOnPosition(c) PROVE TypeOK'
  <2>1. [calls[c] EXCEPT !.step = "write"] \in Call
    BY DEF Call
  <2> QED
    BY <1>8, <2>1, AnsweredType DEF ActOnPosition
<1>9. ASSUME NEW c \in Callers, VenueExecutes(c) \/ RequestFails(c) PROVE TypeOK'
  BY <1>9, AnsweredType DEF VenueExecutes, RequestFails
<1>10. ASSUME NEW r \in Runs, NEW trigger \in Triggers, StartRun(r, trigger) PROVE TypeOK'
  <2>1. [step |-> "reading", trigger |-> trigger, local |-> paper, clean |-> FALSE] \in Run
    BY DEF Run
  <2> QED
    BY <1>10, <2>1 DEF StartRun
<1>11. ASSUME NEW r \in Runs, VenueReports(r) PROVE TypeOK'
  <2>1. \A b \in BOOLEAN : [runs[r] EXCEPT !.step = "answered", !.clean = b] \in Run
    BY DEF Run
  <2> QED
    BY <1>11, <2>1 DEF VenueReports
<1>12. ASSUME NEW r \in Runs, FinishRun(r) \/ FailRun(r) PROVE TypeOK'
  <2>1. runs[r] \in Run
    OBVIOUS
  <2>2. safeMode' \in BOOLEAN /\ started' \in BOOLEAN
    BY <1>12, <2>1 DEF FinishRun, FailRun, Report, Run, Resumes
  <2> QED
    BY <1>12, <2>2, NoRunType DEF FinishRun, FailRun, Report
<1>13. CASE UNCHANGED vars
  BY <1>13 DEF vars
<1> QED
  BY <1>1, <1>2, <1>3, <1>4, <1>5, <1>6, <1>7, <1>8, <1>9, <1>10, <1>11, <1>12, <1>13
     DEF Next

\* Every reachable state is well typed: in particular the size a submission
\* acts on is never negative nor larger than what the venue grants.
THEOREM TypeCorrect == Spec => []TypeOK
<1>1. Init => TypeOK
  BY AnsweredType, NoRunType DEF Init, TypeOK
<1> QED
  BY <1>1, TypeStep, PTL DEF Spec

-----------------------------------------------------------------------------
(* Routing *)

\* In live mode nothing that reaches a broker reaches the paper broker.
LEMMA LiveDestination ==
  ASSUME mode = "live" PROVE Destination # "paper"
BY DEF Destination, MissingLiveAdapter, CanExecute, WantsRealOrders

\* Live execution is never simulated by the router.
THEOREM LiveNeverSimulatedCorrect == Spec => []LiveNeverSimulated
<1>1. Init => LiveNeverSimulated
  <2> SUFFICES ASSUME Init, NEW c \in Callers PROVE calls[c].answer # "paper-main"
    BY DEF LiveNeverSimulated
  <2>1. calls[c] = Answered("none")
    BY DEF Init
  <2> QED
    BY <2>1 DEF Answered
<1>2. TypeOK /\ LiveNeverSimulated /\ [Next]_vars => LiveNeverSimulated'
  <2> SUFFICES ASSUME TypeOK, LiveNeverSimulated, [Next]_vars, mode' = "live",
                      NEW d \in Callers
               PROVE  calls'[d].answer # "paper-main"
    BY DEF LiveNeverSimulated
  <2> USE DEF profile
  <2>1. CASE Restart
    BY <2>1 DEF Restart, Answered
  <2>2. CASE UNCHANGED <<mode, calls>>
    BY <2>2 DEF LiveNeverSimulated
  <2>3. ASSUME NEW c \in Callers,
               \/ Reject(c)
               \/ \E cmd \in Commands : SubmitToVenue(c, cmd)
               \/ FindPosition(c) \/ ActOnPosition(c) \/ VenueExecutes(c) \/ RequestFails(c)
        PROVE  calls'[d].answer # "paper-main"
    <3>1. mode = "live" /\ calls[d].answer # "paper-main" /\ calls[c].answer # "paper-main"
      BY <2>3 DEF LiveNeverSimulated, Reject, SubmitToVenue, FindPosition, ActOnPosition,
                  VenueExecutes, RequestFails
    <3>2. calls \in [Callers -> Call]
      BY DEF TypeOK
    <3>3. calls'[d] = calls[d] \/ (c = d /\ calls'[d].answer # "paper-main")
      <4>1. CASE Reject(c)
        BY <4>1, <3>2 DEF Reject, Answered
      <4>2. CASE \E cmd \in Commands : SubmitToVenue(c, cmd)
        BY <4>2, <3>2 DEF SubmitToVenue
      <4>3. CASE FindPosition(c)
        BY <4>3, <3>1, <3>2 DEF FindPosition, Call
      <4>4. CASE ActOnPosition(c)
        BY <4>4, <3>1, <3>2 DEF ActOnPosition, Answered, Call
      <4>5. CASE VenueExecutes(c) \/ RequestFails(c)
        BY <4>5, <3>2 DEF VenueExecutes, RequestFails, Answered
      <4> QED
        BY <2>3, <4>1, <4>2, <4>3, <4>4, <4>5
    <3> QED
      BY <3>1, <3>3
  <2>4. ASSUME NEW c \in Callers, SubmitToPaper(c) PROVE FALSE
    BY <2>4, LiveDestination DEF SubmitToPaper
  <2>5. CASE \/ Arm \/ Disarm \/ PaperMoves \/ VenueCloses
             \/ \E r \in Runs : \/ \E trigger \in Triggers : StartRun(r, trigger)
                                \/ VenueReports(r) \/ FinishRun(r) \/ FailRun(r)
    BY <2>2, <2>5 DEF Arm, Disarm, PaperMoves, VenueCloses, StartRun, VenueReports,
                      FinishRun, FailRun, Report
  <2>6. CASE UNCHANGED vars
    BY <2>2, <2>6 DEF vars
  <2> QED
    BY <2>1, <2>3, <2>4, <2>5, <2>6 DEF Next
<1> QED
  BY <1>1, <1>2, TypeCorrect, PTL DEF Spec

\* A submission at the router or the adapter leaves the guard, the profile and
\* the reports alone.
LEMMA CallsLeaveControl ==
  ASSUME NEW c \in Callers,
         \/ Reject(c) \/ SubmitToPaper(c)
         \/ \E cmd \in Commands : SubmitToVenue(c, cmd)
         \/ FindPosition(c) \/ ActOnPosition(c) \/ VenueExecutes(c) \/ RequestFails(c)
  PROVE  UNCHANGED <<profile, control>>
BY DEF Reject, SubmitToPaper, SubmitToVenue, FindPosition, ActOnPosition, VenueExecutes,
       RequestFails

\* Orders pass, past the startup, only behind a clean report.
THEOREM OpenOnlyOnCleanReportCorrect == Spec => []OpenOnlyOnCleanReport
<1>1. Init => OpenOnlyOnCleanReport
  BY DEF Init, OpenOnlyOnCleanReport
<1>2. TypeOK /\ OpenOnlyOnCleanReport /\ [Next]_vars => OpenOnlyOnCleanReport'
  <2> SUFFICES ASSUME TypeOK, OpenOnlyOnCleanReport, [Next]_vars
               PROVE  OpenOnlyOnCleanReport'
    OBVIOUS
  <2> USE DEF OpenOnlyOnCleanReport, profile, control
  <2>1. CASE Restart
    BY <2>1 DEF Restart
  <2>2. CASE Arm \/ Disarm \/ PaperMoves \/ VenueCloses
    BY <2>2 DEF Arm, Disarm, PaperMoves, VenueCloses
  <2>3. CASE \E c \in Callers :
               \/ Reject(c) \/ SubmitToPaper(c)
               \/ \E cmd \in Commands : SubmitToVenue(c, cmd)
               \/ FindPosition(c) \/ ActOnPosition(c) \/ VenueExecutes(c) \/ RequestFails(c)
    BY <2>3, CallsLeaveControl
  <2>4. ASSUME NEW r \in Runs,
               (\E trigger \in Triggers : StartRun(r, trigger)) \/ VenueReports(r)
        PROVE  OpenOnlyOnCleanReport'
    BY <2>4 DEF StartRun, VenueReports
  <2>5. ASSUME NEW r \in Runs, FinishRun(r) PROVE OpenOnlyOnCleanReport'
    BY <2>5 DEF FinishRun, Report
  <2>6. ASSUME NEW r \in Runs, FailRun(r) PROVE OpenOnlyOnCleanReport'
    BY <2>6 DEF FailRun, Report
  <2>7. CASE UNCHANGED vars
    BY <2>7 DEF vars
  <2> QED
    BY <2>1, <2>2, <2>3, <2>4, <2>5, <2>6, <2>7 DEF Next
<1> QED
  BY <1>1, <1>2, TypeCorrect, PTL DEF Spec

-----------------------------------------------------------------------------
(* What a step may never do *)

\* An entry leaves for the venue in the step that passed the guard.
THEOREM EntriesOnlyWhileArmedCorrect == Spec => EntriesOnlyWhileArmed
<1> DEFINE Sent(c) == /\ calls[c].step # "write" /\ calls'[c].step = "write"
                      /\ calls'[c].cmd.kind = "entry"
           IInv == TypeOK /\ \A c \in Callers :
                     calls[c].step \in {"read", "found"} => calls[c].cmd.kind # "entry"
<1>1. Init => IInv
  <2> SUFFICES ASSUME Init, NEW c \in Callers
               PROVE  calls[c].step \notin {"read", "found"}
    BY AnsweredType, NoRunType DEF Init, TypeOK
  <2>1. calls[c] = Answered("none")
    BY DEF Init
  <2> QED
    BY <2>1 DEF Answered
<1>2. IInv /\ [Next]_vars
        => IInv' /\ \A c \in Callers : Sent(c) => mode = "live" /\ armed /\ ~safeMode
  <2> SUFFICES ASSUME IInv, [Next]_vars, NEW d \in Callers
               PROVE  /\ calls'[d].step \in {"read", "found"} => calls'[d].cmd.kind # "entry"
                      /\ Sent(d) => mode = "live" /\ armed /\ ~safeMode
    BY TypeStep
  <2>1. calls \in [Callers -> Call] /\ calls[d] \in Call
    BY DEF TypeOK
  <2>2. CASE calls' = calls
    BY <2>2
  <2>3. CASE Restart
    BY <2>3 DEF Restart, Answered
  <2>4. ASSUME NEW c \in Callers, Reject(c) \/ SubmitToPaper(c) \/ VenueExecutes(c) \/ RequestFails(c)
        PROVE  calls'[d] = calls[d] \/ calls'[d].step = "idle"
    BY <2>1, <2>4 DEF Reject, SubmitToPaper, VenueExecutes, RequestFails, Answered
  <2>5. ASSUME NEW c \in Callers, NEW cmd \in Commands, SubmitToVenue(c, cmd)
        PROVE  \/ calls'[d] = calls[d]
               \/ /\ calls'[d].step \in {"read", "found"} => calls'[d].cmd.kind # "entry"
                  /\ mode = "live" /\ armed /\ ~safeMode
    <3>1. mode = "live" /\ armed /\ ~safeMode
      BY <2>5 DEF SubmitToVenue, Destination, CanExecute, WantsRealOrders
    <3>2. CASE c = d
      BY <2>1, <2>5, <3>1, <3>2 DEF SubmitToVenue, FirstRequest
    <3>3. CASE c # d
      BY <2>1, <2>5, <3>3 DEF SubmitToVenue
    <3> QED
      BY <3>2, <3>3
  <2>6. ASSUME NEW c \in Callers, FindPosition(c)
        PROVE  \/ calls'[d] = calls[d]
               \/ calls[d].step = "read" /\ calls'[d].step = "found" /\ calls'[d].cmd = calls[d].cmd
    BY <2>1, <2>6 DEF FindPosition, Call
  <2>7. ASSUME NEW c \in Callers, ActOnPosition(c)
        PROVE  \/ calls'[d] = calls[d] \/ calls'[d].step = "idle"
               \/ calls[d].step = "found" /\ calls'[d].step = "write" /\ calls'[d].cmd = calls[d].cmd
    BY <2>1, <2>7 DEF ActOnPosition, Answered, Call
  <2>8. CASE \/ Arm \/ Disarm \/ PaperMoves \/ VenueCloses \/ UNCHANGED vars
             \/ \E r \in Runs : \/ \E trigger \in Triggers : StartRun(r, trigger)
                                \/ VenueReports(r) \/ FinishRun(r) \/ FailRun(r)
    BY <2>2, <2>8 DEF Arm, Disarm, PaperMoves, VenueCloses, StartRun, VenueReports,
                      FinishRun, FailRun, Report, vars
  <2> QED
    BY <2>3, <2>4, <2>5, <2>6, <2>7, <2>8 DEF Next
<1> QED
  BY <1>1, <1>2, PTL DEF Spec, EntriesOnlyWhileArmed

\* Within a process, only an operator's clean run ends safe mode.
THEOREM OnlyOperatorResumesCorrect == Spec => OnlyOperatorResumes
<1> DEFINE Resumed == \/ lastReport' = "none"
                      \/ \E r \in Runs : /\ runs[r].step = "answered" /\ runs[r].clean
                                         /\ runs[r].trigger = "MANUAL"
                                         /\ runs'[r].step = "idle"
<1>1. TypeOK /\ [Next]_vars => (safeMode /\ ~safeMode' => Resumed)
  <2> SUFFICES ASSUME TypeOK, [Next]_vars, safeMode, ~safeMode' PROVE Resumed
    OBVIOUS
  <2> USE DEF profile, control
  <2>1. CASE Restart
    BY <2>1 DEF Restart
  <2>2. CASE Arm \/ Disarm \/ PaperMoves \/ VenueCloses \/ UNCHANGED vars
    BY <2>2 DEF Arm, Disarm, PaperMoves, VenueCloses, vars
  <2>3. CASE \E c \in Callers :
               \/ Reject(c) \/ SubmitToPaper(c)
               \/ \E cmd \in Commands : SubmitToVenue(c, cmd)
               \/ FindPosition(c) \/ ActOnPosition(c) \/ VenueExecutes(c) \/ RequestFails(c)
    BY <2>3, CallsLeaveControl
  <2>4. ASSUME NEW r \in Runs,
               (\E trigger \in Triggers : StartRun(r, trigger)) \/ VenueReports(r) \/ FailRun(r)
        PROVE  FALSE
    BY <2>4 DEF StartRun, VenueReports, FailRun
  <2>5. ASSUME NEW r \in Runs, FinishRun(r) PROVE Resumed
    <3>1. runs[r].clean /\ runs[r].trigger = "MANUAL" /\ runs[r].step = "answered"
      BY <2>5 DEF FinishRun, Resumes
    <3>2. runs'[r].step = "idle"
      BY <2>5 DEF FinishRun, Report, NoRun, TypeOK
    <3> QED
      BY <3>1, <3>2
  <2> QED
    BY <2>1, <2>2, <2>3, <2>4, <2>5 DEF Next
<1> QED
  BY <1>1, TypeCorrect, PTL DEF Spec, OnlyOperatorResumes

\* A reduce-only order leaves the venue's position as it is or closes it.
THEOREM ExitsNeverOpenCorrect == Spec => ExitsNeverOpen
<1>1. TypeOK /\ [Next]_vars =>
        \A c \in Callers :
          (calls[c].step = "write" /\ calls'[c].step = "idle" /\ calls[c].cmd.kind # "entry")
          => venue' \in {venue, 0}
  <2> SUFFICES ASSUME TypeOK, [Next]_vars, NEW d \in Callers,
                      calls[d].step = "write", calls'[d].step = "idle",
                      calls[d].cmd.kind # "entry"
               PROVE  venue' \in {venue, 0}
    OBVIOUS
  <2>1. calls \in [Callers -> Call] /\ calls[d] \in Call
    BY DEF TypeOK
  <2>2. ASSUME NEW c \in Callers, VenueExecutes(c) PROVE venue' \in {venue, 0}
    <3>1. c = d
      BY <2>1, <2>2 DEF VenueExecutes
    <3>2. calls[d].cmd.kind \in {"exit", "bracket"}
      BY <2>1, CommandsAssumption DEF Call, Command, Kinds, NoCommand
    <3>3. venue' = Executed(calls[d].cmd)
      BY <2>2, <3>1 DEF VenueExecutes
    <3>4. CASE calls[d].cmd.kind = "exit"
      BY <3>3, <3>4 DEF Executed
    <3>5. CASE calls[d].cmd.kind = "bracket"
      BY <3>3, <3>5 DEF Executed
    <3> QED
      BY <3>2, <3>4, <3>5
  <2>3. CASE VenueCloses
    BY <2>3 DEF VenueCloses
  <2>4. CASE UNCHANGED venue
    BY <2>4
  <2>5. CASE \/ Restart \/ Arm \/ Disarm \/ PaperMoves \/ UNCHANGED vars
             \/ \E r \in Runs : \/ \E trigger \in Triggers : StartRun(r, trigger)
                                \/ VenueReports(r) \/ FinishRun(r) \/ FailRun(r)
    BY <2>4, <2>5 DEF Restart, Arm, Disarm, PaperMoves, StartRun, VenueReports, FinishRun,
                      FailRun, Report, vars
  <2>6. CASE \E c \in Callers :
               \/ Reject(c) \/ SubmitToPaper(c)
               \/ \E cmd \in Commands : SubmitToVenue(c, cmd)
               \/ FindPosition(c) \/ ActOnPosition(c) \/ RequestFails(c)
    BY <2>4, <2>6 DEF Reject, SubmitToPaper, SubmitToVenue, FindPosition, ActOnPosition,
                      RequestFails
  <2> QED
    BY <2>2, <2>3, <2>5, <2>6 DEF Next
<1> QED
  BY <1>1, TypeCorrect, PTL DEF Spec, ExitsNeverOpen
=============================================================================
