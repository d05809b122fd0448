-------------------------------- MODULE EventLog --------------------------------
(***************************************************************************)
(* The append-only event log: a numbered row in SQLite first, a line of    *)
(* the JSONL stream after it if that goes; a number recovered from the     *)
(* table at a start; and PerformanceTracker, which reads the losing streak *)
(* of the agent's trades back from it.                                     *)
(*                                                                         *)
(* append is synchronous: only the end of the process falls between its    *)
(* steps.  A row that was inserted outlives the process (WAL); the loss of *)
(* power, which synchronous = NORMAL leaves to chance, is not modelled.    *)
(*                                                                         *)
(* A definition with an underscore in its name is a plausible slip in the  *)
(* definition it is named after: no action uses it.                        *)
(***************************************************************************)
EXTENDS Integers, Sequences, FiniteSetsExt, Functions

CONSTANTS
  QueryLimit,           \* fills a refresh asks for
  Window,               \* windowSize: trades it keeps
  MaxEvents             \* bound: events ever appended

ASSUME EventLogAssumption ==
  QueryLimit \in Nat \ {0} /\ Window \in Nat \ {0} /\ MaxEvents \in Nat

\* What the tracker tells apart: closing fills of the agent that won or lost, all
\* other fills, and events that are no fills.
EventKinds == {"win", "loss", "fill", "system"}

VARIABLES
  seq,                  \* the number last given
  appending,            \* the step append is at, and its event; id: the order of happening
  rows,                 \* the events table
  lines,                \* what a reader of the JSONL file can parse
  torn,                 \* its last line lacks its end
  happened,             \* history: events ever appended
  read                  \* the last refresh: the streak, and how many events it followed

logVars == <<seq, appending, rows, lines, torn, happened, read>>

LogInit ==
  /\ seq = 0 /\ appending = [pc |-> "idle"]
  /\ rows = {} /\ lines = <<>> /\ torn = FALSE
  /\ happened = 0 /\ read = [streak |-> 0, of |-> 0]
-----------------------------------------------------------------------------
(* append *)

LogAppend(kind) ==
  /\ appending.pc = "idle" /\ happened < MaxEvents
  /\ happened' = happened + 1 /\ seq' = seq + 1
  /\ appending' = [pc |-> "row", event |-> [seq |-> seq', id |-> happened', kind |-> kind]]
  /\ UNCHANGED <<rows, lines, torn, read>>

\* The insert throws, and append with it: the number stays given.
RowFails ==
  /\ appending.pc = "row"
  /\ appending' = [pc |-> "idle"]
  /\ UNCHANGED <<seq, rows, lines, torn, happened, read>>

\* appendFileSync; after a line without an end, this one cannot be told from it.
JsonlGets(event) ==
  /\ lines' = IF torn THEN lines ELSE Append(lines, event)
  /\ torn' = FALSE

StoreRow_JsonlFirst ==
  /\ appending.pc = "row"
  /\ JsonlGets(appending.event)
  /\ appending' = [appending EXCEPT !.pc = "line"]
  /\ UNCHANGED <<seq, rows, happened, read>>
StoreRow ==
  /\ appending.pc = "row"
  /\ rows' = rows \union {appending.event}
  /\ appending' = [appending EXCEPT !.pc = "line"]
  /\ UNCHANGED <<seq, lines, torn, happened, read>>

WriteLine ==
  /\ appending.pc = "line"
  /\ JsonlGets(appending.event)
  /\ appending' = [pc |-> "idle"]
  /\ UNCHANGED <<seq, rows, happened, read>>

\* Logged and left; a full disk may take a part of the line.
LineFails ==
  /\ appending.pc = "line"
  /\ torn' \in {torn, TRUE}
  /\ appending' = [pc |-> "idle"]
  /\ UNCHANGED <<seq, rows, lines, happened, read>>
-----------------------------------------------------------------------------
(* The process *)

LogCrash ==
  /\ appending.pc # "down"
  /\ torn' \in IF appending.pc = "line" THEN {torn, TRUE} ELSE {torn}
  /\ appending' = [pc |-> "down"]
  /\ UNCHANGED <<seq, rows, lines, happened, read>>

RecoverSequence_Zero == 0
RecoverSequence == IF rows = {} THEN 0 ELSE Max({e.seq : e \in rows})

LogStart ==
  /\ appending.pc = "down"
  /\ appending' = [pc |-> "idle"]
  /\ seq' = RecoverSequence
  /\ UNCHANGED <<rows, lines, torn, happened, read>>
-----------------------------------------------------------------------------
(* PerformanceTracker *)

\* The n events of a set that were numbered last.
Newest(events, n) == {e \in events : Cardinality({f \in events : f.seq > e.seq}) < n}

\* getEvents of type FILL_CREATED: of every strategy.
NewestFills == Newest({e \in rows : e.kind # "system"}, QueryLimit)

\* queryRecentOutcomes: the agent's own closing fills among those.
Outcomes == Newest({e \in NewestFills : e.kind \in {"win", "loss"}}, Window)

\* How many of the newest lost, up to the first that did not.
Streak(outcomes) ==
  Cardinality({e \in outcomes : \A f \in outcomes : f.kind = "win" => f.seq < e.seq})

Refresh ==
  /\ appending.pc = "idle"
  /\ read' = [streak |-> Streak(Outcomes), of |-> happened]
  /\ UNCHANGED <<seq, appending, rows, lines, torn, happened>>

LogNext ==
  \/ \E kind \in EventKinds : LogAppend(kind)
  \/ RowFails \/ StoreRow \/ WriteLine \/ LineFails \/ LogCrash \/ LogStart \/ Refresh

LogSpec == LogInit /\ [][LogNext]_logVars
-----------------------------------------------------------------------------
(* Properties *)

\* The state has its type.
LogTypeOK ==
  /\ seq \in 0..MaxEvents /\ happened \in 0..MaxEvents
  /\ appending.pc \in {"idle", "row", "line", "down"}
  /\ \A e \in rows \union Range(lines) :
       e.seq \in 1..MaxEvents /\ e.id \in 1..MaxEvents /\ e.kind \in EventKinds
  /\ torn \in BOOLEAN
  /\ read.streak \in 0..Window /\ read.of \in 0..MaxEvents

\* Over failed writes, torn lines and restarts: the numbers of the rows are the
\* order their events happened in, a number never names two events, in the table or
\* in the stream, the stream holds no event that no query will find, and a streak
\* read back counts losses no stored win of the agent came after.
LogIsTheHistory ==
  /\ \A e, f \in rows : e.seq < f.seq <=> e.id < f.id
  /\ \A e \in rows, f \in Range(lines) : e.seq = f.seq => e = f
  /\ Range(lines) \subseteq rows
  /\ LET losses == {e \in rows : e.kind = "loss" /\ e.id <= read.of}
         wins == {e \in rows : e.kind = "win" /\ e.id <= read.of}
     IN  read.streak <= Cardinality({e \in losses : \A f \in wins : f.id < e.id})
=============================================================================
