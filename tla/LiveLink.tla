------------------------------- MODULE LiveLink -------------------------------
(***************************************************************************)
(* The live link of a dashboard: WsConnectionManager in the browser,       *)
(* WebSocketGateway in the server, a network that fails and comes back     *)
(* with or without the connections it carried, and the circuit breaker's   *)
(* state, which reaches the screen by broadcasts and by polled snapshots.  *)
(*                                                                         *)
(* Backoff is a timer that is set or not, and the two ends of a connection *)
(* learn of its loss from what they do not hear.  The manager holds one    *)
(* socket, but its handlers serve every socket it ever made: one that is   *)
(* still closing when the next is made ends later, on the manager's fields.*)
(*                                                                         *)
(* A definition with an underscore in its name is a plausible slip in the  *)
(* definition it is named after: no action uses it.                        *)
(***************************************************************************)
EXTENDS Integers, Sequences

CONSTANTS
  MaxConnections,       \* of the gateway
  MaxNew,               \* connections it accepts in a window
  MaxQueued,            \* bound: events under way to the dashboard
  MaxLate               \* bound: sockets replaced while they are closing

ASSUME LinkAssumption ==
  /\ MaxConnections \in Nat \ {0} /\ MaxNew \in Nat \ {0}
  /\ MaxQueued \in Nat /\ MaxLate \in Nat

VARIABLES
  net,                  \* server and network: "up", "down"
  wire,                 \* whether the current connection still connects its ends
  sock,                 \* readyState of the manager's socket
  status, attempts,     \* the manager's; attempts: some since the last opening
  timer,                \* reconnectTimer is set
  watched,              \* staleTimer is set
  late,                 \* sockets replaced while closing, their onclose still to come
  client,               \* the gateway's end of the connection: unheard of since no, one ping
  ghosts,               \* how many of its clients are connections long lost, by the same
  recent,               \* connections accepted in the window
  tripped,              \* the circuit breaker
  queue,                \* its broadcasts on the wire
  snapshot,             \* the polled snapshot: idle, asked, or the answer on its way
  shown                 \* the breaker on the screen

browser == <<sock, status, attempts, timer, watched, late>>
gateway == <<client, ghosts, recent>>
screen  == <<tripped, queue, snapshot, shown>>
linkVars == <<net, wire, browser, gateway, screen>>

Clients == (IF client = "none" THEN 0 ELSE 1) + ghosts.fresh + ghosts.pinged

LinkInit ==
  /\ net \in {"up", "down"} /\ wire = FALSE
  /\ sock = "none" /\ status = "idle" /\ attempts = FALSE /\ timer = FALSE
  /\ watched = FALSE /\ late = 0
  /\ client = "none" /\ ghosts = [fresh |-> 0, pinged |-> 0] /\ recent = 0
  /\ tripped = FALSE /\ queue = <<>> /\ snapshot = "idle" /\ shown = FALSE
-----------------------------------------------------------------------------
(* WsConnectionManager *)

\* A client whose end is gone stays in the gateway until it is reaped.
Deserted ==
  ghosts' = IF client = "none" THEN ghosts ELSE [ghosts EXCEPT ![client] = @ + 1]

\* A socket that closes is given up for the next: whether its closing frame has
\* reached the gateway or not, its onclose is still to come.
GivenUp ==
  /\ late < MaxLate /\ late' = late + 1
  /\ wire' = FALSE /\ client' = "none"
  /\ \/ Deserted
     \/ wire /\ net = "up" /\ UNCHANGED ghosts

\* connect: nothing while a socket is open or opening.
Connect ==
  IF sock \in {"open", "connecting"} THEN UNCHANGED <<sock, status, late, wire, client, ghosts>>
  ELSE /\ sock' = "connecting"
       /\ status' = IF attempts THEN "reconnecting" ELSE "connecting"
       /\ IF sock = "closing" THEN GivenUp ELSE UNCHANGED <<late, wire, client, ghosts>>

\* useWebSocket on mounting, and visibilitychange.
Appears ==
  /\ status # "open"
  /\ Connect
  /\ UNCHANGED <<net, attempts, timer, watched, recent, screen>>

TimerFires ==
  /\ timer
  /\ timer' = FALSE
  /\ Connect
  /\ UNCHANGED <<net, attempts, watched, recent, screen>>

\* scheduleReconnect: a timer that runs is left to run, and the status as it is.
ScheduleReconnect ==
  IF timer THEN UNCHANGED <<status, attempts, timer>>
  ELSE timer' = TRUE /\ attempts' = TRUE /\ status' = "reconnecting"

\* onclose of the socket.
Closed ==
  /\ sock' = "closed" /\ wire' = FALSE /\ queue' = <<>>
  /\ watched' = FALSE /\ ScheduleReconnect

\* onerror, onclose of a socket that never opened.
SocketFails ==
  /\ sock = "connecting" /\ net = "down"
  /\ Closed
  /\ UNCHANGED <<net, late, gateway, tripped, snapshot, shown>>

StaleCloses_IfAnswered ==
  /\ watched /\ sock \in {"open", "connecting"} /\ queue = <<>> /\ wire
  /\ sock' = "closing"
  /\ UNCHANGED <<net, wire, status, attempts, timer, watched, late, gateway, screen>>
\* The stale detector closes a socket that has been silent for HEARTBEAT_STALE_MS:
\* the wire is dead, or nothing was broadcast.  The detector of a replaced socket
\* runs on until that one's onclose, and closes the next while it connects.
StaleCloses ==
  /\ watched /\ sock \in {"open", "connecting"} /\ queue = <<>>
  /\ sock' = "closing"
  /\ UNCHANGED <<net, wire, status, attempts, timer, watched, late, gateway, screen>>

\* The closing handshake ends, or is given up.
CloseCompletes ==
  /\ sock = "closing"
  /\ Closed
  /\ client' = "none"
  /\ IF wire /\ net = "up" THEN UNCHANGED ghosts ELSE Deserted
  /\ UNCHANGED <<net, late, recent, tripped, snapshot, shown>>

\* onclose of a replaced socket: it stops the detector of the one that took its
\* place, and has the manager reconnect.  If its closing failed, onerror before it
\* closes the socket in its place too.
LateClose(failed) ==
  /\ late > 0 /\ late' = late - 1
  /\ watched' = FALSE /\ ScheduleReconnect
  /\ IF failed /\ sock \in {"connecting", "open"}
     THEN sock' = "closing" /\ queue' = <<>>
     ELSE UNCHANGED <<sock, queue>>
  /\ UNCHANGED <<net, wire, gateway, tripped, snapshot, shown>>
-----------------------------------------------------------------------------
(* WebSocketGateway *)

\* The upgrade, onopen, and addClient, which may have the cap or the rate of new
\* connections refuse it with a close.
SocketOpens ==
  /\ sock = "connecting" /\ net = "up"
  /\ sock' = "open" /\ status' = "open" /\ attempts' = FALSE /\ wire' = TRUE
  /\ watched' = TRUE
  /\ IF Clients >= MaxConnections \/ recent >= MaxNew
     THEN UNCHANGED <<client, recent>>
     ELSE client' = "fresh" /\ recent' = recent + 1
  /\ UNCHANGED <<net, timer, late, ghosts, screen>>

\* The server's close of a connection it refused, or terminated, arrives.
ClosedByServer ==
  /\ sock = "open" /\ client = "none" /\ wire /\ net = "up"
  /\ Closed
  /\ UNCHANGED <<net, late, gateway, tripped, snapshot, shown>>

\* startHeartbeat: who has not answered the last ping is terminated, the others
\* are pinged.
Heartbeat ==
  /\ client' = IF client = "fresh" THEN "pinged" ELSE "none"
  /\ ghosts' = [fresh |-> 0, pinged |-> ghosts.fresh]
  /\ UNCHANGED <<net, wire, browser, recent, screen>>

Pong ==
  /\ client = "pinged" /\ wire /\ net = "up"
  /\ client' = "fresh"
  /\ UNCHANGED <<net, wire, browser, ghosts, recent, screen>>

WindowPasses ==
  /\ recent > 0
  /\ recent' = 0
  /\ UNCHANGED <<net, wire, browser, client, ghosts, screen>>

Receives == client # "none" /\ wire /\ sock = "open"

\* CircuitBreaker.trip, clear, and broadcast.
BreakerFlips ==
  /\ Receives => Len(queue) < MaxQueued
  /\ tripped' = ~tripped
  /\ queue' = IF Receives THEN Append(queue, tripped') ELSE queue
  /\ UNCHANGED <<net, wire, browser, gateway, snapshot, shown>>
-----------------------------------------------------------------------------
(* What the dashboard shows *)

\* setCircuitBreaker
EventArrives ==
  /\ queue # <<>> /\ net = "up" /\ wire
  /\ shown' = Head(queue) /\ queue' = Tail(queue)
  /\ UNCHANGED <<net, wire, browser, gateway, tripped, snapshot>>

Poll_OnMountOnly ==
  /\ snapshot = "idle" /\ status = "idle"
  /\ snapshot' = "asked"
  /\ UNCHANGED <<net, wire, browser, gateway, tripped, queue, shown>>
\* The autonomous-snapshot query, on mounting and every 15 s.
Poll ==
  /\ snapshot = "idle"
  /\ snapshot' = "asked"
  /\ UNCHANGED <<net, wire, browser, gateway, tripped, queue, shown>>

\* getSnapshot, when the request reaches the server.
SnapshotTaken ==
  /\ snapshot = "asked" /\ net = "up"
  /\ snapshot' = IF tripped THEN "tripped" ELSE "clear"
  /\ UNCHANGED <<net, wire, browser, gateway, tripped, queue, shown>>

\* hydrateFromSnapshot, whatever events have arrived since it was taken.
SnapshotArrives ==
  /\ snapshot \in {"tripped", "clear"} /\ net = "up"
  /\ shown' = (snapshot = "tripped")
  /\ snapshot' = "idle"
  /\ UNCHANGED <<net, wire, browser, gateway, tripped, queue>>

SnapshotFails ==
  /\ snapshot # "idle" /\ net = "down"
  /\ snapshot' = "idle"
  /\ UNCHANGED <<net, wire, browser, gateway, tripped, queue, shown>>
-----------------------------------------------------------------------------
(* The network *)

NetFails ==
  /\ net = "up" /\ net' = "down"
  /\ UNCHANGED <<wire, browser, gateway, screen>>

NetReturns ==
  /\ net = "down" /\ net' = "up"
  /\ UNCHANGED <<wire, browser, gateway, screen>>

\* The connection does not survive it, and neither end is told.
WireLost ==
  /\ net = "down" /\ wire
  /\ wire' = FALSE /\ queue' = <<>>
  /\ UNCHANGED <<net, browser, gateway, tripped, snapshot, shown>>

LinkNext ==
  \/ Appears \/ TimerFires \/ SocketFails \/ StaleCloses \/ CloseCompletes
  \/ \E failed \in BOOLEAN : LateClose(failed)
  \/ SocketOpens \/ ClosedByServer \/ Heartbeat \/ Pong \/ WindowPasses
  \/ BreakerFlips \/ EventArrives \/ Poll \/ SnapshotTaken \/ SnapshotArrives
  \/ SnapshotFails \/ NetFails \/ NetReturns \/ WireLost
LinkSpec == LinkInit /\ [][LinkNext]_linkVars
-----------------------------------------------------------------------------
(* Properties *)

\* The state has its type, the gateway within its cap.
LinkTypeOK ==
  /\ net \in {"up", "down"} /\ wire \in BOOLEAN
  /\ sock \in {"none", "connecting", "open", "closing", "closed"}
  /\ status \in {"idle", "connecting", "open", "reconnecting"}
  /\ attempts \in BOOLEAN /\ timer \in BOOLEAN /\ watched \in BOOLEAN /\ late \in 0..MaxLate
  /\ client \in {"none", "fresh", "pinged"}
  /\ ghosts \in [fresh: Nat, pinged: Nat]
  /\ Clients <= MaxConnections /\ recent \in 0..MaxNew
  /\ tripped \in BOOLEAN /\ shown \in BOOLEAN
  /\ queue \in Seq(BOOLEAN) /\ Len(queue) <= MaxQueued
  /\ snapshot \in {"idle", "asked", "tripped", "clear"}

\* Once the network stays, the dashboard is a client of the gateway again and
\* again, however its connections were lost and although the ghosts of those fill
\* the gateway's cap.  What can keep it from that is an open socket without a
\* detector, which a replaced one's late onclose leaves: connect() does nothing
\* while it is open, and nobody closes it when its wire is dead.
Unwatched == sock = "open" /\ ~watched
LinkRecovers ==
  <>[](net = "up") =>
    []<>(status = "open" /\ client # "none" /\ wire) \/ <>[]Unwatched

\* A breaker that stays as it is is shown as it is, although broadcasts were lost
\* with a connection and a snapshot may be older than the events before it.
BreakerShown ==
  \A b \in BOOLEAN : <>[](net = "up" /\ tripped = b) => <>[](shown = b)
=============================================================================
