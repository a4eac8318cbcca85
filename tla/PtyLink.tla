------------------------------ MODULE PtyLink ------------------------------
(***************************************************************************)
(* The link between the server and the PTY daemon, for one agent: the IPC  *)
(* client of the server (pty-daemon-client.mjs) with its handshake, health *)
(* pings and reconnect timer; the session the daemon keeps of a connection *)
(* (pty-daemon-ipc.mjs); the credit-based flow control of the agent's      *)
(* terminal output (pty-daemon.mjs); the start of a server that finds the  *)
(* daemon running (index.mjs).  The daemon itself stays alive: its death   *)
(* and its respawn by the watchdog are not modelled.                       *)
(*                                                                         *)
(* Output is a stream of bytes, a chunk the interval [from, upto) of it.   *)
(* The messages in flight are counted in bytes; one chunk may be received, *)
(* and acknowledged, in several parts.                                     *)
(***************************************************************************)
EXTENDS Integers, Sequences

CONSTANTS
  INITIAL_CREDIT,       \* bytes the daemon may send ahead of acknowledgements
  PENDING_QUEUE_BOUND,  \* chunks kept while the terminal is paused
  MAX_HEALTH_FAILURES,  \* failed pings in a row that close the connection
  MaxChunk,             \* the largest chunk node-pty delivers (external)
  MaxLate,              \* chunks node-pty may deliver after pause() (external)
  MaxRead,              \* bound: bytes the agent prints
  MaxLosses,            \* bound: connections lost, handshakes failed
  MaxRestarts           \* bound: restarts of the server

ASSUME CreditAssumption ==
  /\ INITIAL_CREDIT \in Nat
  /\ MaxChunk \in 1..INITIAL_CREDIT
ASSUME QueueAssumption ==
  /\ PENDING_QUEUE_BOUND \in Nat
  /\ MaxLate \in Nat /\ MaxLate < PENDING_QUEUE_BOUND
ASSUME BoundsAssumption ==
  /\ MAX_HEALTH_FAILURES \in Nat \ {0}
  /\ {MaxRead, MaxLosses, MaxRestarts} \subseteq Nat

VARIABLES
  \* the server
  link,      \* _connecting, _connected and the life of _socket
  timer,     \* _reconnectTimer is armed
  failures,  \* _healthFailures
  boot,      \* how far the start of the server has come
  tracked,   \* the agent is in the processes map
  \* the daemon
  session,   \* the daemon's view of the connection
  pty,       \* the agent's process
  read,      \* bytes node-pty has delivered
  credit,
  emitted,   \* cumulativeEmittedBytes
  acked,     \* cumulativeAckedBytes
  paused,
  queue,     \* pendingQueue
  kept,      \* pty.exit lies in the event buffer
  \* in flight on the current connection
  data,      \* bytes of pty.data
  acks,      \* bytes of pty.ack
  exiting,   \* pty.exit
  asking,    \* the request pty.subscribe_all
  \* bounds
  losses,
  restarts

clientVars == <<link, timer, failures, boot, tracked>>
creditVars == <<read, credit, emitted, acked, paused, queue>>
wire == <<data, acks, exiting, asking>>
bounds == <<losses, restarts>>
vars == <<clientVars, session, pty, creditVars, kept, wire, bounds>>

Chunks == {c \in [from : 0..MaxRead, upto : 0..MaxRead] : c.from < c.upto}

\* Bytes in the first k chunks of the queue: the queue has no gaps.
First(k) == IF k = 0 THEN 0 ELSE queue[k].upto - queue[1].from

Init ==
  /\ link = "up" /\ timer = FALSE /\ failures = 0 /\ boot = "done" /\ tracked = TRUE
  /\ session = "subscribed" /\ pty = "running"
  /\ read = 0 /\ credit = INITIAL_CREDIT /\ emitted = 0 /\ acked = 0
  /\ paused = FALSE /\ queue = <<>>
  /\ kept = FALSE
  /\ data = 0 /\ acks = 0 /\ exiting = FALSE /\ asking = FALSE
  /\ losses = 0 /\ restarts = 0

----------------------------------------------------------------------------
(* The terminal and its flow control *)

\* A session takes notifications once it has subscribed; what is written to a
\* connection that is already broken is lost.
Reachable == session = "subscribed" /\ link = "up"

\* pty.data goes to the sessions that have subscribed; without one it goes nowhere,
\* and the credit is spent all the same.
SendData(n) == data' = IF Reachable THEN data + n ELSE data

\* Mutant: the queue holds one chunk less than its bound.
HoldLess(chunk) ==
  /\ queue' = Append(IF Len(queue) >= PENDING_QUEUE_BOUND - 1 THEN Tail(queue) ELSE queue, chunk)
  /\ paused' = TRUE
  /\ UNCHANGED <<credit, emitted, data>>

\* The oldest chunk is dropped at the bound.
Hold(chunk) ==
  /\ queue' = Append(IF Len(queue) >= PENDING_QUEUE_BOUND THEN Tail(queue) ELSE queue, chunk)
  /\ paused' = TRUE
  /\ UNCHANGED <<credit, emitted, data>>

Emit(n) ==
  /\ credit' = credit - n
  /\ emitted' = emitted + n
  /\ SendData(n)
  /\ UNCHANGED <<paused, queue>>

\* proc.onData, emitOrBuffer.
Read(n) ==
  /\ pty = "running" /\ read + n <= MaxRead
  /\ paused => Len(queue) <= MaxLate
  /\ read' = read + n
  /\ IF paused \/ credit < n THEN Hold([from |-> read, upto |-> read + n]) ELSE Emit(n)
  /\ UNCHANGED <<clientVars, session, pty, acked, kept, acks, exiting, asking, bounds>>

\* The first k queued chunks are sent, of c bytes of credit.
Drain(k, c) ==
  /\ credit' = c - First(k)
  /\ emitted' = emitted + First(k)
  /\ queue' = SubSeq(queue, k + 1, Len(queue))
  /\ SendData(First(k))

\* c bytes of credit cover the first k queued chunks and not one more.
Covers(k, c) == First(k) <= c /\ (k < Len(queue) => c < First(k + 1))

\* Mutants: the queue is drained without taking its bytes off the credit; a
\* drained terminal is not resumed.
RefillFree(c) ==
  IF paused
  THEN \E k \in 0..Len(queue) :
         /\ Covers(k, c) /\ Drain(k, c + First(k))
         /\ paused' = (k < Len(queue) \/ c = First(k))
  ELSE credit' = c /\ UNCHANGED <<emitted, paused, queue, data>>
RefillStaysPaused(c) ==
  IF paused
  THEN \E k \in 0..Len(queue) : Covers(k, c) /\ Drain(k, c) /\ UNCHANGED paused
  ELSE credit' = c /\ UNCHANGED <<emitted, paused, queue, data>>

\* ackAgent, with the credit the acknowledgement leaves: queued chunks leave in
\* order until one does not fit, and the terminal resumes when credit is left over.
Refill(c) ==
  IF paused
  THEN \E k \in 0..Len(queue) :
         /\ Covers(k, c) /\ Drain(k, c)
         /\ paused' = (k < Len(queue) \/ c = First(k))
  ELSE credit' = c /\ UNCHANGED <<emitted, paused, queue, data>>

\* Whatever is in flight is lost with the connection.
DropWire == data' = 0 /\ acks' = 0 /\ exiting' = FALSE /\ asking' = FALSE

\* FLOW_CONTROL_OVERFLOW: the daemon closes the connection.
Overflow ==
  /\ link' = "closing"
  /\ DropWire
  /\ UNCHANGED <<credit, emitted, acked, paused, queue>>

\* handlePtyAck: an acknowledgement of n bytes arrives.  One for a handle that is
\* gone is dropped.
HandleAck(n) ==
  /\ n <= acks
  /\ IF pty = "running" /\ acked + n > emitted
     THEN Overflow
     ELSE /\ acks' = acks - n
          /\ IF pty = "running"
             THEN acked' = acked + n /\ Refill(credit + n)
             ELSE UNCHANGED <<credit, emitted, acked, paused, queue, data>>
          /\ UNCHANGED <<link, exiting, asking>>
  /\ UNCHANGED <<timer, failures, boot, tracked, session, pty, read, kept, bounds>>

\* proc.onExit: the handle goes with its queue; the event is sent to a subscribed
\* session, be it broken or not, and the event buffer keeps it if there is none.
Exit ==
  /\ pty = "running"
  /\ pty' = "exited" /\ queue' = <<>> /\ paused' = FALSE
  /\ exiting' = Reachable
  /\ kept' = (session # "subscribed")
  /\ UNCHANGED <<clientVars, session, read, credit, emitted, acked, data, acks, asking, bounds>>

----------------------------------------------------------------------------
(* The server at the other end *)

\* Mutant: bytes are acknowledged again when they are passed on to the terminal.
ReceiveTwice(n) ==
  /\ n <= data
  /\ data' = data - n
  /\ acks' = acks + 2 * n
  /\ UNCHANGED <<clientVars, session, pty, creditVars, kept, exiting, asking, bounds>>

\* PTY_DATA in _handleMessage: the output is passed on and acknowledged.
Receive(n) ==
  /\ n <= data
  /\ data' = data - n
  /\ acks' = acks + n
  /\ UNCHANGED <<clientVars, session, pty, creditVars, kept, exiting, asking, bounds>>

\* PTY_EXIT: onExit of the handle takes the agent off the processes map.
ReceiveExit ==
  /\ exiting /\ data = 0
  /\ exiting' = FALSE /\ tracked' = FALSE
  /\ UNCHANGED <<link, timer, failures, boot, session, pty, creditVars, kept, data, acks,
                 asking, bounds>>

----------------------------------------------------------------------------
(* The life of a connection *)

\* connectToDaemon: a new socket, and the handshake on it.
Open == link' = "handshake"

\* _subscriptions: only subscribe(agent) adds to it, which no code of the server
\* calls; subscribeAll leaves it alone.
Tracked == {}

\* The reconnect timer fires.  A connection attempt under way makes it fail, a
\* connection that is up leaves only the subscriptions to restore.  The daemon has
\* seen the end of the old connection by then: the delay is a second or more.
TimerFires ==
  /\ timer /\ link # "closing"
  /\ timer' = FALSE
  /\ IF link = "idle" THEN session = "none" /\ Open ELSE UNCHANGED link
  /\ asking' = (asking \/ (link = "up" /\ Tracked # {}))
  /\ UNCHANGED <<failures, boot, tracked, session, pty, creditVars, kept, data, acks, exiting,
                 bounds>>

\* waitForDaemonReady, at the start of the server.
WaitForDaemonReady ==
  /\ boot = "connecting" /\ link = "idle" /\ session = "none"
  /\ Open
  /\ UNCHANGED <<timer, failures, boot, tracked, session, pty, creditVars, kept, wire, bounds>>

\* The daemon accepts the handshake.  _restoreSubscriptions asks for all output if
\* some subscription is tracked; the start of the server asks itself.
HandshakeOk ==
  /\ link = "handshake"
  /\ link' = "up" /\ failures' = 0 /\ session' = "new"
  /\ asking' = (Tracked # {} \/ boot = "connecting")
  /\ UNCHANGED <<timer, boot, tracked, pty, creditVars, kept, data, acks, exiting, bounds>>

\* No token on disk, a rejection or a timeout: the socket, which has its listeners by
\* then, is destroyed.  (A connect that is refused reaches no listener and is not tried
\* again; here the daemon listens, DaemonWatchdog has the other case.)
HandshakeFails ==
  /\ link = "handshake" /\ losses < MaxLosses
  /\ link' = "closing" /\ losses' = losses + 1
  /\ UNCHANGED <<timer, failures, boot, tracked, session, pty, creditVars, kept, wire, restarts>>

\* handlePtySubscribeAll: the session subscribes, the event buffer is replayed.
SubscribeAll ==
  /\ asking
  /\ asking' = FALSE
  /\ session' = "subscribed"
  /\ exiting' = (exiting \/ kept) /\ kept' = FALSE
  /\ boot' = IF boot = "connecting" THEN "listing" ELSE boot
  /\ UNCHANGED <<link, timer, failures, tracked, pty, creditVars, data, acks, bounds>>

\* The connection breaks.  A server that is still starting gives up and is started
\* again; one that waits for pty.list goes on without it.
LinkLost ==
  /\ link = "up" /\ losses < MaxLosses
  /\ losses' = losses + 1
  /\ link' = IF boot = "connecting" THEN "idle" ELSE "closing"
  /\ timer' = (timer /\ boot # "connecting")
  /\ boot' = IF boot = "listing" THEN "done" ELSE boot
  /\ DropWire
  /\ UNCHANGED <<failures, tracked, session, pty, creditVars, kept, restarts>>

\* _healthPing: an answered ping, and one that is not; the last allowed failure
\* destroys the socket.
PingAnswered ==
  /\ link = "up" /\ failures > 0
  /\ failures' = 0
  /\ UNCHANGED <<link, timer, boot, tracked, session, pty, creditVars, kept, wire, bounds>>

PingFails ==
  /\ link = "up" /\ boot = "done"
  /\ failures' = failures + 1
  /\ IF failures' < MAX_HEALTH_FAILURES
     THEN UNCHANGED <<link, wire, losses>>
     ELSE losses < MaxLosses /\ losses' = losses + 1 /\ link' = "closing" /\ DropWire
  /\ UNCHANGED <<timer, boot, tracked, session, pty, creditVars, kept, restarts>>

\* Mutant: no reconnect after a handshake that failed.
ClosedBeforeHandshake ==
  /\ link = "closing"
  /\ link' = "idle" /\ timer' = (session # "none")
  /\ UNCHANGED <<failures, boot, tracked, session, pty, creditVars, kept, wire, bounds>>

\* The close event of the socket: _scheduleReconnect.
Closed ==
  /\ link = "closing"
  /\ link' = "idle" /\ timer' = TRUE
  /\ UNCHANGED <<failures, boot, tracked, session, pty, creditVars, kept, wire, bounds>>

\* The daemon sees the connection closed.  Until then it writes to it in vain.
SessionEnds ==
  /\ link \in {"closing", "idle"} /\ session # "none"
  /\ session' = "none"
  /\ DropWire
  /\ UNCHANGED <<clientVars, pty, creditVars, kept, bounds>>

----------------------------------------------------------------------------
(* A restart of the server *)

ServerRestart ==
  /\ restarts < MaxRestarts
  /\ restarts' = restarts + 1
  /\ link' = "idle" /\ timer' = FALSE /\ failures' = 0 /\ boot' = "connecting"
  /\ tracked' = FALSE
  /\ DropWire
  /\ UNCHANGED <<session, pty, creditVars, kept, losses>>

\* The reattach loop: pty.list, then for a running agent the scrollback, whose
\* failure is ignored, and the new handle.
ListPtys ==
  /\ boot = "listing" /\ link = "up"
  /\ boot' = IF pty = "running" THEN "reattaching" ELSE "done"
  /\ UNCHANGED <<link, timer, failures, tracked, session, pty, creditVars, kept, wire, bounds>>

Reattach ==
  /\ boot = "reattaching"
  /\ boot' = "done" /\ tracked' = TRUE
  /\ UNCHANGED <<link, timer, failures, session, pty, creditVars, kept, wire, bounds>>

Next ==
  \/ \E n \in 1..MaxChunk : Read(n)
  \/ \E n \in 1..MaxRead : HandleAck(n) \/ Receive(n)
  \/ Exit \/ ReceiveExit
  \/ TimerFires \/ WaitForDaemonReady \/ HandshakeOk \/ HandshakeFails \/ SubscribeAll
  \/ LinkLost \/ PingAnswered \/ PingFails \/ Closed \/ SessionEnds
  \/ ServerRestart \/ ListPtys \/ Reattach

Spec == Init /\ [][Next]_vars

\* Both processes run their event loops and the operating system moves bytes; no
\* fairness makes an agent print or exit, a connection break, a ping fail or a
\* server restart.
Fairness ==
  /\ WF_vars(\E n \in 1..MaxRead : HandleAck(n))
  /\ WF_vars(\E n \in 1..MaxRead : Receive(n))
  /\ WF_vars(ReceiveExit)
  /\ WF_vars(TimerFires) /\ WF_vars(WaitForDaemonReady) /\ WF_vars(HandshakeOk)
  /\ WF_vars(SubscribeAll) /\ WF_vars(Closed) /\ WF_vars(SessionEnds)
  /\ WF_vars(ListPtys) /\ WF_vars(Reattach)

FairSpec == Spec /\ Fairness

----------------------------------------------------------------------------
(* Properties *)

\* Credit never goes negative, the pending queue and the failure counter keep to
\* their bounds, and each state variable to its states (pty-daemon.mjs, pty-daemon-client.mjs).
TypeOK ==
  /\ link \in {"idle", "handshake", "up", "closing"}
  /\ timer \in BOOLEAN /\ failures \in 0..MAX_HEALTH_FAILURES
  /\ boot \in {"connecting", "listing", "reattaching", "done"} /\ tracked \in BOOLEAN
  /\ session \in {"none", "new", "subscribed"} /\ pty \in {"running", "exited"}
  /\ read \in 0..MaxRead
  /\ credit \in Nat /\ emitted \in Nat /\ acked \in Nat
  /\ paused \in BOOLEAN /\ queue \in Seq(Chunks) /\ Len(queue) <= PENDING_QUEUE_BOUND
  /\ kept \in BOOLEAN
  /\ data \in Nat /\ acks \in Nat
  /\ exiting \in BOOLEAN /\ asking \in BOOLEAN
  /\ losses \in 0..MaxLosses /\ restarts \in 0..MaxRestarts

\* The bytes sent and not yet acknowledged are exactly the credit that is spent:
\* neither emitOrBuffer nor the drain loop of ackAgent creates or loses credit.
CreditConserved == credit + emitted = INITIAL_CREDIT + acked

\* Acknowledgements never exceed what was sent, those in flight and those the
\* server still owes included, whatever connections broke in between: the daemon
\* never closes a connection for FLOW_CONTROL_OVERFLOW.
AcksCovered == acked + acks + data <= emitted

\* While the agent runs, all it printed was sent or is queued: the queue bound of
\* emitOrBuffer discards nothing, because a paused terminal delivers few chunks.
StreamIntact == pty = "running" => read = emitted + First(Len(queue))

\* The terminal is paused only while the next chunk cannot be sent: ackAgent leaves
\* nothing queued that fits, and a terminal with credit and no queue is reading.
PausedForCredit ==
  IF paused THEN IF queue = <<>> THEN credit = 0 ELSE First(1) > credit
            ELSE queue = <<>>

\* Bytes that were sent and that nobody will acknowledge.
Leaked == emitted - acked - acks - data

\* As long as the credit that was not leaked covers a chunk, the acknowledgements
\* of a subscribed server get a paused terminal going again.
StallsEnd ==
  (paused /\ Reachable /\ Leaked <= INITIAL_CREDIT - MaxChunk) ~> (~paused \/ ~Reachable)

\* The client comes back from every lost connection and every failed handshake
\* with a daemon that stays alive (_scheduleReconnect).
ReconnectsInTheEnd == (link # "up") ~> (link = "up")

\* docs/unified-architecture-design.md:300: a restart of the server leaves the PTYs
\* of the agents unaffected ("Agent PTY: ... 不受影响"); pty-daemon.mjs:1682 calls it
\* what makes "server restart, agent survives" work.  So a paused terminal resumes.
OutputResumes == paused ~> ~paused

\* docs/unified-architecture-design.md:687: after a reconnect the server executes
\* pty.subscribe_all, and the daemon replays the events it kept.
Resubscribed == (link = "up") ~> (session = "subscribed" \/ link # "up")
=============================================================================
