----------------------------- MODULE WechatBridge -----------------------------
(***************************************************************************)
(* The bridge between the Chairman's WeChat and the server                 *)
(* (wechat-bridge.mjs, the notifications of db.mjs): login by QR code, the *)
(* loop that polls for messages, their handling, the queue of              *)
(* notifications and its single flush, unbinding, the session file and a   *)
(* restart of the server.                                                  *)
(*                                                                         *)
(* Every `await' is a state of its own: a request that is under way when   *)
(* the bridge is unbound or bound again comes back to the new state.       *)
(* Texts are left out.  A session is the number of the login that made it, *)
(* 0 stands for none, and a cursor is a position in the mail of the        *)
(* service.                                                                *)
(***************************************************************************)
EXTENDS Integers, Sequences, FiniteSets

CONSTANTS
  TaskOf,       \* bound: the tasks of the notifications, in their order
  MaxLogins,    \* bound: QR codes asked for
  MaxMail,      \* bound: messages the user writes
  MaxFaults,    \* bound: requests that fail, sessions that expire
  MaxRestarts   \* bound: restarts of the server

ASSUME BoundsAssumption ==
  {MaxLogins, MaxMail, MaxFaults, MaxRestarts, Len(TaskOf)} \subseteq Nat

Notes == 1..Len(TaskOf)
Logins == 1..MaxLogins

VARIABLES
  sess, polling, buf,   \* session, polling, getUpdatesBuf
  tok,                  \* contextTokens has one of less than 23 hours
  file,                 \* the token file: session, cursor, context token
  loginInProgress,
  poller,               \* pollLoginStatus of each QR code, from the request for it
  loops,                \* pollLoop started by a login, or (0) at server start
  flush,                \* _flushInFlight: what it has still to send and to drop
  queued, delivered,    \* table notifications: how many, and which are delivered
  \* the service
  mail,                 \* what the user wrote: the session of each message
  dead,                 \* sessions that have expired there
  \* counters and history
  faults, restarts,
  overlapped,           \* two loops have run at once
  done, fwd,            \* how often a command was executed, a text forwarded
  posts,                \* posts of a notification in this life, less failed ones
  sent,                 \* notifications whose post came back
  aborted               \* notifications whose post was given up after 15 seconds

link == <<sess, polling, buf, file>>
login == <<loginInProgress, poller>>
service == <<mail, dead>>
outcome == <<delivered, sent, aborted>>
queue == <<flush, queued, posts, outcome>>
handled == <<done, fwd>>
vars == <<link, tok, login, loops, queue, service, faults, restarts, overlapped, handled>>

At(pc, batch) == [pc |-> pc, s |-> 0, c |-> 0, batch |-> batch]
Waiting(s, c) == [pc |-> "wait", s |-> s, c |-> c, batch |-> {}]
Ended == At("none", {})
NoFlush == [todo |-> {}, drop |-> {}, s |-> 0]
NoFile == [s |-> 0, c |-> 0, tok |-> FALSE]

Init ==
  /\ sess = 0 /\ polling = FALSE /\ buf = 0 /\ tok = FALSE /\ file = NoFile
  /\ loginInProgress = FALSE /\ poller = [q \in Logins |-> "new"]
  /\ loops = [l \in 0..MaxLogins |-> Ended]
  /\ flush = NoFlush /\ queued = 0 /\ delivered = {}
  /\ mail = <<>> /\ dead = {}
  /\ faults = 0 /\ restarts = 0 /\ overlapped = FALSE
  /\ done = [m \in 1..MaxMail |-> 0] /\ fwd = [m \in 1..MaxMail |-> 0]
  /\ posts = [n \in Notes |-> 0] /\ sent = {} /\ aborted = {}

Least(S) == CHOOSE x \in S : \A y \in S : x <= y
Running(l) == loops[l].pc # "none"
Fault == faults < MaxFaults /\ faults' = faults + 1

-----------------------------------------------------------------------------
(* The queue of notifications                                              *)

Connected == sess # 0 /\ polling

\* A later notification of the same task makes an earlier one superfluous.
Supersedes(k, n) == k > n /\ TaskOf[k] = TaskOf[n]

\* Of a table of q notifications: what waits, and of that the newest of each task.
Pending(q) == 1..q \ delivered

\* Mutant: the merge keeps the oldest of a task.
Oldest(q) == {n \in Pending(q) : ~\E k \in Pending(q) : Supersedes(n, k)}

Newest(q) == {n \in Pending(q) : ~\E k \in Pending(q) : Supersedes(k, n)}

\* The merged map keeps the place of the oldest notification of a task.
Place(n, all) == Least({k \in all : TaskOf[k] = TaskOf[n]})
First(todo, drop) ==
  CHOOSE n \in todo :
    \A k \in todo : Place(n, todo \union drop) <= Place(k, todo \union drop)

Flushing == flush.todo # {}

\* Send the next one of todo; without a session or a usable token
\* sendToWeChat throws before it posts, which ends the flush.
Send(todo, drop) ==
  IF sess # 0 /\ tok
    THEN /\ flush' = [todo |-> todo, drop |-> drop, s |-> sess]
         /\ posts' = [posts EXCEPT ![First(todo, drop)] = @ + 1]
    ELSE flush' = NoFlush /\ UNCHANGED posts

\* Mutant: a flush does not look whether one is in flight.
FlushTwice(q) ==
  IF Connected /\ Pending(q) # {}
    THEN Send(Newest(q), Pending(q) \ Newest(q))
    ELSE UNCHANGED <<flush, posts>>

FlushPending(q) ==
  IF Connected /\ ~Flushing /\ Pending(q) # {}
    THEN Send(Newest(q), Pending(q) \ Newest(q))
    ELSE UNCHANGED <<flush, posts>>

\* saveNotification publishes notification_queued, which flushes at once.
QueueNotification ==
  /\ queued < Len(TaskOf) /\ queued' = queued + 1
  /\ FlushPending(queued + 1)
  /\ UNCHANGED <<link, tok, login, loops, service, faults, restarts, overlapped, handled,
                 outcome>>

\* What a loop does at the top of its while, with cursor c.
Turn(c) == IF polling THEN Waiting(sess, c) ELSE Ended

\* A flush that ends lets the loops that wait for it go on.
Released ==
  IF flush' = NoFlush
    THEN [l \in DOMAIN loops |-> IF loops[l].pc = "flush" THEN Turn(buf) ELSE loops[l]]
    ELSE loops

\* The superseded ones are marked when all others have been sent.
MarkAfter(n, rest) == IF rest = {} THEN {n} \union flush.drop ELSE {n}

\* sendToWeChat came back: the notification is marked, and the next one goes out.
CameBack(n) ==
  /\ LET rest == flush.todo \ {n}
     IN  /\ delivered' = delivered \union MarkAfter(n, rest)
         /\ IF rest = {} THEN flush' = NoFlush /\ UNCHANGED posts
                         ELSE Send(rest, flush.drop)
  /\ loops' = Released
  /\ UNCHANGED <<link, tok, login, service, restarts, overlapped, handled, queued>>

NotificationSent ==
  /\ Flushing /\ flush.s \notin dead
  /\ CameBack(First(flush.todo, flush.drop))
  /\ sent' = sent \union {First(flush.todo, flush.drop)}
  /\ UNCHANGED <<faults, aborted>>

\* apiPost returns null when it aborts the request, which nobody looks at.
NotificationAborted ==
  /\ Flushing /\ Fault
  /\ CameBack(First(flush.todo, flush.drop))
  /\ aborted' = aborted \union {First(flush.todo, flush.drop)}
  /\ UNCHANGED sent

NotificationFailed ==
  /\ Flushing
  /\ IF flush.s \in dead THEN UNCHANGED faults ELSE Fault
  /\ posts' = [posts EXCEPT ![First(flush.todo, flush.drop)] = @ - 1]
  /\ flush' = NoFlush
  /\ loops' = Released
  /\ UNCHANGED <<link, tok, login, service, restarts, overlapped, handled, queued, outcome>>

-----------------------------------------------------------------------------
(* The loop: a batch of messages, each acknowledged and then handled       *)

LoopTo(l, r) == loops' = [loops EXCEPT ![l] = r]

\* Mutant: the loop leaves the queue to the events.
FinishBatchOnly(l, c) == LoopTo(l, Turn(c)) /\ UNCHANGED <<flush, posts>>

\* After a batch the loop flushes, and waits for a flush that is in flight.
FinishBatch(l, c) ==
  /\ FlushPending(queued)
  /\ LoopTo(l, IF flush' # NoFlush /\ Connected THEN At("flush", {}) ELSE Turn(c))

\* A message brings a context token, and its acknowledgement is posted.
Handle(l, batch, c) ==
  IF batch = {}
    THEN FinishBatch(l, c) /\ UNCHANGED tok
    ELSE /\ tok' = TRUE
         /\ LoopTo(l, At("ack", batch))
         /\ UNCHANGED <<flush, posts>>

\* Mutant: the cursor is kept in memory only.
KeepCursor(c) == buf' = c /\ UNCHANGED file

SaveCursor(c) == buf' = c /\ file' = [s |-> sess, c |-> c, tok |-> tok]

Answer(l) ==
  /\ loops[l].pc = "wait" /\ loops[l].s \notin dead
  /\ SaveCursor(Len(mail))
  /\ Handle(l, {m \in DOMAIN mail : m > loops[l].c /\ mail[m] = loops[l].s}, Len(mail))
  /\ UNCHANGED <<sess, polling, login, service, faults, restarts, overlapped, handled, queued, outcome>>

\* The request was aborted after 42 seconds.
PollTimeout(l) ==
  /\ loops[l].pc = "wait"
  /\ LoopTo(l, Turn(buf))
  /\ UNCHANGED <<link, tok, login, queue, service, faults, restarts, overlapped, handled>>

PollFailed(l) ==
  /\ loops[l].pc = "wait" /\ Fault
  /\ LoopTo(l, At("sleep", {}))
  /\ UNCHANGED <<link, tok, login, queue, service, restarts, overlapped, handled>>

Woken(l) ==
  /\ loops[l].pc = "sleep"
  /\ LoopTo(l, Turn(buf))
  /\ UNCHANGED <<link, tok, login, queue, service, faults, restarts, overlapped, handled>>

\* The outer catch on "session timeout" or -14.
SessionExpired(l) ==
  /\ polling' = FALSE /\ sess' = 0
  /\ LoopTo(l, Ended)
  /\ UNCHANGED <<buf, file, tok, login, queue, service, faults, restarts, overlapped, handled>>

PollExpired(l) ==
  /\ loops[l].pc = "wait" /\ loops[l].s \in dead
  /\ SessionExpired(l)

Current(l) == Least(loops[l].batch)
Rest(l) == loops[l].batch \ {Current(l)}

\* Messages are counted as long as no two loops have overlapped.
Plus(f, m) == IF overlapped THEN f ELSE [f EXCEPT ![m] = @ + 1]

\* The answer to the acknowledgement is not looked at.  Whether a message is
\* text for onMessageReceived or a command, which is executed and answered,
\* is left open.
AckedText(l) ==
  /\ loops[l].pc = "ack"
  /\ fwd' = Plus(fwd, Current(l))
  /\ Handle(l, Rest(l), buf)
  /\ UNCHANGED <<link, login, service, faults, restarts, overlapped, queued, outcome, done>>

AckedCommand(l) ==
  /\ loops[l].pc = "ack" /\ sess # 0
  /\ done' = Plus(done, Current(l))
  /\ LoopTo(l, [At("reply", loops[l].batch) EXCEPT !.s = sess])
  /\ UNCHANGED <<link, tok, login, queue, service, faults, restarts, overlapped, fwd>>

Replied(l) ==
  /\ loops[l].pc \in {"reply", "again"} /\ loops[l].s \notin dead
  /\ Handle(l, Rest(l), buf)
  /\ UNCHANGED <<link, login, service, faults, restarts, overlapped, handled, queued, outcome>>

\* A failed reply is caught where the command has a try of its own, and the
\* command then falls through to the text messages; the others end the batch.
FallThrough(l) ==
  /\ fwd' = Plus(fwd, Current(l))
  /\ Handle(l, Rest(l), buf)
  /\ UNCHANGED <<link, login, service, restarts, overlapped, queued, outcome>>

DropBatch(l) ==
  /\ LoopTo(l, At("sleep", {}))
  /\ UNCHANGED <<link, tok, login, queue, service, restarts, overlapped, fwd>>

\* Start and stop answer a second time, that the command failed.
AnswerAgain(l) ==
  /\ sess # 0
  /\ LoopTo(l, [At("again", loops[l].batch) EXCEPT !.s = sess])
  /\ UNCHANGED <<link, tok, login, queue, service, restarts, overlapped, fwd>>

ReplyFailed(l) ==
  /\ loops[l].pc = "reply"
  /\ IF loops[l].s \in dead THEN UNCHANGED faults ELSE Fault
  /\ FallThrough(l) \/ DropBatch(l) \/ AnswerAgain(l)
  /\ UNCHANGED done

\* What failed the first answer fails the second, which nothing catches here.
AgainFailed(l) ==
  /\ loops[l].pc = "again" /\ loops[l].s \notin dead
  /\ DropBatch(l)
  /\ UNCHANGED <<faults, done>>

\* Unbound meanwhile: the reply throws before it is posted.
AckedUnbound(l) ==
  /\ loops[l].pc = "ack" /\ sess = 0
  /\ done' = Plus(done, Current(l))
  /\ FallThrough(l) \/ DropBatch(l)
  /\ UNCHANGED faults

ReplyExpired(l) ==
  /\ loops[l].pc \in {"reply", "again"} /\ loops[l].s \in dead
  /\ SessionExpired(l)

-----------------------------------------------------------------------------
(* Login and unbinding                                                     *)

StartLogin(q) ==
  /\ ~loginInProgress /\ poller[q] = "new" /\ \A p \in Logins : p < q => poller[p] # "new"
  /\ loginInProgress' = TRUE
  /\ poller' = [poller EXCEPT ![q] = "ask"]
  /\ UNCHANGED <<link, tok, loops, queue, service, faults, restarts, overlapped, handled>>

\* No code, the code has expired, or the five minutes are over.
LoginOver(q) ==
  /\ poller[q] = "ask"
  /\ poller' = [poller EXCEPT ![q] = "none"]
  /\ loginInProgress' = FALSE
  /\ UNCHANGED <<link, tok, loops, queue, service, faults, restarts, overlapped, handled>>

\* A login that was given up is noticed at the next turn of the loop, two
\* seconds or a request later, unless another one has begun by then.
LoginGone(q) ==
  /\ poller[q] = "ask" /\ ~loginInProgress
  /\ poller' = [poller EXCEPT ![q] = "none"]
  /\ UNCHANGED <<link, tok, loginInProgress, loops, queue, service, faults, restarts, overlapped, handled>>

\* startPolling starts a loop unless polling is set; a loop of before may
\* not have come back from its request yet.
Confirmed(q) ==
  /\ poller[q] = "ask"
  /\ poller' = [poller EXCEPT ![q] = "none"]
  /\ loginInProgress' = FALSE
  /\ sess' = q
  /\ file' = [s |-> q, c |-> buf, tok |-> tok]
  /\ polling' = TRUE
  /\ IF polling
       THEN UNCHANGED <<loops, overlapped>>
       ELSE /\ LoopTo(q, Waiting(q, buf))
            /\ overlapped' = (overlapped \/ \E l \in DOMAIN loops : Running(l))
  /\ UNCHANGED <<buf, tok, queue, service, faults, restarts, handled>>

DisconnectAndLogout ==
  /\ polling' = FALSE /\ loginInProgress' = FALSE
  /\ sess' = 0 /\ buf' = 0 /\ tok' = FALSE /\ file' = NoFile
  /\ UNCHANGED <<poller, loops, queue, service, faults, restarts, overlapped, handled>>

\* A restart: only the file and the table remain, and a file with a token
\* starts the loop.
Restart ==
  /\ restarts < MaxRestarts /\ restarts' = restarts + 1
  /\ sess' = file.s /\ buf' = file.c /\ tok' = file.tok /\ polling' = (file.s # 0)
  /\ loops' = [l \in DOMAIN loops |->
                 IF l = 0 /\ file.s # 0 THEN Waiting(file.s, file.c) ELSE Ended]
  /\ loginInProgress' = FALSE
  /\ poller' = [q \in Logins |-> IF poller[q] = "new" THEN "new" ELSE "none"]
  /\ flush' = NoFlush /\ posts' = [n \in DOMAIN posts |-> 0]
  /\ UNCHANGED <<file, queued, outcome, service, faults, overlapped, handled>>

-----------------------------------------------------------------------------
(* The service and the user                                                *)

UserWrites ==
  /\ Len(mail) < MaxMail /\ sess # 0
  /\ mail' = Append(mail, sess)
  /\ UNCHANGED <<link, tok, login, loops, queue, dead, faults, restarts, overlapped, handled>>

ServiceExpires ==
  /\ sess \notin dead \union {0} /\ Fault
  /\ dead' = dead \union {sess}
  /\ UNCHANGED <<link, tok, login, loops, queue, mail, restarts, overlapped, handled>>

\* 23 hours without a message from the user.
TokenAges ==
  /\ tok \/ file.tok
  /\ tok' = FALSE /\ file' = [file EXCEPT !.tok = FALSE]
  /\ UNCHANGED <<sess, polling, buf, login, loops, queue, service, faults, restarts, overlapped, handled>>

Next ==
  \/ QueueNotification
  \/ NotificationSent \/ NotificationFailed \/ NotificationAborted
  \/ \E l \in 0..MaxLogins :
       \/ Answer(l) \/ PollTimeout(l) \/ PollFailed(l) \/ Woken(l) \/ PollExpired(l)
       \/ AckedText(l) \/ AckedCommand(l) \/ Replied(l) \/ ReplyFailed(l)
       \/ AgainFailed(l) \/ AckedUnbound(l) \/ ReplyExpired(l)
  \/ \E q \in Logins :
       \/ StartLogin(q) \/ LoginOver(q) \/ LoginGone(q) \/ Confirmed(q)
  \/ DisconnectAndLogout \/ Restart
  \/ UserWrites
  \/ ServiceExpires \/ TokenAges

Spec == Init /\ [][Next]_vars

\* Every request comes back, finitely often as a failure, and timers fire.
FairSpec ==
  /\ Spec
  /\ WF_vars(NotificationSent \/ NotificationFailed \/ NotificationAborted)
  /\ \A l \in 0..MaxLogins :
       /\ WF_vars(Answer(l) \/ PollExpired(l)) /\ WF_vars(Woken(l))
       /\ WF_vars(AckedText(l) \/ AckedCommand(l) \/ AckedUnbound(l))
       /\ WF_vars(Replied(l) \/ ReplyFailed(l) \/ AgainFailed(l) \/ ReplyExpired(l))

-----------------------------------------------------------------------------
(* Properties                                                              *)

TypeOK ==
  /\ sess \in 0..MaxLogins /\ buf \in 0..MaxMail /\ tok \in BOOLEAN
  /\ file \in [s : 0..MaxLogins, c : 0..MaxMail, tok : BOOLEAN]
  /\ polling \in BOOLEAN /\ loginInProgress \in BOOLEAN /\ overlapped \in BOOLEAN
  /\ poller \in [Logins -> {"new", "ask", "none"}]
  /\ loops \in [0..MaxLogins ->
       [pc : {"none", "wait", "ack", "reply", "again", "flush", "sleep"}, s : 0..MaxLogins,
        c : 0..MaxMail, batch : SUBSET (1..MaxMail)]]
  /\ queued \in 0..Len(TaskOf)
  /\ delivered \subseteq 1..queued /\ sent \subseteq 1..queued /\ aborted \subseteq 1..queued
  /\ flush.todo \subseteq 1..queued /\ flush.drop \subseteq 1..queued

\* In one life of the server a notification is posted again only after a
\* failed post, whatever queues, polls and flushes at once ("we don't
\* double-send", wechat-bridge.mjs:763).
SentOnce == \A n \in DOMAIN posts : posts[n] <= 1

\* A notification that is marked delivered was sent, or a later one of the
\* same task was, whatever fails and whenever the server ends
\* (wechat-bridge.mjs:779, 797): only a post that is given up after 15 seconds
\* stands for one that was sent.
DeliveredWasSent ==
  \A n \in delivered : \E k \in sent \union aborted : k = n \/ Supersedes(k, n)

\* Not so: that it was sent, or a later one of the task, without exception
\* (wechat-bridge.mjs:79, 824).
MarkedMeansSent ==
  \A n \in delivered : \E k \in sent : k = n \/ Supersedes(k, n)

\* A message of the user is executed or forwarded at most once, across
\* restarts, as long as no second loop was started while the first had not
\* come back (wechat-bridge.mjs:377, 736).
HandledOnce ==
  ~overlapped => \A m \in DOMAIN mail : done[m] <= 1 /\ fwd[m] <= 1

\* A bridge that stays connected, to a session the service knows and with a
\* usable context token, marks every notification delivered
\* (wechat-bridge.mjs:739, 760).
NotifiedInTheEnd ==
  <>[](Connected /\ sess \notin dead /\ tok) =>
    \A n \in Notes : [](n <= queued => <>(n \in delivered))

\* Not so: the user never gets an older state of a task after a newer one
\* (wechat-bridge.mjs:797).
NeverOlder ==
  [][\A n \in Notes : posts'[n] > posts[n] => ~\E k \in sent : Supersedes(k, n)]_vars

\* Not so: a new session lasts until it is unbound or its own requests fail
\* (wechat-bridge.mjs:744).
OwnSessionEnds ==
  [][\A l \in DOMAIN loops : PollExpired(l) => sess \in {0, loops[l].s}]_vars

\* Not so: a command is not forwarded as text as well
\* (wechat-bridge.mjs:729).
CommandsNotForwarded ==
  ~overlapped => \A m \in DOMAIN mail : done[m] = 0 \/ fwd[m] = 0
===============================================================================
