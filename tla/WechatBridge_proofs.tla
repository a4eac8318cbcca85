------------------------- MODULE WechatBridge_proofs -------------------------
(***************************************************************************)
(* Theorems about WechatBridge, for every number of notifications, tasks,  *)
(* logins, messages, faults and restarts.                                  *)
(*                                                                         *)
(* The queue: what is not delivered has not been posted in this life,      *)
(* except for the one notification a flush waits for; what a flush means   *)
(* to drop is superseded by something it sent or has still to send.        *)
(* The loop: what a session's messages have had done to them lies below    *)
(* the cursor of everything that could ask for them again.                 *)
(***************************************************************************)
EXTENDS WechatBridge, TLAPS, WellFoundedInduction

(* The queue *)

QueueTypes ==
  /\ posts \in [Notes -> Int]
  /\ queued \in 0..Len(TaskOf)
  /\ delivered \subseteq 1..queued
  /\ flush.todo \subseteq 1..queued
  /\ flush.drop \subseteq 1..queued

\* What is posted and has not come back.
InFlight(n) == Flushing /\ n = First(flush.todo, flush.drop)

PostedOnce ==
  /\ SentOnce
  /\ \A n \in Notes \ delivered : posts[n] = IF InFlight(n) THEN 1 ELSE 0

FlushHolds ==
  /\ flush.todo \intersect (delivered \union flush.drop) = {}
  /\ \A d \in flush.drop : \E k \in flush.todo \union sent \union aborted : Supersedes(k, d)

QueueInv == QueueTypes /\ PostedOnce /\ FlushHolds /\ DeliveredWasSent

-----------------------------------------------------------------------------
(* Smallest and largest elements *)

LEMMA LeastFacts ==
  ASSUME NEW S \in SUBSET Nat, S # {}
  PROVE  Least(S) \in S /\ \A y \in S : Least(S) <= y
<1>1. PICK x \in S : \A y \in S : ~(<<y, x>> \in OpToRel(<, Nat))
  <2>1. S \subseteq Nat
    OBVIOUS
  <2>2. QED
    BY <2>1, NatLessThanWellFounded, WFMin, ZenonT(30)
<1>2. \A y \in S : x <= y
  <2> SUFFICES ASSUME NEW y \in S PROVE x <= y
    OBVIOUS
  <2>1. ~(y < x)
    BY <1>1 DEF OpToRel
  <2>2. QED
    BY <2>1
<1>3. QED
  BY <1>2 DEF Least

LEMMA GreatestExists ==
  ASSUME NEW b \in Nat, NEW S \in SUBSET (0..b), S # {}
  PROVE  \E x \in S : \A y \in S : y <= x
<1> DEFINE D == {b - x : x \in S}
<1>1. D \in SUBSET Nat /\ D # {}
  <2>1. \A x \in S : b - x \in Nat
    OBVIOUS
  <2>2. QED
    BY <2>1
<1>2. PICK x \in S : Least(D) = b - x
  BY <1>1, LeastFacts
<1>3. \A y \in S : b - x <= b - y
  BY <1>1, <1>2, LeastFacts
<1>4. \A y \in S : y <= x
  BY <1>3
<1>5. QED
  BY <1>4

LEMMA FirstIsIn ==
  ASSUME NEW todo \in SUBSET Nat, NEW drop \in SUBSET Nat, todo # {}
  PROVE  First(todo, drop) \in todo
<1> DEFINE all == todo \union drop
           P == {Place(n, all) : n \in todo}
<1>1. \A n \in todo : Place(n, all) \in Nat
  <2> SUFFICES ASSUME NEW n \in todo PROVE Place(n, all) \in Nat
    OBVIOUS
  <2> DEFINE S == {k \in all : TaskOf[k] = TaskOf[n]}
  <2>1. S \in SUBSET Nat /\ S # {}
    OBVIOUS
  <2>2. Least(S) \in S
    BY <2>1, LeastFacts
  <2>3. QED
    BY <2>1, <2>2 DEF Place
<1>2. P \in SUBSET Nat /\ P # {}
  BY <1>1
<1>3. Least(P) \in P /\ \A y \in P : Least(P) <= y
  BY <1>2, LeastFacts
<1>4. PICK n \in todo : Least(P) = Place(n, all)
  BY <1>3
<1>5. \A k \in todo : Place(n, all) <= Place(k, all)
  BY <1>3, <1>4
<1>6. QED
  BY <1>5 DEF First

-----------------------------------------------------------------------------
(* The queue: its invariant *)

LEMMA QueueInit == Init => QueueInv
BY BoundsAssumption
   DEF Init, QueueInv, QueueTypes, PostedOnce, FlushHolds, DeliveredWasSent, SentOnce, InFlight,
       Flushing, NoFlush, Notes

\* What is not the newest of its task is superseded by one that is.
LEMMA NewestSupersedes ==
  ASSUME NEW q \in 0..Len(TaskOf), NEW d \in Pending(q) \ Newest(q)
  PROVE  \E k \in Newest(q) : Supersedes(k, d)
<1> USE BoundsAssumption
<1> DEFINE S == {k \in Pending(q) : Supersedes(k, d)}
<1>1. S \in SUBSET (0..q) /\ S # {} /\ q \in Nat
  BY DEF Pending, Newest
<1>2. PICK k \in S : \A y \in S : y <= k
  BY <1>1, GreatestExists
<1>3. \A y \in Pending(q) : Supersedes(y, k) => y \in S
  BY <1>1 DEF Supersedes, Pending
<1>4. k \in Newest(q)
  BY <1>1, <1>2, <1>3 DEF Newest, Supersedes, Pending
<1>5. QED
  BY <1>2, <1>4

\* Something newest is there when anything waits.
LEMMA NewestExists ==
  ASSUME NEW q \in 0..Len(TaskOf), Pending(q) # {}
  PROVE  Newest(q) # {} /\ Newest(q) \subseteq Pending(q) /\ Pending(q) \subseteq 1..q
<1>1. PICK d : d \in Pending(q)
  OBVIOUS
<1>2. d \in Newest(q) \/ \E k \in Newest(q) : Supersedes(k, d)
  BY <1>1, NewestSupersedes
<1>3. QED
  BY <1>2 DEF Newest, Pending

LEMMA FlushPendingStep ==
  ASSUME QueueInv, NEW q \in 0..Len(TaskOf), queued <= q, queued' = q,
         FlushPending(q), UNCHANGED outcome
  PROVE  QueueInv'
<1> USE BoundsAssumption DEF outcome
<1>1. 1..queued \subseteq 1..q /\ q \in Nat
  BY DEF QueueInv, QueueTypes
<1>2. CASE UNCHANGED <<flush, posts>>
  <2>1. QueueTypes' /\ PostedOnce'
    BY <1>1, <1>2 DEF QueueInv, QueueTypes, PostedOnce, SentOnce, InFlight, Flushing
  <2>2. FlushHolds' /\ DeliveredWasSent'
    BY <1>2 DEF QueueInv, FlushHolds, DeliveredWasSent
  <2>3. QED
    BY <2>1, <2>2 DEF QueueInv
<1>3. CASE ~Flushing /\ Pending(q) # {} /\ Send(Newest(q), Pending(q) \ Newest(q))
  <2> DEFINE todo == Newest(q)
             drop == Pending(q) \ Newest(q)
             n == First(todo, drop)
  <2>1. todo # {} /\ todo \subseteq Pending(q) /\ Pending(q) \subseteq 1..q
    BY <1>3, NewestExists
  <2>2. n \in todo
    BY <2>1, <1>1, FirstIsIn
  <2>3. \A k \in Notes \ delivered : posts[k] = 0
    BY <1>3 DEF QueueInv, PostedOnce, InFlight
  <2>4. \A k \in Notes : posts[k] \in Int /\ posts[k] <= 1
    BY DEF QueueInv, QueueTypes, PostedOnce, SentOnce
  <2>5. todo \intersect delivered = {} /\ todo \subseteq Notes
    BY <2>1, <1>1 DEF Pending, Notes
  <2>6. CASE flush' = NoFlush /\ posts' = posts
    <3>1. QueueTypes' /\ PostedOnce'
      BY <1>1, <2>3, <2>6
         DEF QueueInv, QueueTypes, PostedOnce, SentOnce, InFlight, Flushing, NoFlush
    <3>2. FlushHolds' /\ DeliveredWasSent'
      BY <2>6 DEF QueueInv, FlushHolds, DeliveredWasSent, NoFlush
    <3>3. QED
      BY <3>1, <3>2 DEF QueueInv
  <2>7. CASE /\ flush' = [todo |-> todo, drop |-> drop, s |-> sess]
             /\ posts' = [posts EXCEPT ![n] = @ + 1]
    <3>1. flush'.todo = todo /\ flush'.drop = drop
      BY <2>7
    <3>2. posts' \in [Notes -> Int] /\ posts'[n] = 1
          /\ \A k \in Notes \ {n} : posts'[k] = posts[k]
      BY <2>2, <2>3, <2>5, <2>7 DEF QueueInv, QueueTypes
    <3>3. QueueTypes'
      BY <1>1, <2>1, <3>1, <3>2 DEF QueueInv, QueueTypes
    <3>4. \A k : InFlight(k)' <=> k = n
      BY <2>1, <3>1 DEF InFlight, Flushing
    <3>5. PostedOnce'
      <4>1. n \in Notes /\ delivered' = delivered
        BY <2>2, <2>5
      <4>2. DOMAIN posts' = Notes /\ \A k \in Notes : posts'[k] <= 1
        BY <2>4, <3>2
      <4>3. \A k \in Notes \ delivered : posts'[k] = IF k = n THEN 1 ELSE 0
        BY <2>3, <3>2
      <4>4. QED
        BY <3>4, <4>1, <4>2, <4>3 DEF PostedOnce, SentOnce
    <3>6. FlushHolds'
      <4>1. \A d \in drop : \E k \in todo : Supersedes(k, d)
        BY NewestSupersedes
      <4>2. QED
        BY <2>5, <3>1, <4>1 DEF FlushHolds
    <3>7. QED
      BY <3>3, <3>5, <3>6 DEF QueueInv, DeliveredWasSent
  <2>8. QED
    BY <1>3, <2>6, <2>7 DEF Send
<1>4. QED
  BY <1>2, <1>3 DEF FlushPending

\* A post that came back, or was given up.
LEMMA SentStep == QueueInv /\ (NotificationSent \/ NotificationAborted) => QueueInv'
<1> SUFFICES ASSUME QueueInv, NotificationSent \/ NotificationAborted PROVE QueueInv'
  OBVIOUS
<1> USE BoundsAssumption DEF outcome
<1> DEFINE n == First(flush.todo, flush.drop)
           rest == flush.todo \ {n}
<1>1. /\ delivered' = delivered \union (IF rest = {} THEN {n} \union flush.drop ELSE {n})
      /\ (sent \union aborted)' = sent \union aborted \union {n}
      /\ queued' = queued
      /\ Flushing
  BY DEF NotificationSent, NotificationAborted, CameBack, MarkAfter
<1>2. flush.todo \in SUBSET Nat /\ flush.drop \in SUBSET Nat /\ flush.todo # {}
  BY <1>1 DEF QueueInv, QueueTypes, Flushing
<1>3. n \in flush.todo
  BY <1>2, FirstIsIn
<1>4. /\ flush.todo \subseteq Notes /\ n \in Notes \ delivered /\ posts[n] = 1
      /\ \A k \in Notes \ delivered : k # n => posts[k] = 0
  BY <1>1, <1>3 DEF QueueInv, QueueTypes, PostedOnce, FlushHolds, InFlight, Notes
<1>5. DeliveredWasSent'
  <2>1. \A d \in flush.drop : \E k \in flush.todo \union sent \union aborted : Supersedes(k, d)
    BY DEF QueueInv, FlushHolds
  <2>2. CASE rest = {}
    BY <1>1, <1>3, <2>1, <2>2 DEF QueueInv, DeliveredWasSent
  <2>3. CASE rest # {}
    BY <1>1, <2>3 DEF QueueInv, DeliveredWasSent
  <2>4. QED
    BY <2>2, <2>3
<1>6. delivered' \subseteq 1..queued /\ delivered \subseteq delivered' /\ n \in delivered'
  BY <1>1, <1>3 DEF QueueInv, QueueTypes
<1>7. CASE flush' = NoFlush /\ posts' = posts
  <2>1. QueueTypes' /\ PostedOnce'
    BY <1>1, <1>4, <1>6, <1>7
       DEF QueueInv, QueueTypes, PostedOnce, SentOnce, InFlight, Flushing, NoFlush
  <2>2. FlushHolds'
    BY <1>7 DEF FlushHolds, NoFlush
  <2>3. QED
    BY <1>5, <2>1, <2>2 DEF QueueInv
<1>8. CASE /\ rest # {}
           /\ flush' = [todo |-> rest, drop |-> flush.drop, s |-> sess]
           /\ posts' = [posts EXCEPT ![First(rest, flush.drop)] = @ + 1]
  <2> DEFINE m == First(rest, flush.drop)
  <2>1. m \in rest
    BY <1>2, <1>8, FirstIsIn
  <2>2. flush'.todo = rest /\ flush'.drop = flush.drop /\ delivered' = delivered \union {n}
    BY <1>1, <1>8
  <2>3. m \in Notes \ delivered /\ m # n /\ posts[m] = 0
    BY <1>4, <2>1 DEF QueueInv, FlushHolds
  <2>4. /\ posts' \in [Notes -> Int] /\ posts'[m] = 1
        /\ \A k \in Notes \ {m} : posts'[k] = posts[k]
    <3>1. posts \in [Notes -> Int] /\ posts' = [posts EXCEPT ![m] = @ + 1]
      BY <1>8 DEF QueueInv, QueueTypes
    <3> HIDE DEF m
    <3>2. QED
      BY <2>3, <3>1
  <2>5. \A k : InFlight(k)' <=> k = m
    BY <1>8, <2>2 DEF InFlight, Flushing
  <2>6. QueueTypes'
    BY <1>1, <1>6, <2>2, <2>4 DEF QueueInv, QueueTypes
  <2>7. PostedOnce'
    BY <1>4, <2>2, <2>3, <2>4, <2>5 DEF PostedOnce, SentOnce, QueueInv, QueueTypes
  <2>8. FlushHolds'
    BY <1>1, <1>3, <2>2 DEF QueueInv, FlushHolds
  <2>9. QED
    BY <1>5, <2>6, <2>7, <2>8 DEF QueueInv
<1>9. QED
  BY <1>7, <1>8 DEF NotificationSent, NotificationAborted, CameBack, Send

LEMMA FailedStep == QueueInv /\ NotificationFailed => QueueInv'
<1> SUFFICES ASSUME QueueInv, NotificationFailed PROVE QueueInv'
  OBVIOUS
<1> USE BoundsAssumption DEF outcome
<1> DEFINE n == First(flush.todo, flush.drop)
<1>1. /\ posts' = [posts EXCEPT ![n] = @ - 1]
      /\ flush' = NoFlush /\ Flushing
      /\ UNCHANGED <<queued, outcome>>
  BY DEF NotificationFailed
<1>2. flush.todo \in SUBSET Nat /\ flush.drop \in SUBSET Nat /\ flush.todo # {}
  BY <1>1 DEF QueueInv, QueueTypes, Flushing
<1>3. n \in flush.todo
  BY <1>2, FirstIsIn
<1>4. /\ n \in Notes \ delivered /\ posts[n] = 1
      /\ \A k \in Notes \ delivered : k # n => posts[k] = 0
  BY <1>1, <1>3 DEF QueueInv, QueueTypes, PostedOnce, FlushHolds, InFlight, Notes
<1>5. /\ posts' \in [Notes -> Int] /\ posts'[n] = 0
      /\ \A k \in Notes \ {n} : posts'[k] = posts[k]
  BY <1>1, <1>4 DEF QueueInv, QueueTypes
<1>6. QueueTypes' /\ FlushHolds' /\ DeliveredWasSent'
  BY <1>1, <1>5 DEF QueueInv, QueueTypes, FlushHolds, DeliveredWasSent, NoFlush
<1>7. PostedOnce'
  BY <1>1, <1>4, <1>5 DEF QueueInv, QueueTypes, PostedOnce, SentOnce, InFlight, Flushing, NoFlush
<1>8. QED
  BY <1>6, <1>7 DEF QueueInv

LEMMA RestartQueueStep == QueueInv /\ Restart => QueueInv'
BY BoundsAssumption
   DEF Restart, QueueInv, QueueTypes, PostedOnce, FlushHolds, DeliveredWasSent, SentOnce, InFlight,
       Flushing, NoFlush, Notes, outcome

\* Whatever a loop does flushes the queue as it stands, or leaves it alone.
LEMMA LoopsFlush ==
  ASSUME NEW l \in 0..MaxLogins,
         \/ Answer(l) \/ PollTimeout(l) \/ PollFailed(l) \/ Woken(l) \/ PollExpired(l)
         \/ AckedText(l) \/ AckedCommand(l) \/ Replied(l) \/ ReplyFailed(l)
         \/ AgainFailed(l) \/ AckedUnbound(l) \/ ReplyExpired(l)
  PROVE  /\ FlushPending(queued) \/ UNCHANGED <<flush, posts>>
         /\ UNCHANGED <<queued, outcome>>
<1>1. \A b, c : Handle(l, b, c) => FlushPending(queued) \/ UNCHANGED <<flush, posts>>
  BY DEF Handle, FinishBatch
<1>2. CASE PollTimeout(l) \/ PollFailed(l) \/ Woken(l) \/ PollExpired(l) \/ ReplyExpired(l) \/ AckedCommand(l)
  BY <1>2 DEF PollTimeout, PollFailed, Woken, PollExpired, ReplyExpired, SessionExpired, AckedCommand, queue
<1>3. CASE Answer(l) \/ AckedText(l) \/ Replied(l)
  BY <1>1, <1>3 DEF Answer, AckedText, Replied
<1>4. CASE ReplyFailed(l) \/ AgainFailed(l) \/ AckedUnbound(l)
  BY <1>1, <1>4 DEF ReplyFailed, AgainFailed, AckedUnbound, FallThrough, DropBatch, AnswerAgain, queue
<1>5. QED
  BY <1>2, <1>3, <1>4

LEMMA QueueStutter == QueueInv /\ UNCHANGED queue => QueueInv'
BY DEF queue, outcome, QueueInv, QueueTypes, PostedOnce, FlushHolds, DeliveredWasSent, SentOnce, InFlight,
       Flushing

LEMMA QueueNext == QueueInv /\ [Next]_vars => QueueInv'
<1> SUFFICES ASSUME QueueInv, [Next]_vars PROVE QueueInv'
  OBVIOUS
<1>1. CASE QueueNotification
  <2>1. queued + 1 \in 0..Len(TaskOf) /\ queued <= queued + 1
    BY <1>1, BoundsAssumption DEF QueueNotification, QueueInv, QueueTypes
  <2>2. QED
    BY <1>1, <2>1, FlushPendingStep DEF QueueNotification
<1>2. CASE NotificationSent \/ NotificationAborted
  BY <1>2, SentStep
<1>3. CASE NotificationFailed
  BY <1>3, FailedStep
<1>4. CASE Restart
  BY <1>4, RestartQueueStep
<1>5. ASSUME NEW l \in 0..MaxLogins,
             \/ Answer(l) \/ PollTimeout(l) \/ PollFailed(l) \/ Woken(l) \/ PollExpired(l)
             \/ AckedText(l) \/ AckedCommand(l) \/ Replied(l) \/ ReplyFailed(l)
             \/ AgainFailed(l) \/ AckedUnbound(l) \/ ReplyExpired(l)
      PROVE  QueueInv'
  <2>1. /\ FlushPending(queued) \/ UNCHANGED <<flush, posts>>
        /\ UNCHANGED <<queued, outcome>>
    BY <1>5, LoopsFlush
  <2>2. queued \in 0..Len(TaskOf) /\ queued <= queued
    BY BoundsAssumption DEF QueueInv, QueueTypes
  <2>3. QED
    BY <2>1, <2>2, FlushPendingStep, QueueStutter DEF queue
<1>6. ASSUME NEW q \in Logins, StartLogin(q) \/ LoginOver(q) \/ LoginGone(q) \/ Confirmed(q)
      PROVE  QueueInv'
  BY <1>6, QueueStutter DEF StartLogin, LoginOver, LoginGone, Confirmed
<1>7. CASE DisconnectAndLogout \/ UserWrites \/ ServiceExpires \/ TokenAges
  BY <1>7, QueueStutter DEF DisconnectAndLogout, UserWrites, ServiceExpires, TokenAges
<1>8. CASE UNCHANGED vars
  BY <1>8, QueueStutter DEF vars
<1>9. QED
  BY <1>1, <1>2, <1>3, <1>4, <1>5, <1>6, <1>7, <1>8 DEF Next

\* In one life of the server a notification is posted again only after a
\* failed post.
THEOREM NotificationsAreSentOnce == Spec => []SentOnce
<1>1. QueueInv => SentOnce
  BY DEF QueueInv, PostedOnce
<1>2. QED
  BY QueueInit, QueueNext, <1>1, PTL DEF Spec

\* A notification marked delivered was sent, or a later one of its task was.
THEOREM DeliveredWereSent == Spec => []DeliveredWasSent
<1>1. QueueInv => DeliveredWasSent
  BY DEF QueueInv
<1>2. QED
  BY QueueInit, QueueNext, <1>1, PTL DEF Spec

-----------------------------------------------------------------------------
(* The messages *)

LoopRec ==
  [pc : {"none", "wait", "ack", "reply", "again", "flush", "sleep"}, s : 0..MaxLogins,
   c : 0..MaxMail, batch : SUBSET (1..MaxMail)]

FileRec == [s : 0..MaxLogins, c : 0..MaxMail, tok : BOOLEAN]

MessageTypes ==
  /\ sess \in 0..MaxLogins /\ buf \in 0..MaxMail
  /\ file \in FileRec /\ tok \in BOOLEAN
  /\ poller \in [Logins -> {"new", "ask", "none"}]
  /\ loops \in [0..MaxLogins -> LoopRec]
  /\ mail \in Seq(Logins) /\ Len(mail) <= MaxMail
  /\ done \in [1..MaxMail -> Nat] /\ fwd \in [1..MaxMail -> Nat]

\* Nothing knows a session before its code is confirmed.
FreshCodes ==
  \A q \in Logins : poller[q] # "none" =>
    sess # q /\ file.s # q /\ \A m \in 1..Len(mail) : mail[m] # q

Untouched(m) == done[m] = 0 /\ fwd[m] = 0

Counted ==
  /\ \A m \in 1..MaxMail : done[m] <= 1 /\ fwd[m] <= 1
  /\ \A m \in 1..MaxMail : m > Len(mail) => Untouched(m)

\* A session's messages that were handled lie below the cursor c.
Covered(s, c) == \A m \in 1..Len(mail) : mail[m] = s /\ ~Untouched(m) => m <= c

Alone == \A k, l \in 0..MaxLogins : Running(k) /\ Running(l) => k = l

Cursors ==
  /\ Covered(sess, buf) /\ Covered(file.s, file.c)
  /\ \A l \in 0..MaxLogins : loops[l].pc = "wait" => Covered(loops[l].s, loops[l].c)

\* A batch lies below the cursors and has still to be handled, but for the
\* command that is being answered.
BatchHolds(r) ==
  /\ r.pc \in {"ack", "reply", "again"} <=> r.batch # {}
  /\ \A m \in r.batch :
       /\ m \in 1..Len(mail)
       /\ mail[m] = sess => m <= buf
       /\ mail[m] = file.s => m <= file.c
       /\ fwd[m] = 0
       /\ r.pc = "ack" \/ m # Least(r.batch) => done[m] = 0

Batches == \A l \in 0..MaxLogins : BatchHolds(loops[l])

MessageInv ==
  /\ MessageTypes /\ FreshCodes /\ Counted
  /\ ~overlapped => Alone /\ Cursors /\ Batches

messageVars == <<sess, buf, file, tok, poller, loops, mail, done, fwd, overlapped>>

-----------------------------------------------------------------------------

LEMMA Bounds ==
  MaxLogins \in Nat /\ MaxMail \in Nat
BY BoundsAssumption

LEMMA AtIsRec ==
  ASSUME NEW b \in SUBSET (1..MaxMail), NEW pc \in {"none", "ack", "flush", "sleep"}
  PROVE  At(pc, b) \in LoopRec
BY Bounds DEF At, LoopRec

LEMMA TurnIsRec ==
  ASSUME MessageTypes, NEW c \in 0..MaxMail
  PROVE  Turn(c) \in LoopRec
<1>1. Waiting(sess, c) \in LoopRec
  BY DEF MessageTypes, LoopRec, Waiting
<1>2. QED
  BY <1>1, AtIsRec DEF Turn, Ended

\* What Handle makes of the loop it is called for.
LEMMA HandleTo ==
  ASSUME MessageTypes, NEW l \in 0..MaxLogins, NEW b \in SUBSET (1..MaxMail), NEW c \in 0..MaxMail,
         Handle(l, b, c)
  PROVE  \E r \in LoopRec :
           /\ loops' = [loops EXCEPT ![l] = r]
           /\ \/ b = {} /\ (r = Turn(c) \/ r = At("flush", {}))
              \/ b # {} /\ r = At("ack", b)
           /\ tok' \in BOOLEAN
<1>1. CASE b = {}
  <2>1. PICK r \in {Turn(c), At("flush", {})} :
          loops' = [loops EXCEPT ![l] = r] /\ tok' = tok
    BY <1>1 DEF Handle, FinishBatch, LoopTo
  <2>2. r \in LoopRec
    BY AtIsRec, TurnIsRec
  <2>3. QED
    BY <1>1, <2>1, <2>2 DEF MessageTypes
<1>2. CASE b # {}
  <2> DEFINE r == At("ack", b)
  <2>1. r \in LoopRec
    BY AtIsRec
  <2>2. loops' = [loops EXCEPT ![l] = r] /\ tok' = TRUE
    BY <1>2 DEF Handle, LoopTo
  <2> HIDE DEF r
  <2>3. QED
    BY <1>2, <2>1, <2>2 DEF r
<1>3. QED
  BY <1>1, <1>2

LEMMA CurrentFacts ==
  ASSUME MessageInv, ~overlapped, NEW l \in 0..MaxLogins, loops[l].pc \in {"ack", "reply", "again"}
  PROVE  /\ Current(l) \in loops[l].batch
         /\ Current(l) \in 1..Len(mail) /\ Current(l) \in 1..MaxMail
         /\ Rest(l) \subseteq loops[l].batch
<1>1. loops[l].batch \in SUBSET Nat /\ loops[l].batch # {}
  <2>1. loops[l] \in LoopRec
    BY DEF MessageInv, MessageTypes
  <2>2. loops[l].batch \subseteq 1..MaxMail
    BY <2>1 DEF LoopRec
  <2>3. QED
    BY <2>2 DEF MessageInv, Batches, BatchHolds
<1>2. Current(l) \in loops[l].batch
  BY <1>1, LeastFacts DEF Current
<1>3. QED
  BY <1>2 DEF MessageInv, MessageTypes, LoopRec, Batches, BatchHolds, Rest

LEMMA MessageInit == Init => MessageInv
<1> SUFFICES ASSUME Init PROVE MessageInv
  OBVIOUS
<1> USE BoundsAssumption
<1>1. MessageTypes
  <2>1. loops \in [0..MaxLogins -> LoopRec]
    BY AtIsRec DEF Init, Ended
  <2>2. file \in FileRec /\ tok \in BOOLEAN
    <3>1. file = [s |-> 0, c |-> 0, tok |-> FALSE] /\ tok = FALSE
      BY DEF Init, NoFile
    <3>2. 0 \in 0..MaxLogins /\ 0 \in 0..MaxMail /\ FALSE \in BOOLEAN
      BY Bounds
    <3>3. QED
      BY <3>1, <3>2, Zenon DEF FileRec
  <2>3. mail \in Seq(Logins) /\ Len(mail) <= MaxMail
    BY DEF Init
  <2>4. QED
    BY <2>1, <2>2, <2>3 DEF Init, MessageTypes
<1>2. FreshCodes /\ Counted
  BY DEF Init, FreshCodes, Counted, Untouched, NoFile, Logins
<1>3. Alone /\ Cursors /\ Batches
  <2>1. \A l \in 0..MaxLogins : loops[l].pc = "none" /\ loops[l].batch = {}
    BY DEF Init, Ended, At
  <2>2. Len(mail) = 0
    BY DEF Init
  <2>3. QED
    BY <2>1, <2>2 DEF Alone, Running, Cursors, Covered, Batches, BatchHolds
<1>4. QED
  BY <1>1, <1>2, <1>3 DEF MessageInv

LEMMA MessageStutter == MessageInv /\ UNCHANGED messageVars => MessageInv'
<1> SUFFICES ASSUME MessageInv, UNCHANGED messageVars PROVE MessageInv'
  OBVIOUS
<1>1. MessageTypes' /\ FreshCodes' /\ Counted'
  BY DEF messageVars, MessageInv, MessageTypes, FreshCodes, Counted, Untouched
<1>2. ~overlapped' => Alone' /\ Cursors'
  BY DEF messageVars, MessageInv, Alone, Running, Cursors, Covered, Untouched
<1>3. ~overlapped' => Batches'
  BY DEF messageVars, MessageInv, Batches, BatchHolds
<1>4. QED
  BY <1>1, <1>2, <1>3 DEF MessageInv

\* One loop moves while no other runs.
LEMMA OneLoopMoves ==
  ASSUME MessageInv, ~overlapped, NEW l \in 0..MaxLogins, NEW r \in LoopRec,
         loops' = [loops EXCEPT ![l] = r],
         \A k \in 0..MaxLogins : k # l => ~Running(k),
         Covered(sess, buf)', Covered(file.s, file.c)',
         r.pc = "wait" => Covered(r.s, r.c)',
         BatchHolds(r)'
  PROVE  (Alone /\ Cursors /\ Batches)'
<1>1. loops'[l] = r /\ \A k \in 0..MaxLogins : k # l => loops'[k] = loops[k]
  BY DEF MessageInv, MessageTypes
<1>2. \A k \in 0..MaxLogins : k # l => loops'[k].pc = "none" /\ loops'[k].batch = {}
  BY <1>1 DEF MessageInv, Batches, BatchHolds, Running
<1>3. Alone'
  BY <1>1, <1>2 DEF Alone, Running
<1>4. Cursors'
  BY <1>1, <1>2 DEF Cursors
<1>5. Batches'
  BY <1>1, <1>2 DEF Batches, BatchHolds
<1>6. QED
  BY <1>3, <1>4, <1>5

\* A running loop moves to r, and what is handled grows.
LEMMA LoopMove ==
  ASSUME MessageInv, NEW l \in 0..MaxLogins, NEW r \in LoopRec,
         loops' = [loops EXCEPT ![l] = r], Running(l),
         sess' \in {0, sess}, buf' \in 0..MaxMail, file' \in FileRec, tok' \in BOOLEAN,
         file'.s \in {sess, file.s},
         UNCHANGED <<poller, mail, overlapped>>,
         done' \in [1..MaxMail -> Nat], fwd' \in [1..MaxMail -> Nat], Counted',
         ~overlapped => /\ Covered(sess, buf)' /\ Covered(file.s, file.c)'
                        /\ r.pc = "wait" => Covered(r.s, r.c)'
                        /\ BatchHolds(r)'
  PROVE  MessageInv'
<1>1. MessageTypes'
  <2>1. loops' \in [0..MaxLogins -> LoopRec]
    BY DEF MessageInv, MessageTypes
  <2>2. sess' \in 0..MaxLogins
    BY Bounds DEF MessageInv, MessageTypes
  <2>3. QED
    BY <2>1, <2>2 DEF MessageInv, MessageTypes
<1>2. FreshCodes'
  BY DEF MessageInv, MessageTypes, FreshCodes, Logins
<1>3. ASSUME ~overlapped PROVE (Alone /\ Cursors /\ Batches)'
  <2>1. \A k \in 0..MaxLogins : k # l => ~Running(k)
    BY <1>3 DEF MessageInv, Alone
  <2>2. QED
    BY <1>3, <2>1, OneLoopMoves
<1>4. QED
  BY <1>1, <1>2, <1>3 DEF MessageInv

\* A batch without messages has nothing to hold.
LEMMA EmptyBatchHolds ==
  ASSUME NEW r, r.batch = {}, r.pc \notin {"ack", "reply", "again"}
  PROVE  BatchHolds(r)'
BY DEF BatchHolds

LEMMA AtFields ==
  ASSUME NEW pc, NEW b
  PROVE  At(pc, b).pc = pc /\ At(pc, b).batch = b
BY DEF At

LEMMA TurnFields ==
  ASSUME NEW c
  PROVE  /\ Turn(c).batch = {} /\ Turn(c).pc \in {"wait", "none"}
         /\ Turn(c).pc = "wait" => Turn(c).s = sess /\ Turn(c).c = c
BY DEF Turn, Waiting, Ended, At

\* The loop goes on to batch b, or to the end of its turn.
LEMMA HandleMove ==
  ASSUME MessageInv, NEW l \in 0..MaxLogins, Running(l),
         NEW b \in SUBSET (1..MaxMail), NEW c \in 0..MaxMail, Handle(l, b, c),
         UNCHANGED <<sess, poller, mail, overlapped>>,
         buf' \in 0..MaxMail, file' \in FileRec, file'.s \in {sess, file.s},
         done' \in [1..MaxMail -> Nat], fwd' \in [1..MaxMail -> Nat], Counted',
         ~overlapped =>
           /\ Covered(sess, buf)' /\ Covered(file.s, file.c)' /\ Covered(sess, c)'
           /\ \A m \in b : /\ m \in 1..Len(mail)
                           /\ mail[m] = sess => m <= buf'
                           /\ mail[m] = file'.s => m <= file'.c
                           /\ fwd'[m] = 0 /\ done'[m] = 0
  PROVE  MessageInv'
<1>1. PICK r \in LoopRec :
        /\ loops' = [loops EXCEPT ![l] = r]
        /\ \/ b = {} /\ (r = Turn(c) \/ r = At("flush", {}))
           \/ b # {} /\ r = At("ack", b)
        /\ tok' \in BOOLEAN
  BY HandleTo DEF MessageInv
<1>2. CASE b = {}
  <2>1. /\ r.batch = {} /\ r.pc \notin {"ack", "reply", "again"}
        /\ r.pc = "wait" => r.s = sess /\ r.c = c
    BY <1>1, <1>2, TurnFields, AtFields
  <2>2. BatchHolds(r)'
    BY <2>1, EmptyBatchHolds
  <2>3. ~overlapped => (r.pc = "wait" => Covered(r.s, r.c)')
    BY <2>1 DEF Covered
  <2>4. QED
    BY <1>1, <2>2, <2>3, LoopMove
<1>3. CASE b # {}
  <2>1. r.batch = b /\ r.pc = "ack"
    <3>1. r = At("ack", b)
      BY <1>1, <1>3
    <3>2. QED
      BY <3>1 DEF At
  <2>2. ~overlapped => BatchHolds(r)'
    BY <1>3, <2>1 DEF BatchHolds
  <2>3. QED
    BY <1>1, <2>1, <2>2, LoopMove
<1>4. QED
  BY <1>2, <1>3

\* The current message is forwarded, or its command executed, or both.
Touch(l) ==
  /\ fwd' = fwd \/ fwd' = Plus(fwd, Current(l))
  /\ \/ done' = done
     \/ loops[l].pc = "ack" /\ done' = Plus(done, Current(l))

\* One more in one place, where nothing was.
LEMMA OneMore ==
  ASSUME NEW f \in [1..MaxMail -> Nat], NEW g, NEW cur \in 1..MaxMail,
         \A m \in 1..MaxMail : f[m] <= 1,
         g = f \/ (f[cur] = 0 /\ g = [f EXCEPT ![cur] = @ + 1])
  PROVE  /\ g \in [1..MaxMail -> Nat]
         /\ \A m \in 1..MaxMail : g[m] <= 1 /\ (m # cur => g[m] = f[m])
<1>1. CASE g = f
  BY <1>1
<1>2. CASE f[cur] = 0 /\ g = [f EXCEPT ![cur] = 1]
  BY <1>2
<1>3. QED
  BY <1>1, <1>2

LEMMA TouchStep ==
  ASSUME MessageInv, NEW l \in 0..MaxLogins, loops[l].pc \in {"ack", "reply", "again"},
         Touch(l), UNCHANGED <<sess, buf, file, mail, overlapped>>
  PROVE  /\ done' \in [1..MaxMail -> Nat] /\ fwd' \in [1..MaxMail -> Nat] /\ Counted'
         /\ ~overlapped =>
              /\ Covered(sess, buf)' /\ Covered(file.s, file.c)'
              /\ \A m \in Rest(l) : fwd'[m] = 0 /\ done'[m] = 0
<1> DEFINE cur == Current(l)
<1>1. CASE overlapped
  BY <1>1 DEF Touch, Plus, MessageInv, MessageTypes, Counted, Untouched
<1>2. CASE ~overlapped
  <2>1. /\ cur \in loops[l].batch /\ cur \in 1..Len(mail) /\ cur \in 1..MaxMail
        /\ Rest(l) = loops[l].batch \ {cur}
    BY <1>2, CurrentFacts DEF Rest
  <2>2. BatchHolds(loops[l]) /\ Covered(sess, buf) /\ Covered(file.s, file.c)
    BY <1>2 DEF MessageInv, Batches, Cursors
  <2>3. /\ fwd[cur] = 0
        /\ loops[l].pc = "ack" => done[cur] = 0
        /\ mail[cur] = sess => cur <= buf
        /\ mail[cur] = file.s => cur <= file.c
        /\ \A m \in Rest(l) : fwd[m] = 0 /\ done[m] = 0
    BY <2>1, <2>2 DEF BatchHolds, Current
  <2>4. /\ done \in [1..MaxMail -> Nat] /\ fwd \in [1..MaxMail -> Nat]
        /\ \A m \in 1..MaxMail : done[m] <= 1 /\ fwd[m] <= 1
    BY DEF MessageInv, MessageTypes, Counted
  <2>5. /\ fwd' \in [1..MaxMail -> Nat]
        /\ \A m \in 1..MaxMail : fwd'[m] <= 1 /\ (m # cur => fwd'[m] = fwd[m])
    <3>1. fwd' = fwd \/ (fwd[cur] = 0 /\ fwd' = [fwd EXCEPT ![cur] = @ + 1])
      BY <1>2, <2>3 DEF Touch, Plus
    <3> HIDE DEF cur
    <3>2. QED
      BY <2>1, <2>4, <3>1, OneMore
  <2>6. /\ done' \in [1..MaxMail -> Nat]
        /\ \A m \in 1..MaxMail : done'[m] <= 1 /\ (m # cur => done'[m] = done[m])
    <3>1. done' = done \/ (done[cur] = 0 /\ done' = [done EXCEPT ![cur] = @ + 1])
      BY <1>2, <2>3 DEF Touch, Plus
    <3> HIDE DEF cur
    <3>2. QED
      BY <2>1, <2>4, <3>1, OneMore
  <2>7. done' \in [1..MaxMail -> Nat] /\ fwd' \in [1..MaxMail -> Nat]
    BY <2>5, <2>6
  <2>8. /\ \A m \in 1..MaxMail : m # cur => done'[m] = done[m] /\ fwd'[m] = fwd[m]
        /\ \A m \in 1..MaxMail : done'[m] <= 1 /\ fwd'[m] <= 1
    BY <2>5, <2>6
  <2>9. Counted'
    BY <2>1, <2>8 DEF MessageInv, MessageTypes, Counted, Untouched
  <2>10. Covered(sess, buf)' /\ Covered(file.s, file.c)'
    <3>1. 1..Len(mail) \subseteq 1..MaxMail
      BY Bounds DEF MessageInv, MessageTypes
    <3>2. QED
      BY <2>2, <2>3, <2>8, <3>1 DEF Covered, Untouched
  <2>11. \A m \in Rest(l) : fwd'[m] = 0 /\ done'[m] = 0
    <3>1. Rest(l) \subseteq 1..MaxMail
      BY <2>1 DEF MessageInv, MessageTypes, LoopRec
    <3>2. QED
      BY <2>1, <2>3, <2>8, <3>1
  <2>12. QED
    BY <2>7, <2>9, <2>10, <2>11
<1>3. QED
  BY <1>1, <1>2

LEMMA MailFacts ==
  ASSUME MessageInv
  PROVE  /\ Len(mail) \in Nat /\ 1..Len(mail) \subseteq 1..MaxMail
         /\ \A m \in 1..Len(mail) : mail[m] \in Logins /\ mail[m] # 0
<1>1. mail \in Seq(1..MaxLogins) /\ Len(mail) <= MaxMail /\ MaxLogins \in Nat /\ MaxMail \in Nat
  BY Bounds DEF MessageInv, MessageTypes, Logins
<1>2. Len(mail) \in Nat /\ \A m \in 1..Len(mail) : mail[m] \in 1..MaxLogins
  BY <1>1
<1>3. \A m \in 1..Len(mail) : mail[m] # 0
  BY <1>1, <1>2
<1>4. QED
  BY <1>1, <1>2, <1>3 DEF Logins

\* A loop that has been running ends its wait or its sleep.
LEMMA TurnStep ==
  ASSUME MessageInv, NEW l \in 0..MaxLogins, Running(l),
         PollTimeout(l) \/ PollFailed(l) \/ Woken(l)
  PROVE  MessageInv'
<1>1. buf \in 0..MaxMail /\ sess \in 0..MaxLogins /\ file \in FileRec /\ tok \in BOOLEAN
  BY DEF MessageInv, MessageTypes
<1>2. PICK r \in {Turn(buf), At("sleep", {})} :
        /\ loops' = [loops EXCEPT ![l] = r]
        /\ UNCHANGED <<sess, buf, file, tok, poller, mail, done, fwd, overlapped>>
  BY DEF PollTimeout, PollFailed, Woken, LoopTo, link, login, service, handled
<1>3. r \in LoopRec
  BY <1>1, AtIsRec, TurnIsRec DEF MessageInv
<1>4. /\ r.batch = {} /\ r.pc \notin {"ack", "reply", "again"}
      /\ r.pc = "wait" => r.s = sess /\ r.c = buf
  BY AtFields, TurnFields
<1>5. BatchHolds(r)'
  BY <1>4, EmptyBatchHolds
<1>6. ~overlapped => /\ Covered(sess, buf)' /\ Covered(file.s, file.c)'
                     /\ r.pc = "wait" => Covered(r.s, r.c)'
  BY <1>2, <1>4 DEF MessageInv, Cursors, Covered, Untouched
<1>7. Counted' /\ done' \in [1..MaxMail -> Nat] /\ fwd' \in [1..MaxMail -> Nat]
  BY <1>2 DEF MessageInv, MessageTypes, Counted, Untouched
<1>8. QED
  BY <1>1, <1>2, <1>3, <1>5, <1>6, <1>7, LoopMove

LEMMA ExpiredStep ==
  ASSUME MessageInv, NEW l \in 0..MaxLogins, Running(l), SessionExpired(l)
  PROVE  MessageInv'
<1>1. buf \in 0..MaxMail /\ file \in FileRec /\ tok \in BOOLEAN
  BY DEF MessageInv, MessageTypes
<1>2. /\ loops' = [loops EXCEPT ![l] = Ended] /\ sess' = 0
      /\ UNCHANGED <<buf, file, tok, poller, mail, done, fwd, overlapped>>
  BY DEF SessionExpired, LoopTo, login, service, handled
<1>3. Ended \in LoopRec /\ Ended.batch = {} /\ Ended.pc = "none"
  BY AtIsRec, AtFields DEF Ended
<1>4. BatchHolds(Ended)'
  BY <1>3, EmptyBatchHolds
<1>5. Counted' /\ done' \in [1..MaxMail -> Nat] /\ fwd' \in [1..MaxMail -> Nat]
  BY <1>2 DEF MessageInv, MessageTypes, Counted, Untouched
<1>6. Covered(sess, buf)'
  BY <1>2, MailFacts DEF Covered
<1>7. ~overlapped => Covered(file.s, file.c)'
  BY <1>2 DEF MessageInv, Cursors, Covered, Untouched
<1>8. QED
  BY <1>1, <1>2, <1>3, <1>4, <1>5, <1>6, <1>7, LoopMove

LEMMA AnswerStep ==
  ASSUME MessageInv, NEW l \in 0..MaxLogins, Answer(l)
  PROVE  MessageInv'
<1> DEFINE b == {m \in DOMAIN mail : m > loops[l].c /\ mail[m] = loops[l].s}
<1>1. /\ sess \in 0..MaxLogins /\ tok \in BOOLEAN
      /\ mail \in Seq(Logins) /\ Len(mail) <= MaxMail /\ loops[l] \in LoopRec
  BY DEF MessageInv, MessageTypes
<1>2. /\ loops[l].pc = "wait" /\ Running(l)
      /\ buf' = Len(mail) /\ file' = [s |-> sess, c |-> Len(mail), tok |-> tok]
      /\ Handle(l, b, Len(mail))
      /\ UNCHANGED <<sess, poller, mail, done, fwd, overlapped>>
  BY DEF Answer, SaveCursor, Running, login, service, handled
<1>3. Len(mail) \in 0..MaxMail /\ DOMAIN mail = 1..Len(mail) /\ 1..Len(mail) \subseteq 1..MaxMail
  BY <1>1, Bounds
<1>4. b \in SUBSET (1..MaxMail)
  BY <1>3
<1>5. file' \in FileRec /\ file'.s = sess /\ file'.c = Len(mail)
  BY <1>1, <1>2, <1>3 DEF FileRec
<1>6. Counted' /\ done' \in [1..MaxMail -> Nat] /\ fwd' \in [1..MaxMail -> Nat]
  BY <1>2 DEF MessageInv, MessageTypes, Counted, Untouched
<1>7. Covered(sess, buf)' /\ Covered(file.s, file.c)' /\ Covered(sess, Len(mail))'
  BY <1>2, <1>3, <1>5 DEF Covered
<1>8. ~overlapped => \A m \in b : fwd'[m] = 0 /\ done'[m] = 0
  <2>1. ~overlapped => Covered(loops[l].s, loops[l].c)
    BY <1>2 DEF MessageInv, Cursors
  <2>2. loops[l].c \in 0..MaxMail
    BY <1>1 DEF LoopRec
  <2>3. QED
    BY <1>2, <1>3, <2>1, <2>2 DEF Covered, Untouched
<1>9. \A m \in b : /\ m \in 1..Len(mail)
                   /\ mail[m] = sess => m <= buf'
                   /\ mail[m] = file'.s => m <= file'.c
  BY <1>2, <1>3, <1>5
<1> HIDE DEF b
<1>10. QED
  BY <1>2, <1>3, <1>4, <1>5, <1>6, <1>7, <1>8, <1>9, HandleMove

\* The loop goes on with the rest of its batch.
LEMMA RestStep ==
  ASSUME MessageInv, NEW l \in 0..MaxLogins, loops[l].pc \in {"ack", "reply", "again"},
         Touch(l), Handle(l, Rest(l), buf),
         UNCHANGED <<sess, buf, file, poller, mail, overlapped>>
  PROVE  MessageInv'
<1>1. /\ done' \in [1..MaxMail -> Nat] /\ fwd' \in [1..MaxMail -> Nat] /\ Counted'
      /\ ~overlapped =>
           /\ Covered(sess, buf)' /\ Covered(file.s, file.c)'
           /\ \A m \in Rest(l) : fwd'[m] = 0 /\ done'[m] = 0
  BY TouchStep
<1>2. Rest(l) \subseteq loops[l].batch /\ loops[l].batch \in SUBSET (1..MaxMail)
  BY DEF Rest, MessageInv, MessageTypes, LoopRec
<1>3. ~overlapped => \A m \in Rest(l) : /\ m \in 1..Len(mail)
                                        /\ mail[m] = sess => m <= buf'
                                        /\ mail[m] = file'.s => m <= file'.c
  BY <1>2 DEF MessageInv, Batches, BatchHolds
<1>4. buf \in 0..MaxMail /\ file \in FileRec /\ Running(l)
  BY DEF MessageInv, MessageTypes, Running
<1>5. ~overlapped => Covered(sess, buf)'
  BY <1>1
<1>6. QED
  BY <1>1, <1>2, <1>3, <1>4, <1>5, HandleMove

\* The loop leaves the rest of its batch alone and sleeps.
LEMMA DropStep ==
  ASSUME MessageInv, NEW l \in 0..MaxLogins, loops[l].pc \in {"ack", "reply", "again"},
         Touch(l), loops' = [loops EXCEPT ![l] = At("sleep", {})],
         UNCHANGED <<sess, buf, file, tok, poller, mail, overlapped>>
  PROVE  MessageInv'
<1> DEFINE r == At("sleep", {})
<1>1. r \in LoopRec /\ r.batch = {} /\ r.pc = "sleep"
  BY AtIsRec, AtFields
<1>2. BatchHolds(r)'
  BY <1>1, EmptyBatchHolds
<1>3. /\ done' \in [1..MaxMail -> Nat] /\ fwd' \in [1..MaxMail -> Nat] /\ Counted'
      /\ ~overlapped => Covered(sess, buf)' /\ Covered(file.s, file.c)'
  BY TouchStep
<1>4. buf \in 0..MaxMail /\ file \in FileRec /\ tok \in BOOLEAN /\ Running(l)
  BY DEF MessageInv, MessageTypes, Running
<1> HIDE DEF r
<1>5. loops' = [loops EXCEPT ![l] = r]
  BY DEF r
<1>6. QED
  BY <1>1, <1>2, <1>3, <1>4, <1>5, LoopMove

\* The command of the message in hand is answered, or answered again.
LEMMA ReplyingStep ==
  ASSUME MessageInv, NEW l \in 0..MaxLogins, loops[l].pc \in {"ack", "reply", "again"},
         NEW pc \in {"reply", "again"}, Touch(l),
         loops' = [loops EXCEPT ![l] = [At(pc, loops[l].batch) EXCEPT !.s = sess]],
         UNCHANGED <<sess, buf, file, tok, poller, mail, fwd, overlapped>>
  PROVE  MessageInv'
<1>1. PICK b, r :
        /\ b = loops[l].batch /\ r = [At(pc, b) EXCEPT !.s = sess]
        /\ loops' = [loops EXCEPT ![l] = r]
  OBVIOUS
<1>2. /\ done' \in [1..MaxMail -> Nat] /\ fwd' \in [1..MaxMail -> Nat] /\ Counted'
      /\ ~overlapped =>
           /\ Covered(sess, buf)' /\ Covered(file.s, file.c)'
           /\ \A m \in Rest(l) : fwd'[m] = 0 /\ done'[m] = 0
  BY TouchStep
<1>3. buf \in 0..MaxMail /\ file \in FileRec /\ tok \in BOOLEAN /\ Running(l)
      /\ sess \in 0..MaxLogins /\ b \in SUBSET (1..MaxMail)
  BY <1>1 DEF MessageInv, MessageTypes, Running, LoopRec
<1>4. r \in LoopRec /\ r.pc = pc /\ r.batch = b
  BY <1>1, <1>3, Bounds DEF LoopRec, At
<1>5. ~overlapped => BatchHolds(r)'
  <2> SUFFICES ASSUME ~overlapped PROVE BatchHolds(r)'
    OBVIOUS
  <2>1. BatchHolds(loops[l])
    BY DEF MessageInv, Batches
  <2>2. Rest(l) = b \ {Least(b)}
    BY <1>1 DEF Rest, Current
  <2>3. \A m \in b : m # Least(b) => done'[m] = 0
    BY <1>2, <2>2
  <2>4. QED
    BY <1>1, <1>4, <2>1, <2>3 DEF BatchHolds
<1>6. QED
  BY <1>1, <1>2, <1>3, <1>4, <1>5, LoopMove

\* A loop of a batch: the message in hand, and what comes of it.
LEMMA MessageStep ==
  ASSUME MessageInv, NEW l \in 0..MaxLogins,
         \/ AckedText(l) \/ AckedCommand(l) \/ Replied(l) \/ ReplyFailed(l)
         \/ AgainFailed(l) \/ AckedUnbound(l)
  PROVE  MessageInv'
<1>1. /\ loops[l].pc \in {"ack", "reply", "again"}
      /\ UNCHANGED <<sess, buf, file, poller, mail, overlapped>>
  BY DEF AckedText, AckedCommand, Replied, ReplyFailed, AgainFailed, AckedUnbound, FallThrough,
         DropBatch, AnswerAgain, link, login, service
<1>2. Touch(l)
  BY DEF AckedText, AckedCommand, Replied, ReplyFailed, AgainFailed, AckedUnbound, FallThrough,
         DropBatch, AnswerAgain, Touch, handled
<1>3. \/ Handle(l, Rest(l), buf)
      \/ loops' = [loops EXCEPT ![l] = At("sleep", {})] /\ tok' = tok
      \/ /\ \E pc \in {"reply", "again"} :
              loops' = [loops EXCEPT ![l] = [At(pc, loops[l].batch) EXCEPT !.s = sess]]
         /\ UNCHANGED <<tok, fwd>>
  BY DEF AckedText, AckedCommand, Replied, ReplyFailed, AgainFailed, AckedUnbound, FallThrough,
         DropBatch, AnswerAgain, LoopTo
<1>4. QED
  BY <1>1, <1>2, <1>3, RestStep, DropStep, ReplyingStep

\* The end of a flush lets the loops that waited for it go on.
LEMMA ReleasedStep ==
  ASSUME MessageInv, loops' = Released,
         UNCHANGED <<sess, buf, file, tok, poller, mail, done, fwd, overlapped>>
  PROVE  MessageInv'
<1>1. buf \in 0..MaxMail /\ loops \in [0..MaxLogins -> LoopRec] /\ Turn(buf) \in LoopRec
  BY TurnIsRec DEF MessageInv, MessageTypes
<1>2. \A l \in 0..MaxLogins :
        \/ loops'[l] = loops[l]
        \/ loops[l].pc = "flush" /\ loops'[l] = Turn(buf)
  BY <1>1 DEF Released
<1>3. loops' \in [0..MaxLogins -> LoopRec]
  BY <1>1 DEF Released
<1>4. MessageTypes' /\ FreshCodes' /\ Counted'
  BY <1>3 DEF MessageInv, MessageTypes, FreshCodes, Counted, Untouched
<1>5. ASSUME ~overlapped PROVE (Alone /\ Cursors /\ Batches)'
  <2>1. Alone'
    BY <1>2, <1>5 DEF MessageInv, Alone, Running
  <2>2. Cursors'
    BY <1>2, <1>5, TurnFields DEF MessageInv, Cursors, Covered, Untouched
  <2>3. ASSUME NEW l \in 0..MaxLogins PROVE BatchHolds(loops[l])'
    <3>1. CASE loops'[l] = loops[l]
      BY <1>5, <3>1 DEF MessageInv, Batches, BatchHolds
    <3>2. CASE loops'[l] = Turn(buf)
      BY <3>2, TurnFields DEF BatchHolds
    <3>3. QED
      BY <1>2, <3>1, <3>2
  <2>4. QED
    BY <2>1, <2>2, <2>3 DEF Batches
<1>6. QED
  BY <1>4, <1>5 DEF MessageInv

LEMMA LoginStep ==
  ASSUME MessageInv, NEW q \in Logins, StartLogin(q) \/ LoginOver(q) \/ LoginGone(q)
  PROVE  MessageInv'
<1>1. PICK p \in {"ask", "none"} :
        /\ poller' = [poller EXCEPT ![q] = p] /\ poller[q] # "none"
        /\ UNCHANGED <<sess, buf, file, tok, loops, mail, done, fwd, overlapped>>
  BY DEF StartLogin, LoginOver, LoginGone, link, service, handled
<1>2. MessageTypes' /\ FreshCodes'
  BY <1>1 DEF MessageInv, MessageTypes, FreshCodes
<1>3. Counted' /\ (~overlapped => Alone /\ Cursors /\ Batches)'
  BY <1>1 DEF MessageInv, Counted, Untouched, Alone, Running, Cursors, Covered, Batches, BatchHolds
<1>4. QED
  BY <1>2, <1>3 DEF MessageInv

LEMMA ConfirmedStep ==
  ASSUME MessageInv, NEW q \in Logins, Confirmed(q)
  PROVE  MessageInv'
<1>1. /\ poller[q] = "ask" /\ poller' = [poller EXCEPT ![q] = "none"]
      /\ sess' = q /\ file' = [s |-> q, c |-> buf, tok |-> tok]
      /\ UNCHANGED <<buf, tok, mail, done, fwd>>
      /\ \/ UNCHANGED <<loops, overlapped>>
         \/ /\ loops' = [loops EXCEPT ![q] = Waiting(q, buf)]
            /\ overlapped' = (overlapped \/ \E l \in DOMAIN loops : Running(l))
  BY DEF Confirmed, LoopTo, service, handled
<1>2. /\ q \in 1..MaxLogins /\ q \in 0..MaxLogins /\ buf \in 0..MaxMail /\ tok \in BOOLEAN
      /\ loops \in [0..MaxLogins -> LoopRec]
  BY Bounds DEF MessageInv, MessageTypes, Logins
<1>3. Waiting(q, buf) \in LoopRec /\ file' \in FileRec
  BY <1>1, <1>2 DEF Waiting, LoopRec, FileRec
<1>4. \A m \in 1..Len(mail) : mail[m] # q
  BY <1>1 DEF MessageInv, FreshCodes
<1>5. MessageTypes'
  BY <1>1, <1>2, <1>3 DEF MessageInv, MessageTypes
<1>6. FreshCodes' /\ Counted'
  BY <1>1 DEF MessageInv, MessageTypes, FreshCodes, Counted, Untouched
<1>7. Covered(sess, buf)' /\ Covered(file.s, file.c)' /\ Covered(q, buf)'
  BY <1>1, <1>4 DEF Covered
<1>8. ASSUME ~overlapped' PROVE (Alone /\ Cursors /\ Batches)'
  <2>1. ~overlapped
    BY <1>1, <1>8
  <2>2. CASE loops' = loops
    <3>1. Alone' /\ Cursors'
      BY <1>1, <1>7, <2>1, <2>2 DEF MessageInv, Alone, Running, Cursors, Covered, Untouched
    <3>2. Batches'
      BY <1>1, <1>4, <2>1, <2>2 DEF MessageInv, Batches, BatchHolds
    <3>3. QED
      BY <3>1, <3>2
  <2>3. CASE /\ loops' = [loops EXCEPT ![q] = Waiting(q, buf)]
             /\ \A l \in 0..MaxLogins : ~Running(l)
    <3>1. /\ loops'[q] = Waiting(q, buf)
          /\ \A l \in 0..MaxLogins : l # q => loops'[l] = loops[l] /\ loops[l].pc = "none"
      BY <1>2, <2>3 DEF Running
    <3>2. Waiting(q, buf).pc = "wait" /\ Waiting(q, buf).s = q /\ Waiting(q, buf).c = buf
          /\ Waiting(q, buf).batch = {}
      BY DEF Waiting
    <3>3. Alone'
      BY <3>1 DEF Alone, Running
    <3>4. Cursors'
      BY <1>1, <1>7, <3>1, <3>2 DEF Cursors, Covered
    <3>5. \A l \in 0..MaxLogins : l # q => loops[l].batch = {}
      BY <2>1, <3>1 DEF MessageInv, Batches, BatchHolds
    <3>6. Batches'
      BY <3>1, <3>2, <3>5 DEF Batches, BatchHolds
    <3>7. QED
      BY <3>3, <3>4, <3>6
  <2>4. QED
    BY <1>1, <1>2, <1>8, <2>2, <2>3
<1>9. QED
  BY <1>5, <1>6, <1>8 DEF MessageInv

LEMMA LogoutStep == MessageInv /\ DisconnectAndLogout => MessageInv'
<1> SUFFICES ASSUME MessageInv, DisconnectAndLogout PROVE MessageInv'
  OBVIOUS
<1>1. /\ sess' = 0 /\ buf' = 0 /\ tok' = FALSE /\ file' = [s |-> 0, c |-> 0, tok |-> FALSE]
      /\ UNCHANGED <<poller, loops, mail, done, fwd, overlapped>>
  BY DEF DisconnectAndLogout, NoFile, service, handled
<1>2. file' \in FileRec /\ sess' \in 0..MaxLogins /\ tok' \in BOOLEAN
  <2>1. 0 \in 0..MaxLogins /\ 0 \in 0..MaxMail /\ FALSE \in BOOLEAN
    BY Bounds
  <2>2. QED
    BY <1>1, <2>1, Zenon DEF FileRec
<1>3. MessageTypes' /\ Counted'
  BY <1>1, <1>2, Bounds DEF MessageInv, MessageTypes, Counted, Untouched
<1>4. FreshCodes'
  BY <1>1 DEF MessageInv, FreshCodes, Logins
<1>5. Covered(sess, buf)' /\ Covered(file.s, file.c)'
  BY <1>1, MailFacts DEF Covered
<1>6. ASSUME ~overlapped PROVE (Alone /\ Cursors /\ Batches)'
  <2>1. Alone' /\ Cursors'
    BY <1>1, <1>5, <1>6 DEF MessageInv, Alone, Running, Cursors, Covered, Untouched
  <2>2. Batches'
    BY <1>1, <1>6, MailFacts DEF MessageInv, Batches, BatchHolds
  <2>3. QED
    BY <2>1, <2>2
<1>7. QED
  BY <1>1, <1>3, <1>4, <1>6 DEF MessageInv

LEMMA RestartMessageStep == MessageInv /\ Restart => MessageInv'
<1> SUFFICES ASSUME MessageInv, Restart PROVE MessageInv'
  OBVIOUS
<1>1. /\ sess' = file.s /\ buf' = file.c /\ tok' = file.tok
      /\ loops' = [l \in DOMAIN loops |->
                     IF l = 0 /\ file.s # 0 THEN Waiting(file.s, file.c) ELSE Ended]
      /\ poller' = [q \in Logins |-> IF poller[q] = "new" THEN "new" ELSE "none"]
      /\ UNCHANGED <<file, mail, done, fwd, overlapped>>
  BY DEF Restart, service, handled
<1>2. /\ file.s \in 0..MaxLogins /\ file.c \in 0..MaxMail /\ file.tok \in BOOLEAN
      /\ DOMAIN loops = 0..MaxLogins
  BY DEF MessageInv, MessageTypes, FileRec
<1>3. Waiting(file.s, file.c) \in LoopRec /\ Ended \in LoopRec
  BY <1>2, AtIsRec DEF Ended, Waiting, LoopRec
<1>4. MessageTypes'
  BY <1>1, <1>2, <1>3 DEF MessageInv, MessageTypes
<1>5. FreshCodes' /\ Counted'
  BY <1>1 DEF MessageInv, MessageTypes, FreshCodes, Counted, Untouched
<1>6. \A l \in 0..MaxLogins :
        /\ loops'[l].batch = {} /\ loops'[l].pc \in {"wait", "none"}
        /\ loops'[l].pc = "wait" => l = 0 /\ loops'[l].s = file.s /\ loops'[l].c = file.c
  BY <1>1, <1>2 DEF Waiting, Ended, At
<1>7. ASSUME ~overlapped PROVE (Alone /\ Cursors /\ Batches)'
  <2>1. Alone'
    BY <1>6 DEF Alone, Running
  <2>2. Cursors'
    BY <1>1, <1>6, <1>7 DEF MessageInv, Cursors, Covered, Untouched
  <2>3. Batches'
    BY <1>6 DEF Batches, BatchHolds
  <2>4. QED
    BY <2>1, <2>2, <2>3
<1>8. QED
  BY <1>1, <1>4, <1>5, <1>7 DEF MessageInv

LEMMA WriteStep == MessageInv /\ UserWrites => MessageInv'
<1> SUFFICES ASSUME MessageInv, UserWrites PROVE MessageInv'
  OBVIOUS
<1>1. /\ sess # 0 /\ mail' = Append(mail, sess) /\ Len(mail) < MaxMail
      /\ UNCHANGED <<sess, buf, file, tok, poller, loops, done, fwd, overlapped>>
  BY DEF UserWrites, link, login, handled
<1>2. sess \in Logins /\ mail \in Seq(Logins) /\ MaxMail \in Nat
  BY <1>1, Bounds DEF MessageInv, MessageTypes, Logins
<1>3. /\ mail' \in Seq(Logins) /\ Len(mail') = Len(mail) + 1 /\ Len(mail') <= MaxMail
      /\ mail'[Len(mail) + 1] = sess
      /\ \A m \in 1..Len(mail) : mail'[m] = mail[m]
  BY <1>1, <1>2
<1>4. done'[Len(mail) + 1] = 0 /\ fwd'[Len(mail) + 1] = 0
  <2>1. Len(mail) + 1 \in 1..MaxMail /\ Len(mail) + 1 > Len(mail)
    BY <1>1, <1>2
  <2>2. QED
    BY <1>1, <2>1 DEF MessageInv, Counted, Untouched
<1>5. MessageTypes' /\ FreshCodes' /\ Counted'
  <2>1. MessageTypes'
    BY <1>1, <1>3 DEF MessageInv, MessageTypes
  <2>2. FreshCodes'
    BY <1>1, <1>3, MailFacts DEF MessageInv, FreshCodes
  <2>3. Counted'
    BY <1>1, <1>3, MailFacts DEF MessageInv, Counted, Untouched
  <2>4. QED
    BY <2>1, <2>2, <2>3
<1>6. \A s, c : Covered(s, c) => \A m \in 1..Len(mail') : mail'[m] = s /\ ~Untouched(m)' => m <= c
  BY <1>1, <1>3, <1>4, MailFacts DEF Covered, Untouched
<1>7. ASSUME ~overlapped PROVE (Alone /\ Cursors /\ Batches)'
  <2>1. Alone'
    BY <1>1, <1>7 DEF MessageInv, Alone, Running
  <2>2. Cursors'
    BY <1>1, <1>6, <1>7 DEF MessageInv, Cursors, Covered
  <2>3. Batches'
    BY <1>1, <1>3, <1>7, MailFacts DEF MessageInv, Batches, BatchHolds
  <2>4. QED
    BY <2>1, <2>2, <2>3
<1>8. QED
  BY <1>1, <1>5, <1>7 DEF MessageInv

LEMMA TokenStep == MessageInv /\ TokenAges => MessageInv'
<1> SUFFICES ASSUME MessageInv, TokenAges PROVE MessageInv'
  OBVIOUS
<1>1. /\ tok' = FALSE /\ file' = [file EXCEPT !.tok = FALSE]
      /\ UNCHANGED <<sess, buf, poller, loops, mail, done, fwd, overlapped>>
  BY DEF TokenAges, login, service, handled
<1>2. file' \in FileRec /\ file'.s = file.s /\ file'.c = file.c
  BY <1>1 DEF MessageInv, MessageTypes, FileRec
<1>3. MessageTypes' /\ FreshCodes' /\ Counted'
  BY <1>1, <1>2 DEF MessageInv, MessageTypes, FreshCodes, Counted, Untouched
<1>4. (~overlapped => Alone /\ Cursors /\ Batches)'
  BY <1>1, <1>2 DEF MessageInv, Alone, Running, Cursors, Covered, Untouched, Batches, BatchHolds
<1>5. QED
  BY <1>3, <1>4 DEF MessageInv

LEMMA MessageNext == MessageInv /\ [Next]_vars => MessageInv'
<1> SUFFICES ASSUME MessageInv, [Next]_vars PROVE MessageInv'
  OBVIOUS
<1>1. CASE QueueNotification \/ ServiceExpires \/ UNCHANGED vars
  BY <1>1, MessageStutter
     DEF QueueNotification, ServiceExpires, vars, messageVars, link, login, service, handled
<1>2. CASE NotificationSent \/ NotificationAborted \/ NotificationFailed
  BY <1>2, ReleasedStep
     DEF NotificationSent, NotificationAborted, CameBack, NotificationFailed, link, login, service, handled
<1>3. ASSUME NEW l \in 0..MaxLogins,
             \/ Answer(l) \/ PollTimeout(l) \/ PollFailed(l) \/ Woken(l) \/ PollExpired(l)
             \/ AckedText(l) \/ AckedCommand(l) \/ Replied(l) \/ ReplyFailed(l)
             \/ AgainFailed(l) \/ AckedUnbound(l) \/ ReplyExpired(l)
      PROVE  MessageInv'
  <2>1. CASE PollTimeout(l) \/ PollFailed(l) \/ Woken(l)
    BY <2>1, TurnStep DEF PollTimeout, PollFailed, Woken, Running
  <2>2. CASE PollExpired(l) \/ ReplyExpired(l)
    BY <2>2, ExpiredStep DEF PollExpired, ReplyExpired, Running
  <2>3. CASE Answer(l)
    BY <2>3, AnswerStep
  <2>4. CASE \/ AckedText(l) \/ AckedCommand(l) \/ Replied(l) \/ ReplyFailed(l)
             \/ AgainFailed(l) \/ AckedUnbound(l)
    BY <2>4, MessageStep
  <2>5. QED
    BY <1>3, <2>1, <2>2, <2>3, <2>4
<1>4. ASSUME NEW q \in Logins, StartLogin(q) \/ LoginOver(q) \/ LoginGone(q) \/ Confirmed(q)
      PROVE  MessageInv'
  BY <1>4, LoginStep, ConfirmedStep
<1>5. CASE DisconnectAndLogout \/ Restart \/ UserWrites \/ TokenAges
  BY <1>5, LogoutStep, RestartMessageStep, WriteStep, TokenStep
<1>6. QED
  BY <1>1, <1>2, <1>3, <1>4, <1>5 DEF Next

\* As long as no second loop is started while one runs, a message is executed
\* or forwarded at most once, across restarts.
THEOREM MessagesAreHandledOnce == Spec => []HandledOnce
<1>1. MessageInv => HandledOnce
  <2> SUFFICES ASSUME MessageInv PROVE HandledOnce
    OBVIOUS
  <2>1. DOMAIN mail = 1..Len(mail)
    BY DEF MessageInv, MessageTypes
  <2>2. QED
    BY <2>1, MailFacts DEF MessageInv, Counted, HandledOnce
<1>2. QED
  BY MessageInit, MessageNext, <1>1, PTL DEF Spec

-----------------------------------------------------------------------------
(* Types *)

\* What the invariants above do not speak of.
FlagsOK ==
  /\ polling \in BOOLEAN /\ loginInProgress \in BOOLEAN /\ overlapped \in BOOLEAN
  /\ sent \subseteq 1..queued /\ aborted \subseteq 1..queued

LEMMA FlagsNext == QueueInv /\ MessageInv /\ FlagsOK /\ [Next]_vars => FlagsOK'
<1> SUFFICES ASSUME QueueInv, MessageInv, FlagsOK, [Next]_vars PROVE FlagsOK'
  OBVIOUS
<1> USE DEF queue, outcome
<1> USE DEF link, login, service, queue
<1>1. CASE QueueNotification
  <2>1. 1..queued \subseteq 1..queued'
    BY <1>1, BoundsAssumption DEF QueueNotification, QueueInv, QueueTypes
  <2>2. sent' \subseteq 1..queued' /\ aborted' \subseteq 1..queued'
    BY <1>1, <2>1 DEF QueueNotification, FlagsOK
  <2>3. QED
    BY <1>1, <2>2 DEF QueueNotification, FlagsOK
<1>2. CASE NotificationSent \/ NotificationAborted
  <2>1. First(flush.todo, flush.drop) \in flush.todo
    <3>1. flush.todo \in SUBSET Nat /\ flush.drop \in SUBSET Nat
      BY DEF QueueInv, QueueTypes
    <3>2. QED
      BY <1>2, <3>1, FirstIsIn DEF NotificationSent, NotificationAborted, Flushing
  <2>2. sent' \subseteq 1..queued /\ aborted' \subseteq 1..queued /\ queued' = queued
    BY <1>2, <2>1 DEF NotificationSent, NotificationAborted, CameBack, FlagsOK, QueueInv, QueueTypes
  <2>3. QED
    BY <1>2, <2>2 DEF NotificationSent, NotificationAborted, CameBack, FlagsOK
<1>3. CASE NotificationFailed
  BY <1>3 DEF NotificationFailed, FlagsOK
<1>4. CASE Restart
  <2>1. polling' \in BOOLEAN
    BY <1>4 DEF Restart
  <2>2. QED
    BY <1>4, <2>1 DEF Restart, FlagsOK
<1>5. ASSUME NEW l \in 0..MaxLogins,
             \/ Answer(l) \/ PollTimeout(l) \/ PollFailed(l) \/ Woken(l) \/ PollExpired(l)
             \/ AckedText(l) \/ AckedCommand(l) \/ Replied(l) \/ ReplyFailed(l)
             \/ AgainFailed(l) \/ AckedUnbound(l) \/ ReplyExpired(l)
      PROVE  FlagsOK'
  <2>1. UNCHANGED <<queued, sent, aborted, loginInProgress, overlapped>>
    BY <1>5 DEF Answer, PollTimeout, PollFailed, Woken, PollExpired, AckedText, AckedCommand,
                Replied, ReplyFailed, AgainFailed, AckedUnbound, ReplyExpired, SessionExpired, FallThrough,
                DropBatch, AnswerAgain
  <2>2. polling' = polling \/ polling' = FALSE
    BY <1>5 DEF Answer, PollTimeout, PollFailed, Woken, PollExpired, AckedText, AckedCommand,
                Replied, ReplyFailed, AgainFailed, AckedUnbound, ReplyExpired, SessionExpired, FallThrough,
                DropBatch, AnswerAgain
  <2>3. QED
    BY <2>1, <2>2 DEF FlagsOK
<1>6. ASSUME NEW q \in Logins, StartLogin(q) \/ LoginOver(q) \/ LoginGone(q)
      PROVE  FlagsOK'
  BY <1>6 DEF StartLogin, LoginOver, LoginGone, FlagsOK
<1>7. ASSUME NEW q \in Logins, Confirmed(q) PROVE FlagsOK'
  <2>1. overlapped' \in BOOLEAN
    BY <1>7 DEF Confirmed, FlagsOK
  <2>2. QED
    BY <1>7, <2>1 DEF Confirmed, FlagsOK
<1>8. CASE DisconnectAndLogout \/ UserWrites \/ ServiceExpires \/ TokenAges
  BY <1>8 DEF DisconnectAndLogout, UserWrites, ServiceExpires, TokenAges, FlagsOK
<1>9. CASE UNCHANGED vars
  BY <1>9 DEF vars, FlagsOK
<1>10. QED
  BY <1>1, <1>2, <1>3, <1>4, <1>5, <1>6, <1>7, <1>8, <1>9 DEF Next

\* Each variable keeps to its states: no cursor passes the mail, and nothing is sent,
\* delivered or dropped that was not queued.
THEOREM TypeCorrect == Spec => []TypeOK
<1>1. Init => FlagsOK
  BY DEF Init, FlagsOK
<1>2. QueueInv /\ MessageInv /\ FlagsOK => TypeOK
  BY DEF QueueInv, QueueTypes, MessageInv, MessageTypes, LoopRec, FileRec, FlagsOK, TypeOK
<1>3. QED
  BY <1>1, <1>2, QueueInit, QueueNext, MessageInit, MessageNext, FlagsNext, PTL DEF Spec
=============================================================================
