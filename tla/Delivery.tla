------------------------------ MODULE Delivery ------------------------------
(***************************************************************************)
(* Delivery of the messages of one channel: POST /api/send (router.mjs),   *)
(* the live push over SSE with its stagger and its optional batch window   *)
(* (sse.mjs), the read markers (read_status), the replay on reconnect, and *)
(* the inbox that a client without SSE pulls and acknowledges.             *)
(*                                                                         *)
(* A message is the index of its row in msgs; rows are ordered by          *)
(* created_at, whose values are taken to be distinct.  A handler runs      *)
(* without interruption up to an await: handlers[i] holds the recipients   *)
(* for whom the handler of message i still waits for memory injection.     *)
(* The order of the members is nobody's business: each step takes any.     *)
(***************************************************************************)
EXTENDS Integers, Sequences, FiniteSets, FiniteSetsExt

CONSTANTS
  Members,           \* the members of the channel
  Direct,            \* TRUE: a dm channel (two members); FALSE: a group
  BatchModes,        \* values TEAMMCP_BATCH_ENABLED = true may have
  MaxBatch,          \* MAX_BATCH_SIZE
  SummaryThreshold,  \* SUMMARY_THRESHOLD, of the replay and of the inbox
  DetailLimit,       \* detail_limit of the inbox
  RecentLimit,       \* messages a summary of the inbox shows at most
  FetchLimit,        \* LIMIT of getUnreadMessages
  MentionLimit,      \* LIMIT of getUnreadMentions
  MaxPushes,         \* MAX_TOTAL_PUSHES, for all channels of the agent together
  Senders,           \* the agents that send
  UrgentSenders,     \* those whose messages may have priority "now"
  Mentionable,       \* the agents that are mentioned
  Listeners,         \* the agents that open event streams
  Pullers,           \* the agents that use the inbox
  MaxStreams,        \* bound: event streams of one agent
  MaxMsgs,           \* bound: messages
  MaxRestarts        \* bound: restarts of the server

Ids == 1..MaxMsgs

ASSUME MembersAssumption ==
  /\ Direct => Cardinality(Members) = 2
  /\ Senders \subseteq Members /\ UrgentSenders \subseteq Members
  /\ Mentionable \subseteq Members /\ Listeners \subseteq Members /\ Pullers \subseteq Members
ASSUME DeliveryAssumption ==
  /\ {MaxBatch, SummaryThreshold, DetailLimit, RecentLimit, FetchLimit, MentionLimit} \subseteq Nat \ {0}
  /\ {MaxPushes, MaxStreams, MaxMsgs, MaxRestarts} \subseteq Nat
  /\ DetailLimit <= FetchLimit /\ MaxPushes <= FetchLimit
  /\ BatchModes \subseteq BOOLEAN /\ Direct \in BOOLEAN

VARIABLES
  batching,    \* BATCH_ENABLED
  msgs,        \* table messages: sender, urgency, mentions
  marker,      \* read_status: the last message read, 0 if no row
  streams,     \* connections.get(name).size
  handlers,    \* message -> recipients its handler still has to inject for
  timers,      \* staggered pushes whose setTimeout has not fired
  buffer,      \* batch buffer of each agent
  flushTimer,  \* its window timer is running
  pull,        \* the last inbox answer an agent has not acknowledged
  restarts,
  received,    \* history: messages written to a stream of the agent, or shown by its inbox
  summarised,  \* history: messages a summary stood for
  excused      \* history: messages the agent may have missed (see ReadMeansReceived)

deliveryVars ==
  <<batching, msgs, marker, streams, handlers, timers, buffer, flushTimer, pull, restarts, received,
    summarised, excused>>

pushVars == <<timers, buffer, flushTimer>>
historyVars == <<received, summarised, excused>>

\* An inbox answer: the message it names, and those it had no room for.
NoPull == [ack |-> 0, cut |-> {}]
NoOne == [a \in Members |-> {}]

DeliveryInit ==
  /\ batching \in BatchModes
  /\ msgs = <<>>
  /\ marker = [a \in Members |-> 0]
  /\ streams = [a \in Members |-> 0]
  /\ handlers = [i \in Ids |-> {}]
  /\ timers = {}
  /\ buffer = NoOne
  /\ flushTimer = [a \in Members |-> FALSE]
  /\ pull = [a \in Members |-> NoPull]
  /\ restarts = 0
  /\ received = NoOne
  /\ summarised = NoOne
  /\ excused = NoOne

online == {a \in Members : streams[a] > 0}

InFlight(a, i) ==
  \/ a \in handlers[i]
  \/ [to |-> a, msg |-> i] \in timers
  \/ i \in buffer[a]

----------------------------------------------------------------------------
(* Queries *)

Newest(S, n) == {i \in S : Cardinality({j \in S : j > i}) < n}
Oldest(S, n) == {i \in S : Cardinality({j \in S : j < i}) < n}

\* Everything newer than the marker, the agent's own messages included.
Unread(a) == {i \in DOMAIN msgs : i > marker[a]}

\* getUnreadCount leaves the agent's own messages out; without a row of read_status it
\* counts no more than would be fetched.
UnreadCount(a) ==
  LET count == Cardinality({i \in Unread(a) : msgs[i].from # a})
  IN IF marker[a] = 0 /\ count > FetchLimit THEN FetchLimit ELSE count

\* getUnreadMessages and getUnreadMentions: the oldest, or without a row the newest.
UnreadMessages(a) ==
  IF marker[a] = 0 THEN Newest(Unread(a), FetchLimit) ELSE Oldest(Unread(a), FetchLimit)

UnreadMentions(a) ==
  LET mentions == {i \in Unread(a) : a \in msgs[i].mentions}
  IN IF marker[a] = 0 THEN Newest(mentions, FetchLimit) ELSE Oldest(mentions, MentionLimit)

\* The unread messages, if they are more than there is room for.
CutOff(a, room) == IF Cardinality(Unread(a)) > room THEN Unread(a) ELSE {}

----------------------------------------------------------------------------
(* The push paths.  Each leaves tables and handlers to its caller. *)

\* The streams carry out[a] to each agent a; an agent that is offline misses it.
Carry(out) ==
  received' = [a \in Members |-> IF a \in online THEN received[a] \cup out[a]
                                ELSE received[a]]

\* pushToAgents: one recipient at once, the others staggered.
StaggeredPush(to, i) ==
  /\ \E first \in SUBSET to :
       /\ to # {} => Cardinality(first) = 1
       /\ Carry([a \in Members |-> IF a \in first THEN {i} ELSE {}])
       /\ timers' = timers \cup [to : to \ first, msg : {i}]
  /\ UNCHANGED <<buffer, flushTimer>>

Full(a, i) == msgs'[i].now \/ Cardinality(buffer[a]) + 1 >= MaxBatch

\* Mutant: a flush carries the new message and forgets the buffered ones.
BufferedPushForgets(to, i) ==
  /\ Carry([a \in Members |-> IF a \in to /\ Full(a, i) THEN {i} ELSE {}])
  /\ buffer' = [a \in Members |-> IF a \notin to THEN buffer[a]
                                 ELSE IF Full(a, i) THEN {} ELSE buffer[a] \cup {i}]
  /\ flushTimer' = [a \in Members |-> IF a \in to THEN ~Full(a, i) ELSE flushTimer[a]]
  /\ UNCHANGED timers

\* pushWithPriority in batch mode, for every recipient: an urgent message or a full
\* buffer is flushed, anything else starts the window timer.
BufferedPush(to, i) ==
  /\ Carry([a \in Members |-> IF a \in to /\ Full(a, i) THEN buffer[a] \cup {i} ELSE {}])
  /\ buffer' = [a \in Members |-> IF a \notin to THEN buffer[a]
                                 ELSE IF Full(a, i) THEN {} ELSE buffer[a] \cup {i}]
  /\ flushTimer' = [a \in Members |-> IF a \in to THEN ~Full(a, i) ELSE flushTimer[a]]
  /\ UNCHANGED timers

Push(to, i) == IF batching THEN BufferedPush(to, i) ELSE StaggeredPush(to, i)

\* Mutant: the marker of every recipient moves, online or not.
MarkAll(m, to, i) == [a \in Members |-> IF a \in to THEN i ELSE m[a]]

\* updateReadStatus for the recipients that are online now.
MarkOnline(m, to, i) == [a \in Members |-> IF a \in to \cap online THEN i ELSE m[a]]

----------------------------------------------------------------------------
(* POST /api/send *)

Recipients(s) == Members \ {s}

\* Up to the first await.  The sender's own marker moves at once, past whatever it has
\* not seen.  A dm always waits for injection; a group waits only for the members that
\* are mentioned, and pushes to the others before.
Send(s, now, mentioned) ==
  LET i       == Len(msgs) + 1
      waiting == IF Direct THEN Recipients(s) ELSE mentioned
      plain   == Recipients(s) \ waiting
      own     == [marker EXCEPT ![s] = i]
  IN /\ i <= MaxMsgs
     /\ msgs' = Append(msgs, [from |-> s, now |-> now, mentions |-> mentioned])
     /\ handlers' = [handlers EXCEPT ![i] = waiting]
     /\ Push(plain, i)
     /\ marker' = IF waiting = {} THEN MarkOnline(own, plain, i) ELSE own
     /\ excused' = IF s \in online THEN excused ELSE [excused EXCEPT ![s] = @ \cup Unread(s)]
     /\ UNCHANGED <<streams, pull, batching, restarts, summarised>>

\* Mutant: the loop over the mentioned members ends at one that is offline.
InjectedStops(i) ==
  \E a \in handlers[i] :
    /\ handlers' = [handlers EXCEPT ![i] = IF a \in online THEN @ \ {a} ELSE {}]
    /\ UNCHANGED msgs
    /\ Push({a}, i)
    /\ UNCHANGED <<marker, streams, pull, batching, restarts, summarised, excused>>

\* The await for the next recipient returns: it is pushed to, and after the
\* last one the markers of all recipients that are online move.
Injected(i) ==
  \E a \in handlers[i] :
    /\ handlers' = [handlers EXCEPT ![i] = @ \ {a}]
    /\ UNCHANGED msgs
    /\ Push({a}, i)
    /\ marker' = IF handlers[i] = {a} THEN MarkOnline(marker, Recipients(msgs[i].from), i)
                 ELSE marker
    /\ UNCHANGED <<streams, pull, batching, restarts, summarised, excused>>

\* A staggered push: the recipient may be gone by now.
TimerFires(t) ==
  /\ t \in timers
  /\ timers' = timers \ {t}
  /\ Carry([a \in Members |-> IF a = t.to THEN {t.msg} ELSE {}])
  /\ UNCHANGED <<msgs, marker, streams, handlers, buffer, flushTimer, pull, batching, restarts,
                 summarised, excused>>

\* The batch window of a closes.
FlushBatch(a) ==
  /\ flushTimer[a]
  /\ Carry([NoOne EXCEPT ![a] = buffer[a]])
  /\ buffer' = [buffer EXCEPT ![a] = {}]
  /\ flushTimer' = [flushTimer EXCEPT ![a] = FALSE]
  /\ UNCHANGED <<msgs, marker, streams, handlers, timers, pull, batching, restarts, summarised,
                 excused>>

----------------------------------------------------------------------------
(* GET /api/events *)

\* sendMissedMessages on a short backlog, with the pushes that the channels before it
\* have left: urgent messages first (those younger than NOW_TTL_MS: from message first
\* on), then the others, oldest first, in batch mode together; the marker ends on the
\* last one pushed.
Replay(a, first, left) ==
  LET missed == UnreadMessages(a)
      urgent == {i \in missed : msgs[i].now /\ i >= first}
      sent   == Oldest(urgent, left)
      others == missed \ urgent
      rest   == IF batching /\ Cardinality(others) > 1 THEN others
                ELSE Oldest(others, left - Cardinality(sent))
  IN /\ received' = [received EXCEPT ![a] = @ \cup sent \cup rest]
     /\ marker' = [marker EXCEPT ![a] = IF rest # {} THEN Max(rest) ELSE Max(sent)]
     /\ excused' = [excused EXCEPT ![a] = @ \cup CutOff(a, left)]
     /\ UNCHANGED summarised

\* ... and on a long one: the mentions are pushed and marked, the channel is
\* summarised in the reconnect manifest.
Summarise(a, left) ==
  LET sent == Oldest(UnreadMentions(a), left) IN
  /\ received' = [received EXCEPT ![a] = @ \cup sent]
  /\ summarised' = [summarised EXCEPT ![a] = @ \cup Unread(a)]
  /\ marker' = IF sent = {} THEN marker ELSE [marker EXCEPT ![a] = Max(sent)]
  /\ UNCHANGED excused

\* The channels before this one have used up the pushes: it is not looked at.
Skip(a) ==
  /\ excused' = [excused EXCEPT ![a] = @ \cup Unread(a)]
  /\ UNCHANGED <<marker, received, summarised>>

\* A stream opens, the agent's first or one more.
Connect(a) ==
  /\ streams[a] < MaxStreams
  /\ streams' = [streams EXCEPT ![a] = @ + 1]
  /\ \/ Skip(a)
     \/ UnreadCount(a) = 0 /\ UNCHANGED <<marker, historyVars>>
     \/ \E left \in 1..MaxPushes :
          \/ /\ UnreadCount(a) \in 1..SummaryThreshold
             /\ \E first \in 1..(Len(msgs) + 1) : Replay(a, first, left)
          \/ UnreadCount(a) > SummaryThreshold /\ Summarise(a, left)
  /\ UNCHANGED <<msgs, handlers, pushVars, pull, batching, restarts>>

\* Messages that are marked read, or will be by an answer the agent holds, while their
\* push is in flight.
Ahead(a) == {i \in DOMAIN msgs : InFlight(a, i) /\ (i <= marker[a] \/ i <= pull[a].ack)}

\* removeConnection; that of the last stream drops the batch buffer.
Disconnect(a) ==
  /\ streams[a] > 0
  /\ streams' = [streams EXCEPT ![a] = @ - 1]
  /\ IF streams[a] = 1
     THEN /\ buffer' = [buffer EXCEPT ![a] = {}]
          /\ flushTimer' = [flushTimer EXCEPT ![a] = FALSE]
          /\ excused' = [excused EXCEPT ![a] = @ \cup Ahead(a)]
     ELSE UNCHANGED <<buffer, flushTimer, excused>>
  /\ UNCHANGED <<msgs, marker, handlers, timers, pull, batching, restarts, received, summarised>>

\* The server dies and comes up again: only the database survives.
ServerRestart ==
  /\ restarts < MaxRestarts
  /\ restarts' = restarts + 1
  /\ streams' = [a \in Members |-> 0]
  /\ handlers' = [i \in Ids |-> {}]
  /\ timers' = {}
  /\ buffer' = NoOne
  /\ flushTimer' = [a \in Members |-> FALSE]
  /\ excused' = [a \in Members |-> excused[a] \cup Ahead(a)]
  /\ UNCHANGED <<batching, msgs, marker, pull, received, summarised>>

----------------------------------------------------------------------------
(* GET /api/inbox and POST /api/inbox/ack *)

InboxGet(a) ==
  LET quiet  == UnreadCount(a) <= SummaryThreshold
      recent == IF DetailLimit < RecentLimit THEN DetailLimit ELSE RecentLimit
      shown  == IF quiet THEN Newest(UnreadMessages(a), DetailLimit)
                ELSE Newest(UnreadMentions(a), DetailLimit) \cup Newest(DOMAIN msgs, recent)
  IN /\ UnreadCount(a) > 0
     /\ received' = [received EXCEPT ![a] = @ \cup shown]
     /\ summarised' = [summarised EXCEPT ![a] = IF quiet THEN @ ELSE @ \cup Unread(a)]
     /\ pull' = [pull EXCEPT ![a] = [ack |-> Max(Unread(a)),
                                     cut |-> IF quiet THEN CutOff(a, DetailLimit) ELSE {}]]
     /\ UNCHANGED <<msgs, marker, streams, handlers, pushVars, batching, restarts, excused>>

\* The marker moves to the message the inbox answer named, wherever it is now.
InboxAck(a) ==
  /\ pull[a] # NoPull
  /\ marker' = [marker EXCEPT ![a] = pull[a].ack]
  /\ excused' = [excused EXCEPT ![a] = @ \cup pull[a].cut]
  /\ pull' = [pull EXCEPT ![a] = NoPull]
  /\ UNCHANGED <<msgs, streams, handlers, pushVars, batching, restarts, received, summarised>>

----------------------------------------------------------------------------
Sending ==
  \E s \in Senders : \E now \in BOOLEAN, mentioned \in SUBSET (Recipients(s) \cap Mentionable) :
    (now => s \in UrgentSenders) /\ Send(s, now, mentioned)

\* What the event loop does by itself.
Scheduled ==
  \/ \E i \in Ids : Injected(i)
  \/ \E t \in timers : TimerFires(t)
  \/ \E a \in Members : FlushBatch(a)

DeliveryNext ==
  \/ Sending
  \/ Scheduled
  \/ \E a \in Listeners : Connect(a) \/ Disconnect(a)
  \/ \E a \in Pullers : InboxGet(a) \/ InboxAck(a)
  \/ ServerRestart

\* Promises settle (memory injection has a timeout and falls through) and
\* timers fire; nothing is assumed of clients.
Fairness ==
  /\ \A i \in Ids : WF_deliveryVars(Injected(i))
  /\ \A a \in Members, i \in Ids : WF_deliveryVars(TimerFires([to |-> a, msg |-> i]))
  /\ \A a \in Members : WF_deliveryVars(FlushBatch(a))

DeliverySpec == DeliveryInit /\ [][DeliveryNext]_deliveryVars
FairSpec == DeliverySpec /\ Fairness

----------------------------------------------------------------------------
(* Properties *)

\* Rows and markers refer to messages that exist, and each push mode uses its
\* own kind of timer only.
DeliveryTypeOK ==
  /\ batching \in BatchModes
  /\ msgs \in Seq([from : Members, now : BOOLEAN, mentions : SUBSET Members])
  /\ marker \in [Members -> 0..Len(msgs)]
  /\ streams \in [Members -> 0..MaxStreams]
  /\ handlers \in [Ids -> SUBSET Members]
  /\ timers \subseteq [to : Members, msg : DOMAIN msgs]
  /\ buffer \in [Members -> SUBSET DOMAIN msgs]
  /\ IF batching THEN timers = {} ELSE buffer = NoOne
  /\ flushTimer \in [Members -> BOOLEAN]
  /\ pull \in [Members -> [ack : 0..Len(msgs), cut : SUBSET DOMAIN msgs]]
  /\ restarts \in 0..MaxRestarts
  /\ received \in [Members -> SUBSET DOMAIN msgs]
  /\ summarised \in [Members -> SUBSET DOMAIN msgs] /\ excused \in [Members -> SUBSET DOMAIN msgs]

\* Nothing is marked read that its reader was not given: a message of somebody else
\* behind the marker was pushed to a stream of the agent, shown by its inbox, covered by
\* a summary, or its push is on the way to an agent that is connected (router.mjs POST
\* /api/send, sse.mjs sendMissedMessages, /api/inbox/ack).  Exactly three things may
\* come in between, and are kept in excused: the last stream ends, or the server, while
\* the push of a message that is already marked is on the way; the agent sends while it
\* has no stream; and a replay finds more unread messages than it may still push, or an
\* inbox answer that is acknowledged more than it shows.
ReadMeansReceived ==
  \A a \in Members, i \in DOMAIN msgs :
    (msgs[i].from # a /\ i <= marker[a]) =>
      \/ i \in received[a] \cup summarised[a] \cup excused[a]
      \/ a \in online /\ InFlight(a, i)

\* A push in flight is not dropped while its recipient stays connected: it ends
\* on the stream, whatever other pushes flush the same buffer meanwhile.
PushesNotDropped ==
  [][\A a \in online \cap online', i \in Ids :
       (InFlight(a, i) /\ ~InFlight(a, i)') => i \in received'[a]]_deliveryVars

\* A push in flight reaches its recipient, or the recipient goes offline.
DeliveredInTheEnd ==
  \A a \in Members, i \in Ids : InFlight(a, i) ~> (i \in received[a] \/ a \notin online)
=============================================================================
