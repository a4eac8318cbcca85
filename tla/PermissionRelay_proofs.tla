----------------------- MODULE PermissionRelay_proofs -----------------------
(***************************************************************************)
(* PermissionRelay implements Permission, for every set of clients, of     *)
(* requests and of approvals and every number of attempts: the initial     *)
(* states map to the initial state, and every step to a step of Permission *)
(* or to a stutter.  The invariant behind it says that an approval in the  *)
(* map of a client is that of the request it is entered for, and that a    *)
(* request that is still entered has not been answered.                    *)
(***************************************************************************)
EXTENDS PermissionRelay, TLAPS

Posts == [at : {"nowhere", "server", "client", "lost"}, attempt : Nat, reply : Replies]
Entries == [here : BOOLEAN, approvalId : Approvals \union {None}]
Rows == [of : Requests \union {None}, by : Clients \union {None},
         status : {"unused", "pending", "approved", "rejected"}]
Streams == [open : BOOLEAN, events : Seq(Approvals)]
Steps == {"idle", "first", "second", "ended", "gone"}

\* The parts of TypeOK that the proof speaks of.
RelayTypes ==
  /\ step \in [Requests -> Steps]
  /\ post \in [Requests -> Posts]
  /\ pendingPermissions \in [Requests -> Entries]
  /\ pendingApprovals \in [Approvals -> Requests \union {None}]
  /\ approvals \in [Approvals -> Rows]
  /\ asker \in [Requests -> Clients \union {None}]
  /\ answers \in [Requests -> SUBSET Verdicts]
  /\ stream \in [Clients -> Streams]

Posting(r) == step[r] \in {"first", "second"}

\* The two maps agree with each other and with the server, and an approval is entered
\* only when the posts of its request are over.
MapsAgree ==
  \A a \in Approvals : pendingApprovals[a] # None =>
    /\ pendingPermissions[pendingApprovals[a]].here
    /\ pendingPermissions[pendingApprovals[a]].approvalId = a
    /\ approvals[a].of = pendingApprovals[a]
    /\ approvals[a].status # "unused"
    /\ step[pendingApprovals[a]] = "ended"

\* An entered request has no answer yet, and one that is still posting none but "deny",
\* which the timeout sent.
AnswersFit ==
  \A r \in Requests :
    /\ pendingPermissions[r].here => answers[r] = {}
    /\ Posting(r) => answers[r] \subseteq {"deny"}
    /\ step[r] = "idle" => answers[r] = {} /\ ~pendingPermissions[r].here

\* Only a request that is posting awaits a reply, though a post of one that is gone may
\* still reach the server, and an approval in a reply is its own.
RepliesFit ==
  \A r \in Requests :
    /\ post[r].at \in {"client", "lost"} => Posting(r)
    /\ post[r].at = "server" => Posting(r) \/ step[r] = "gone"
    /\ post[r].reply \in Approvals =>
         approvals[post[r].reply].of = r /\ approvals[post[r].reply].status # "unused"

\* The inductive invariant.
RelayInv == RelayTypes /\ MapsAgree /\ AnswersFit /\ RepliesFit

----------------------------------------------------------------------------
LEMMA PostFacts ==
  /\ NoPost \in Posts
  /\ FirstAttempt \in Posts
  /\ \A p \in Posts, at \in {"client", "lost"}, reply \in Replies :
       Post(at, p.attempt, reply) \in Posts
  /\ \A p \in Posts : Post("server", p.attempt + 1, None) \in Posts
<1>1. NoPost \in Posts
  BY DEF NoPost, Post, Posts, Replies
<1>2. FirstAttempt \in Posts
  BY DEF FirstAttempt, Post, Posts, Replies
<1>3. ASSUME NEW p \in Posts, NEW at \in {"client", "lost"}, NEW reply \in Replies
      PROVE  Post(at, p.attempt, reply) \in Posts
  BY DEF Posts, Post
<1>4. ASSUME NEW p \in Posts PROVE Post("server", p.attempt + 1, None) \in Posts
  <2>1. p.attempt + 1 \in Nat
    BY DEF Posts
  <2>2. QED
    BY <2>1 DEF Posts, Post, Replies
<1>5. QED
  BY <1>1, <1>2, <1>3, <1>4

LEMMA PostUpdate ==
  ASSUME RelayTypes, NEW r \in Requests, NEW p \in Posts, post' = [post EXCEPT ![r] = p]
  PROVE  /\ post' \in [Requests -> Posts]
         /\ post'[r] = p
         /\ \A s \in Requests \ {r} : post'[s] = post[s]
BY DEF RelayTypes

LEMMA StepUpdate ==
  ASSUME RelayTypes, NEW r \in Requests, NEW new \in Steps, step' = [step EXCEPT ![r] = new]
  PROVE  /\ step' \in [Requests -> Steps]
         /\ step'[r] = new
         /\ \A s \in Requests \ {r} : step'[s] = step[s]
BY DEF RelayTypes, Steps

LEMMA RelayInit == Init => RelayInv
<1> SUFFICES ASSUME Init PROVE RelayInv
  OBVIOUS
<1>1. RelayTypes
  <2>1. Absent \in Entries /\ "idle" \in Steps
    BY DEF Absent, Entries, Steps
  <2>2. approvals \in [Approvals -> Rows]
    BY DEF Init, NoApproval, Rows
  <2>3. stream \in [Clients -> Streams]
    BY DEF Init, Closed, Streams
  <2>4. QED
    BY <2>1, <2>2, <2>3, PostFacts DEF Init, RelayTypes
<1>2. MapsAgree /\ AnswersFit /\ RepliesFit
  BY NoneAssumption DEF Init, MapsAgree, AnswersFit, RepliesFit, Posting, NoPost, Post, Absent
<1>3. QED
  BY <1>1, <1>2 DEF RelayInv

\* Cleanup of a request takes its approval out too, so the maps still agree.
LEMMA CleanupKeepsMaps ==
  ASSUME RelayInv, NEW r \in Requests, Cleanup(r)
  PROVE  /\ pendingPermissions' \in [Requests -> Entries]
         /\ pendingApprovals' \in [Approvals -> Requests \union {None}]
         /\ ~pendingPermissions'[r].here
         /\ \A s \in Requests \ {r} : pendingPermissions'[s] = pendingPermissions[s]
         /\ \A a \in Approvals : pendingApprovals'[a] # None =>
              pendingApprovals'[a] = pendingApprovals[a] /\ pendingApprovals[a] # r
BY DEF RelayInv, RelayTypes, Entries, MapsAgree, Cleanup, Absent

\* A request that may be denied is: it is cleaned up, and the rest of the invariant
\* holds in the next state if the server and the post fit.
LEMMA AnswerKeepsInv ==
  ASSUME RelayInv, NEW r \in Requests, NEW verdict \in Verdicts, Answer(r, verdict),
         Posting(r) => verdict = "deny", step[r] # "idle",
         step' \in [Requests -> Steps],
         \A s \in Requests \ {r} : step'[s] = step[s],
         step'[r] \in {step[r], "ended"},
         UNCHANGED approvals
  PROVE  MapsAgree' /\ AnswersFit'
<1> USE DEF RelayInv, RelayTypes, Posts, Entries, Steps
<1>1. MapsAgree'
  BY CleanupKeepsMaps DEF MapsAgree, Answer
<1>2. AnswersFit'
  BY CleanupKeepsMaps DEF AnswersFit, Answer, Posting, Verdicts
<1>3. QED
  BY <1>1, <1>2

LEMMA AnswerKeepsTypes ==
  ASSUME RelayInv, NEW r \in Requests, NEW verdict \in Verdicts, Answer(r, verdict)
  PROVE  /\ pendingPermissions' \in [Requests -> Entries]
         /\ pendingApprovals' \in [Approvals -> Requests \union {None}]
         /\ answers' \in [Requests -> SUBSET Verdicts]
BY CleanupKeepsMaps DEF Answer, RelayInv, RelayTypes

\* An answer by the timer or by an event: no post is concerned.
LEMMA AnswerStays ==
  ASSUME RelayInv, NEW r \in Requests, NEW verdict \in Verdicts, Answer(r, verdict),
         Posting(r) => verdict = "deny", step[r] # "idle",
         UNCHANGED <<step, post, approvals, asker>>,
         stream' \in [Clients -> Streams]
  PROVE  RelayInv'
<1>1. RelayTypes'
  BY AnswerKeepsTypes DEF RelayInv, RelayTypes
<1>2. MapsAgree' /\ AnswersFit'
  BY AnswerKeepsInv DEF RelayInv, RelayTypes
<1>3. RepliesFit'
  BY DEF RelayInv, RepliesFit, Posting
<1>4. QED
  BY <1>1, <1>2, <1>3 DEF RelayInv

\* A denial that ends the handler.
LEMMA DenyEnds ==
  ASSUME RelayInv, NEW r \in Requests, Posting(r), Answer(r, "deny"), End(r),
         post' = [post EXCEPT ![r] = NoPost], UNCHANGED <<approvals, asker, stream>>
  PROVE  RelayInv'
<1> USE NoneAssumption, RepliesAssumption, AttemptsAssumption DEF RelayInv, Steps
<1>1. step' \in [Requests -> Steps] /\ step'[r] = "ended"
      /\ \A s \in Requests \ {r} : step'[s] = step[s]
  BY DEF End, RelayTypes
<1>2. RelayTypes'
  <2>1. post' \in [Requests -> Posts]
    BY PostFacts DEF RelayTypes
  <2>2. "deny" \in Verdicts
    BY DEF Verdicts
  <2>3. QED
    BY <1>1, <2>1, <2>2, AnswerKeepsTypes DEF RelayTypes
<1>3. MapsAgree' /\ AnswersFit'
  <2>1. "deny" \in Verdicts /\ step[r] # "idle" /\ step'[r] = "ended"
    BY <1>1 DEF Verdicts, Posting
  <2>2. QED
    BY <1>1, <2>1, AnswerKeepsInv
<1>4. RepliesFit'
  BY <1>1 DEF RelayTypes, RepliesFit, Posting, NoPost, Post
<1>5. QED
  BY <1>2, <1>3, <1>4

\* A post that comes back fits, whatever it brings.
LEMMA ReturnFits ==
  ASSUME RelayInv, NEW r \in Requests, NEW at \in {"client", "lost"}, NEW reply \in Replies,
         post[r].at # "nowhere", Return(r, at, reply), UNCHANGED step,
         \A s \in Requests : post[s].reply \in Approvals =>
           approvals'[post[s].reply] = approvals[post[s].reply],
         reply \in Approvals => approvals'[reply].of = r /\ approvals'[reply].status # "unused"
  PROVE  /\ post' \in [Requests -> Posts]
         /\ RepliesFit'
<1> USE NoneAssumption, RepliesAssumption, AttemptsAssumption DEF RelayInv, RelayTypes
<1>1. \A s \in Requests \ {r} : post'[s] = post[s]
  BY DEF Return
<1>2. post'[r] = IF step[r] = "gone" THEN NoPost
                ELSE Post(at, post[r].attempt, reply)
  BY DEF Return
<1>3. post'[r] \in Posts
  <2>1. Post(at, post[r].attempt, reply) \in Posts
    BY PostFacts DEF RelayTypes
  <2>2. QED
    BY <1>2, <2>1, PostFacts
<1>4. post' \in [Requests -> Posts]
  BY <1>3 DEF Return
<1>5. post'[r].at \in {"client", "lost"} => step[r] # "gone"
  BY <1>2 DEF NoPost, Post
<1>6. post'[r].at # "server"
  BY <1>2 DEF NoPost, Post
<1>7. step[r] # "gone" => Posting(r)
  BY DEF RepliesFit, Posts
<1>8. post'[r].reply \in Approvals => post'[r].reply = reply
  BY <1>2 DEF NoPost, Post
<1>9. RepliesFit'
  BY <1>1, <1>5, <1>6, <1>7, <1>8 DEF RepliesFit, Posting
<1>10. QED
  BY <1>4, <1>9

LEMMA RelayNext == RelayInv /\ [Next]_vars => RelayInv'
<1> SUFFICES ASSUME RelayInv, [Next]_vars PROVE RelayInv'
  OBVIOUS
<1> USE NoneAssumption, RepliesAssumption, AttemptsAssumption
        DEF RelayInv, clientVars, serverVars, maps
<1>1. ASSUME NEW c \in Clients, NEW r \in Requests, Ask(c, r) PROVE RelayInv'
  <2>1. RelayTypes'
    BY <1>1, PostFacts DEF Ask, RelayTypes, Entries, Steps
  <2>2. MapsAgree'
    BY <1>1 DEF Ask, FirstAttempt, RelayTypes, MapsAgree
  <2>3. AnswersFit'
    BY <1>1 DEF Ask, FirstAttempt, RelayTypes, AnswersFit, Posting
  <2>4. RepliesFit'
    BY <1>1 DEF Ask, FirstAttempt, Post, RelayTypes, RepliesFit, Posting
  <2>5. QED
    BY <2>1, <2>2, <2>3, <2>4
<1>2. ASSUME NEW r \in Requests, Refuse(r) PROVE RelayInv'
  <2>1. post' \in [Requests -> Posts] /\ RepliesFit'
    BY <1>2, ReturnFits DEF Refuse, RelayTypes, RepliesFit, Replies
  <2>2. RelayTypes'
    BY <1>2, <2>1 DEF Refuse, RelayTypes
  <2>3. MapsAgree' /\ AnswersFit'
    BY <1>2 DEF Refuse, RelayTypes, MapsAgree, AnswersFit, Posting
  <2>4. QED
    BY <2>1, <2>2, <2>3
<1>3. ASSUME NEW r \in Requests, CreateField(r) PROVE RelayInv'
  <2>1. post' \in [Requests -> Posts] /\ RepliesFit'
    BY <1>3, ReturnFits DEF CreateField, RelayTypes, RepliesFit, Replies
  <2>2. RelayTypes'
    BY <1>3, <2>1 DEF CreateField, RelayTypes
  <2>3. MapsAgree' /\ AnswersFit'
    BY <1>3 DEF CreateField, RelayTypes, MapsAgree, AnswersFit, Posting
  <2>4. QED
    BY <2>1, <2>2, <2>3
<1>4. ASSUME NEW r \in Requests, NEW a \in Approvals, Propose(r, a) PROVE RelayInv'
  <2>1. post' \in [Requests -> Posts] /\ RepliesFit'
    BY <1>4, ReturnFits DEF Propose, RelayTypes, RepliesFit, Replies
  <2>2. RelayTypes'
    <3>1. [of |-> r, by |-> asker[r], status |-> "pending"] \in Rows
      BY DEF RelayTypes, Rows
    <3>2. approvals' \in [Approvals -> Rows]
      BY <1>4, <3>1 DEF Propose, RelayTypes
    <3>3. QED
      BY <1>4, <2>1, <3>2 DEF Propose, RelayTypes
  <2>3. MapsAgree' /\ AnswersFit'
    BY <1>4 DEF Propose, RelayTypes, MapsAgree, AnswersFit, Posting
  <2>4. QED
    BY <2>1, <2>2, <2>3
<1>5. ASSUME NEW r \in Requests, Lose(r) PROVE RelayInv'
  <2>1. post' \in [Requests -> Posts] /\ RepliesFit'
    BY <1>5, ReturnFits DEF Lose, RelayTypes, RepliesFit, Replies
  <2>2. RelayTypes'
    BY <1>5, <2>1 DEF Lose, RelayTypes
  <2>3. MapsAgree' /\ AnswersFit'
    BY <1>5 DEF Lose, RelayTypes, MapsAgree, AnswersFit, Posting
  <2>4. QED
    BY <2>1, <2>2, <2>3
<1>6. ASSUME NEW r \in Requests, Retry(r) PROVE RelayInv'
  <2>1. Posting(r)
    BY <1>6 DEF Retry, RepliesFit
  <2> DEFINE again == Post("server", post[r].attempt + 1, None)
  <2>2. CASE post[r].attempt < RETRY_MAX_ATTEMPTS /\ post' = [post EXCEPT ![r] = again]
             /\ UNCHANGED <<step, maps, answers>>
    <3>1. /\ post' = [post EXCEPT ![r] = Post("server", post[r].attempt + 1, None)]
          /\ UNCHANGED <<step, maps, answers, approvals, asker, stream>>
      BY <1>6, <2>2 DEF Retry, clientVars, serverVars
    <3>2. RelayTypes'
      BY <3>1, PostFacts DEF RelayTypes
    <3>3. MapsAgree' /\ AnswersFit'
      BY <3>1 DEF MapsAgree, AnswersFit, Posting
    <3>4. RepliesFit'
      BY <2>1, <3>1, NoneAssumption DEF RelayTypes, RepliesFit, Posting, Post
    <3>5. QED
      BY <3>2, <3>3, <3>4
  <2>3. CASE post' = [post EXCEPT ![r] = NoPost] /\ End(r) /\ Answer(r, "deny")
    <3>1. UNCHANGED <<approvals, asker, stream>>
      BY <1>6 DEF Retry, clientVars, serverVars
    <3>2. QED
      BY <2>1, <2>3, <3>1, DenyEnds
  <2>4. QED
    BY <1>6, <2>2, <2>3 DEF Retry
<1>7. ASSUME NEW r \in Requests, Receive(r) PROVE RelayInv'
  <2>1. Posting(r) /\ UNCHANGED <<approvals, asker, stream>>
    BY <1>7 DEF Receive, RepliesFit
  <2>2. CASE PostAgain(r)
    <3>1. RelayTypes'
      BY <2>1, <2>2, PostFacts DEF PostAgain, RelayTypes, Steps
    <3>2. MapsAgree' /\ AnswersFit'
      BY <2>1, <2>2 DEF PostAgain, RelayTypes, MapsAgree, AnswersFit, Posting
    <3>3. RepliesFit'
      BY <2>1, <2>2 DEF PostAgain, RelayTypes, RepliesFit, Posting, FirstAttempt, Post
    <3>4. QED
      BY <3>1, <3>2, <3>3
  <2>3. CASE Enter(r)
    <3>1. CASE ~pendingPermissions[r].here
      BY <2>1, <2>3, <3>1, DenyEnds DEF Enter
    <3>2. CASE pendingPermissions[r].here
      <4> DEFINE a == post[r].reply
      <4>1. /\ a \in Approvals /\ approvals[a].of = r /\ approvals[a].status # "unused"
            /\ pendingPermissions' = [pendingPermissions EXCEPT ![r].approvalId = a]
            /\ pendingApprovals' = [pendingApprovals EXCEPT ![a] = r]
            /\ step' = [step EXCEPT ![r] = "ended"]
            /\ post' = [post EXCEPT ![r] = NoPost]
            /\ UNCHANGED <<answers, approvals, asker, stream>>
        BY <2>1, <2>3, <3>2 DEF Enter, End, RepliesFit
      <4> HIDE DEF a
      <4>2. RelayTypes'
        <5>1. step' \in [Requests -> Steps] /\ post' \in [Requests -> Posts]
          BY <4>1, PostFacts DEF RelayTypes, Steps
        <5>2. pendingPermissions' \in [Requests -> Entries]
          BY <4>1 DEF RelayTypes, Entries
        <5>3. pendingApprovals' \in [Approvals -> Requests \union {None}]
          BY <4>1 DEF RelayTypes
        <5>4. QED
          BY <4>1, <5>1, <5>2, <5>3 DEF RelayTypes
      <4>3. MapsAgree'
        <5> SUFFICES ASSUME NEW b \in Approvals, pendingApprovals'[b] # None
                     PROVE  /\ pendingPermissions'[pendingApprovals'[b]].here
                            /\ pendingPermissions'[pendingApprovals'[b]].approvalId = b
                            /\ approvals'[b].of = pendingApprovals'[b]
                            /\ approvals'[b].status # "unused"
                            /\ step'[pendingApprovals'[b]] = "ended"
          BY DEF MapsAgree
        <5>1. CASE b = a
          BY <3>2, <4>1, <5>1 DEF RelayTypes
        <5>2. CASE b # a
          <6>1. pendingApprovals'[b] = pendingApprovals[b] /\ pendingApprovals[b] # r
            BY <2>1, <4>1, <5>2 DEF RelayTypes, MapsAgree, Posting
          <6>2. QED
            BY <4>1, <6>1 DEF RelayTypes, MapsAgree
        <5>3. QED
          BY <5>1, <5>2
      <4>4. AnswersFit'
        BY <4>1 DEF RelayTypes, AnswersFit, Posting
      <4>5. RepliesFit'
        BY <4>1 DEF RelayTypes, RepliesFit, Posting, NoPost, Post
      <4>6. QED
        BY <4>2, <4>3, <4>4, <4>5
    <3>3. QED
      BY <3>1, <3>2
  <2>4. CASE GiveUp(r)
    BY <2>1, <2>4, DenyEnds DEF GiveUp
  <2>5. QED
    BY <1>7, <2>2, <2>3, <2>4 DEF Receive
<1>8. ASSUME NEW r \in Requests, Timeout(r) PROVE RelayInv'
  <2>1. Answer(r, "deny") /\ step[r] # "idle" /\ UNCHANGED <<step, post, approvals, asker, stream>>
    BY <1>8 DEF Timeout, AnswersFit
  <2>2. QED
    BY <2>1, AnswerStays DEF Verdicts, RelayTypes
<1>9. ASSUME NEW a \in Approvals, NEW status \in {"approved", "rejected"}, Resolve(a, status)
      PROVE RelayInv'
  <2>1. RelayTypes'
    <3>1. stream' \in [Clients -> Streams]
      <4>1. \A c \in Clients : Append(stream[c].events, a) \in Seq(Approvals)
        BY DEF RelayTypes, Streams
      <4>2. \A c \in Clients : [stream[c] EXCEPT !.events = Append(@, a)] \in Streams
        BY <4>1 DEF RelayTypes, Streams
      <4>3. QED
        BY <1>9, <4>2 DEF Resolve, RelayTypes
    <3>2. approvals' \in [Approvals -> Rows]
      <4>1. [approvals[a] EXCEPT !.status = status] \in Rows
        BY DEF RelayTypes, Rows
      <4>2. QED
        BY <1>9, <4>1 DEF Resolve, RelayTypes
    <3>3. QED
      BY <1>9, <3>1, <3>2 DEF Resolve, RelayTypes
  <2>2. MapsAgree'
    BY <1>9 DEF Resolve, RelayTypes, MapsAgree
  <2>3. AnswersFit'
    BY <1>9 DEF Resolve, RelayTypes, AnswersFit, Posting
  <2>4. RepliesFit'
    BY <1>9 DEF Resolve, RelayTypes, RepliesFit, Posting
  <2>5. QED
    BY <2>1, <2>2, <2>3, <2>4
<1>10. ASSUME NEW c \in Clients, Deliver(c) PROVE RelayInv'
  <2> DEFINE a == Head(stream[c].events)
             r == pendingApprovals[a]
  <2>1. UNCHANGED <<step, post, approvals, asker>>
    BY <1>10 DEF Deliver
  <2>2. a \in Approvals /\ stream' \in [Clients -> Streams]
    <3>1. stream[c].events \in Seq(Approvals) /\ stream[c].events # <<>>
      BY <1>10 DEF Deliver, RelayTypes, Streams
    <3>2. a \in Approvals /\ Tail(stream[c].events) \in Seq(Approvals)
      BY <3>1
    <3>3. [stream[c] EXCEPT !.events = Tail(@)] \in Streams
      BY <3>2 DEF RelayTypes, Streams
    <3>4. QED
      BY <1>10, <3>2, <3>3 DEF Deliver, RelayTypes
  <2>3. \/ Answer(r, VerdictOf(a)) /\ r # None
        \/ UNCHANGED <<maps, answers>>
    BY <1>10 DEF Deliver
  <2> HIDE DEF a
  <2>4. r # None => r \in Requests /\ step[r] = "ended"
    BY <2>2 DEF RelayTypes, MapsAgree
  <2> HIDE DEF r
  <2>5. CASE Answer(r, VerdictOf(a)) /\ r # None
    <3>1. VerdictOf(a) \in Verdicts
      BY DEF VerdictOf, Verdicts
    <3>2. ~Posting(r) /\ step[r] # "idle"
      BY <2>4, <2>5 DEF Posting
    <3>3. QED
      BY <2>1, <2>2, <2>4, <2>5, <3>1, <3>2, AnswerStays
  <2>6. CASE UNCHANGED <<maps, answers>>
    BY <2>1, <2>2, <2>6 DEF RelayTypes, MapsAgree, AnswersFit, RepliesFit, Posting
  <2>7. QED
    BY <2>3, <2>5, <2>6
<1>11. ASSUME NEW c \in Clients, Connect(c) \/ Disconnect(c) PROVE RelayInv'
  <2>1. stream' \in [Clients -> Streams]
    <3>1. Closed \in Streams
      BY DEF Closed, Streams
    <3>2. [stream[c] EXCEPT !.open = TRUE] \in Streams
      BY DEF RelayTypes, Streams
    <3>3. QED
      BY <1>11, <3>1, <3>2 DEF Connect, Disconnect, RelayTypes
  <2>2. UNCHANGED <<step, post, maps, approvals, asker, answers>>
    BY <1>11 DEF Connect, Disconnect
  <2>3. QED
    BY <2>1, <2>2 DEF RelayTypes, MapsAgree, AnswersFit, RepliesFit, Posting
<1>12. ASSUME NEW c \in Clients, Restart(c) PROVE RelayInv'
  <2>1. RelayTypes'
    <3>1. Closed \in Streams /\ Absent \in Entries /\ "gone" \in Steps
      BY DEF Closed, Streams, Absent, Entries, Steps
    <3>2. QED
      BY <1>12, <3>1, PostFacts DEF Restart, RelayTypes
  <2>2. MapsAgree'
    BY <1>12 DEF Restart, Entered, NoPost, Absent, RelayTypes, MapsAgree
  <2>3. AnswersFit'
    BY <1>12 DEF Restart, Entered, NoPost, Absent, RelayTypes, AnswersFit, Posting
  <2>4. RepliesFit'
    BY <1>12 DEF Restart, Entered, NoPost, Post, Absent, RelayTypes, RepliesFit, Posting
  <2>5. QED
    BY <2>1, <2>2, <2>3, <2>4
<1>13. CASE UNCHANGED vars
  BY <1>13 DEF vars, RelayTypes, MapsAgree, AnswersFit, RepliesFit, Posting
<1>14. QED
  BY <1>1, <1>2, <1>3, <1>4, <1>5, <1>6, <1>7, <1>8, <1>9, <1>10, <1>11, <1>12, <1>13 DEF Next

----------------------------------------------------------------------------
(* Refinement *)

LEMMA InitMaps == Init => Promised!Init
BY DEF Init, Promised!Init, Approved, NoApproval

\* An answer, of the kinds that the steps of the relay send, is one of Permission.
LEMMA AnswerMaps ==
  ASSUME RelayInv, NEW r \in Requests, NEW verdict \in Verdicts, Answer(r, verdict),
         pendingPermissions[r].here \/ (Posting(r) /\ verdict = "deny"),
         verdict = "allow" => r \in Approved, UNCHANGED approvals
  PROVE  Promised!Next
<1>1. answers[r] \subseteq {verdict}
  BY DEF RelayInv, AnswersFit
<1>2. answers' = [answers EXCEPT ![r] = {verdict}]
  BY <1>1 DEF Answer, RelayInv, RelayTypes
<1>3. Approved' = Approved
  BY DEF Approved
<1>4. Promised!Answer(r, verdict)
  BY <1>1, <1>2, <1>3 DEF Promised!Answer
<1>5. QED
  BY <1>4 DEF Promised!Next, Promised!Verdicts, Verdicts

LEMMA NextMaps == RelayInv /\ [Next]_vars => [Promised!Next]_<<Approved, answers>>
<1> SUFFICES ASSUME RelayInv, [Next]_vars PROVE [Promised!Next]_<<Approved, answers>>
  OBVIOUS
<1> USE DEF maps, clientVars, serverVars
<1>1. ASSUME UNCHANGED approvals PROVE Approved' = Approved
  BY <1>1 DEF Approved
<1>2. ASSUME UNCHANGED <<approvals, answers>> PROVE [Promised!Next]_<<Approved, answers>>
  BY <1>1, <1>2
<1>3. "deny" \in Verdicts
  BY DEF Verdicts
<1>4. ASSUME NEW r \in Requests, (\E c \in Clients : Ask(c, r)) \/ Refuse(r) \/ CreateField(r) \/ Lose(r)
      PROVE  [Promised!Next]_<<Approved, answers>>
  BY <1>2, <1>4 DEF Ask, Refuse, CreateField, Lose
<1>5. ASSUME NEW r \in Requests, NEW a \in Approvals, Propose(r, a)
      PROVE  [Promised!Next]_<<Approved, answers>>
  <2>1. Approved' = Approved
    BY <1>5 DEF Propose, Approved, RelayInv, RelayTypes
  <2>2. QED
    BY <1>5, <2>1 DEF Propose
<1>6. ASSUME NEW r \in Requests, Retry(r) PROVE [Promised!Next]_<<Approved, answers>>
  <2>1. Posting(r)
    BY <1>6 DEF Retry, RelayInv, RepliesFit
  <2>2. UNCHANGED approvals /\ (Answer(r, "deny") \/ UNCHANGED answers)
    BY <1>6 DEF Retry
  <2>3. QED
    BY <1>2, <1>3, <2>1, <2>2, AnswerMaps
<1>7. ASSUME NEW r \in Requests, Receive(r) PROVE [Promised!Next]_<<Approved, answers>>
  <2>1. Posting(r)
    BY <1>7 DEF Receive, RelayInv, RepliesFit
  <2>2. UNCHANGED approvals /\ (Answer(r, "deny") \/ UNCHANGED answers)
    BY <1>7 DEF Receive, PostAgain, Enter, GiveUp
  <2>3. QED
    BY <1>2, <1>3, <2>1, <2>2, AnswerMaps
<1>8. ASSUME NEW r \in Requests, Timeout(r) PROVE [Promised!Next]_<<Approved, answers>>
  BY <1>3, <1>8, AnswerMaps DEF Timeout
<1>9. ASSUME NEW a \in Approvals, NEW status \in {"approved", "rejected"}, Resolve(a, status)
      PROVE  [Promised!Next]_<<Approved, answers>>
  <2>1. UNCHANGED answers
    BY <1>9 DEF Resolve
  <2>2. CASE status = "approved" /\ approvals[a].of \in Requests
    <3>1. Approved' = Approved \union {approvals[a].of}
      BY <1>9, <2>2 DEF Resolve, Approved, RelayInv, RelayTypes, Rows
    <3>2. Promised!Approve(approvals[a].of)
      BY <2>1, <3>1 DEF Promised!Approve
    <3>3. QED
      BY <2>2, <3>2 DEF Promised!Next
  <2>3. CASE ~(status = "approved" /\ approvals[a].of \in Requests)
    <3>1. Approved' = Approved
      BY <1>9, <2>3 DEF Resolve, Approved, RelayInv, RelayTypes, Rows
    <3>2. QED
      BY <2>1, <3>1
  <2>4. QED
    BY <2>2, <2>3
<1>10. ASSUME NEW c \in Clients, Deliver(c) PROVE [Promised!Next]_<<Approved, answers>>
  <2> DEFINE a == Head(stream[c].events)
             r == pendingApprovals[a]
  <2>1. a \in Approvals
    BY <1>10 DEF Deliver, RelayInv, RelayTypes, Streams
  <2>2. /\ UNCHANGED approvals
        /\ (Answer(r, VerdictOf(a)) /\ r # None) \/ UNCHANGED answers
    BY <1>10 DEF Deliver
  <2> HIDE DEF a
  <2>3. r # None => /\ r \in Requests /\ pendingPermissions[r].here /\ approvals[a].of = r
    BY <2>1 DEF RelayInv, RelayTypes, MapsAgree
  <2>4. VerdictOf(a) \in Verdicts /\ (VerdictOf(a) = "allow" => approvals[a].status = "approved")
    BY DEF VerdictOf, Verdicts
  <2>5. r # None => (VerdictOf(a) = "allow" => r \in Approved)
    BY <2>1, <2>3, <2>4 DEF Approved
  <2> HIDE DEF r
  <2>6. CASE Answer(r, VerdictOf(a)) /\ r # None
    BY <2>2, <2>3, <2>4, <2>5, <2>6, AnswerMaps
  <2>7. QED
    BY <1>2, <2>2, <2>6
<1>11. ASSUME NEW c \in Clients, Connect(c) \/ Disconnect(c) \/ Restart(c)
       PROVE  [Promised!Next]_<<Approved, answers>>
  BY <1>2, <1>11 DEF Connect, Disconnect, Restart
<1>12. CASE UNCHANGED vars
  BY <1>2, <1>12 DEF vars
<1>13. QED
  BY <1>4, <1>5, <1>6, <1>7, <1>8, <1>9, <1>10, <1>11, <1>12 DEF Next

\* The invariant holds: in particular an approval that a client still knows is of the
\* request it is entered for, which is unanswered.
THEOREM RelaySafe == Spec => []RelayInv
<1>1. Init => RelayInv
  BY RelayInit
<1>2. RelayInv /\ [Next]_vars => RelayInv'
  BY RelayNext
<1>3. QED
  BY <1>1, <1>2, PTL DEF Spec

\* The relay implements Permission: a session is told "allow" only for a request that an
\* approver approved, and never both verdicts.
THEOREM RelayKeepsPromise == Spec => KeepsPromise
<1>1. Spec => []RelayInv
  BY RelaySafe
<1>2. Init => Promised!Init
  BY InitMaps
<1>3. RelayInv /\ [Next]_vars => [Promised!Next]_<<Approved, answers>>
  BY NextMaps
<1>4. QED
  BY <1>1, <1>2, <1>3, PTL DEF Spec, KeepsPromise, Promised!Spec

\* The numbers: fields are counted from 0, posts up to the limit.
Counts ==
  /\ permissionFieldCounter \in [Clients -> Nat] /\ field \in [Requests -> Nat]
  /\ fields \subseteq Nat
  /\ \A r \in Requests : post[r].attempt <= RETRY_MAX_ATTEMPTS

LEMMA CountsNext == RelayInv /\ Counts /\ [Next]_vars => Counts'
<1> SUFFICES ASSUME RelayInv, Counts, [Next]_vars
             PROVE  Counts'
  OBVIOUS
<1> DEFINE Numbers == /\ permissionFieldCounter \in [Clients -> Nat] /\ field \in [Requests -> Nat]
                      /\ fields \subseteq Nat
           Attempts == \A r \in Requests : post[r].attempt <= RETRY_MAX_ATTEMPTS
<1>1. Numbers /\ Attempts /\ post \in [Requests -> Posts]
  BY DEF Counts, RelayInv, RelayTypes
<1>2. ASSUME NEW r \in Requests, NEW p, p.attempt <= RETRY_MAX_ATTEMPTS,
             post' = [post EXCEPT ![r] = p]
      PROVE  Attempts'
  BY <1>1, <1>2
<1>3. /\ NoPost.attempt <= RETRY_MAX_ATTEMPTS /\ FirstAttempt.attempt <= RETRY_MAX_ATTEMPTS
      /\ \A at, n, reply : Post(at, n, reply).attempt = n
  BY AttemptsAssumption DEF NoPost, FirstAttempt, Post
<1>4. ASSUME NEW c \in Clients, NEW r \in Requests, Ask(c, r) PROVE Counts'
  <2>1. Attempts'
    BY <1>2, <1>3, <1>4 DEF Ask
  <2>2. permissionFieldCounter[c] \in Nat
    BY <1>1
  <2>3. Numbers'
    BY <1>1, <1>4, <2>2 DEF Ask, serverVars
  <2>4. QED
    BY <2>1, <2>3 DEF Counts
<1>5. ASSUME NEW r \in Requests, NEW at, NEW reply, Return(r, at, reply) PROVE Attempts'
  BY <1>1, <1>2, <1>3, <1>5 DEF Return
<1>6. ASSUME NEW r \in Requests, Refuse(r) \/ CreateField(r) \/ Lose(r) \/ \E a \in Approvals : Propose(r, a)
      PROVE  Counts'
  <2>1. Attempts'
    BY <1>5, <1>6 DEF Refuse, CreateField, Lose, Propose
  <2>2. Numbers'
    BY <1>1, <1>6 DEF Refuse, CreateField, Lose, Propose, clientVars, serverVars
  <2>3. QED
    BY <2>1, <2>2 DEF Counts
<1>7. ASSUME NEW r \in Requests, Retry(r) PROVE Counts'
  <2>1. Attempts'
    <3>1. CASE /\ post[r].attempt < RETRY_MAX_ATTEMPTS
               /\ post' = [post EXCEPT ![r] = Post("server", post[r].attempt + 1, None)]
      <4>1. post' = [post EXCEPT ![r] = Post("server", post[r].attempt + 1, None)]
        BY <3>1
      <4>2. post[r].attempt \in Nat
        BY <1>1 DEF Posts
      <4>3. Post("server", post[r].attempt + 1, None).attempt <= RETRY_MAX_ATTEMPTS
        BY <1>3, <3>1, <4>2, AttemptsAssumption
      <4>4. QED
        BY <1>2, <4>1, <4>3
    <3>2. CASE post' = [post EXCEPT ![r] = NoPost]
      BY <1>2, <1>3, <3>2
    <3>3. QED
      BY <1>7, <3>1, <3>2 DEF Retry
  <2>2. Numbers'
    BY <1>1, <1>7 DEF Retry, clientVars, serverVars
  <2>3. QED
    BY <2>1, <2>2 DEF Counts
<1>8. ASSUME NEW r \in Requests, Receive(r) PROVE Counts'
  <2>1. Attempts'
    BY <1>2, <1>3, <1>8 DEF Receive, PostAgain, Enter, GiveUp
  <2>2. Numbers'
    BY <1>1, <1>8 DEF Receive, clientVars, serverVars
  <2>3. QED
    BY <2>1, <2>2 DEF Counts
<1>9. ASSUME NEW r \in Requests, Timeout(r) PROVE Counts'
  BY <1>9 DEF Timeout, clientVars, serverVars, Counts
<1>10. ASSUME NEW a \in Approvals, NEW status, Resolve(a, status) PROVE Counts'
  BY <1>10 DEF Resolve, clientVars, Counts
<1>11. ASSUME NEW c \in Clients, Deliver(c) \/ Connect(c) \/ Disconnect(c) PROVE Counts'
  BY <1>11 DEF Deliver, Connect, Disconnect, clientVars, serverVars, Counts
<1>12. ASSUME NEW c \in Clients, Restart(c) PROVE Counts'
  <2>1. Attempts'
    BY <1>1, <1>3, <1>12 DEF Restart
  <2>2. Numbers'
    BY <1>1, <1>12 DEF Restart, serverVars
  <2>3. QED
    BY <2>1, <2>2 DEF Counts
<1>13. CASE UNCHANGED vars
  BY <1>13 DEF vars, clientVars, serverVars, Counts
<1>14. QED
  BY <1>4, <1>6, <1>7, <1>8, <1>9, <1>10, <1>11, <1>12, <1>13 DEF Next

\* Every variable has its type, and no post is tried more often than the limit allows
\* (apiRequest), for any number of clients, requests and approvals.
THEOREM TypeCorrect == Spec => []TypeOK
<1>1. Init => Counts
  BY AttemptsAssumption DEF Init, Counts, NoPost, Post
<1>2. RelayInv /\ Counts => TypeOK
  <2>1. SUFFICES ASSUME RelayInv, Counts PROVE post \in [Requests -> [at : {"nowhere", "server", "client", "lost"},
                            attempt : 0..RETRY_MAX_ATTEMPTS, reply : Replies]]
    BY DEF RelayInv, RelayTypes, Counts, TypeOK, Entries, Rows, Streams, Steps
  <2>2. post \in [Requests -> Posts]
    BY <2>1 DEF RelayInv, RelayTypes
  <2>3. ASSUME NEW r \in Requests
        PROVE  post[r] \in [at : {"nowhere", "server", "client", "lost"},
                            attempt : 0..RETRY_MAX_ATTEMPTS, reply : Replies]
    <3>1. post[r] \in Posts /\ post[r].attempt <= RETRY_MAX_ATTEMPTS
      BY <2>1, <2>2 DEF Counts
    <3>2. post[r].attempt \in 0..RETRY_MAX_ATTEMPTS
      BY <3>1, AttemptsAssumption DEF Posts
    <3>3. QED
      BY <3>1, <3>2 DEF Posts
  <2>4. QED
    BY <2>2, <2>3
<1>3. QED
  BY <1>1, <1>2, CountsNext, RelayInit, RelayNext, PTL DEF Spec
=============================================================================
