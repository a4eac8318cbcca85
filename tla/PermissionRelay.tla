-------------------------- MODULE PermissionRelay --------------------------
(***************************************************************************)
(* How a Claude Code session asks for permission to use a tool: the client *)
(* beside the agent (mcp-client/teammcp-channel.mjs) turns the request into*)
(* an approval of the server (setState and resolveApproval of db.mjs) and  *)
(* waits for the resolution on its event stream.                           *)
(*                                                                         *)
(* A field that requires approval is created without one, so the client    *)
(* posts twice.  Each post is repeated when its answer is lost, though the *)
(* server may have acted on it.  The answer of a post and the event of the *)
(* resolution come on different connections, in any order, and an event    *)
(* for a closed stream is dropped.  A request is denied after 30 minutes,  *)
(* at whatever point it then is.  The names of the fields, perm_0 on, are  *)
(* the same at every client.                                               *)
(*                                                                         *)
(* Ids of requests and of approvals are unique, so the maps of all clients *)
(* are one function here; a request is entered when its "here" is TRUE.    *)
(***************************************************************************)
EXTENDS Integers, Sequences

CONSTANTS
  Clients,             \* agents that run the client
  Requests,            \* permission requests of the sessions
  Approvals,           \* bound: ids of pending_approvals rows
  RETRY_MAX_ATTEMPTS,  \* attempts of one post
  None

ASSUME AttemptsAssumption == RETRY_MAX_ATTEMPTS \in Nat \ {0}
ASSUME NoneAssumption == None \notin Clients \union Requests \union Approvals
ASSUME RepliesAssumption == {"created", "refused"} \intersect (Approvals \union {None}) = {}

VARIABLES
  permissionFieldCounter, \* per client
  asker,                  \* the client of a request
  field,                  \* the number of its field
  step,                   \* where handlePermissionRequest is for the request
  post,                   \* its post: where it is, which attempt, the reply
  pendingPermissions,     \* request -> is it entered, with which approval
  pendingApprovals,       \* approval -> request
  fields,                 \* server: perm_N rows of state_kv
  approvals,              \* server: pending_approvals
  stream,                 \* the event stream of each client: open, events on the way
  answers                 \* history: what the session was sent

clientVars == <<permissionFieldCounter, asker, field>>
maps == <<pendingPermissions, pendingApprovals>>
serverVars == <<fields, approvals>>
vars == <<clientVars, step, post, maps, serverVars, stream, answers>>

Verdicts == {"allow", "deny"}
Replies == Approvals \union {"created", "refused", None}
Post(at, attempt, reply) == [at |-> at, attempt |-> attempt, reply |-> reply]
NoPost == Post("nowhere", 0, None)
FirstAttempt == Post("server", 1, None)
Absent == [here |-> FALSE, approvalId |-> None]
NoApproval == [of |-> None, by |-> None, status |-> "unused"]
Closed == [open |-> FALSE, events |-> <<>>]

TypeOK ==
  /\ permissionFieldCounter \in [Clients -> Nat]
  /\ asker \in [Requests -> Clients \union {None}]
  /\ field \in [Requests -> Nat]
  /\ step \in [Requests -> {"idle", "first", "second", "ended", "gone"}]
  /\ post \in [Requests -> [at : {"nowhere", "server", "client", "lost"},
                            attempt : 0..RETRY_MAX_ATTEMPTS, reply : Replies]]
  /\ pendingPermissions \in [Requests -> [here : BOOLEAN, approvalId : Approvals \union {None}]]
  /\ pendingApprovals \in [Approvals -> Requests \union {None}]
  /\ fields \subseteq Nat
  /\ approvals \in [Approvals -> [of : Requests \union {None}, by : Clients \union {None},
                                  status : {"unused", "pending", "approved", "rejected"}]]
  /\ stream \in [Clients -> [open : BOOLEAN, events : Seq(Approvals)]]
  /\ answers \in [Requests -> SUBSET Verdicts]

Init ==
  /\ permissionFieldCounter = [c \in Clients |-> 0]
  /\ asker = [r \in Requests |-> None]
  /\ field = [r \in Requests |-> 0]
  /\ step = [r \in Requests |-> "idle"]
  /\ post = [r \in Requests |-> NoPost]
  /\ pendingPermissions = [r \in Requests |-> Absent]
  /\ pendingApprovals = [a \in Approvals |-> None]
  /\ fields = {}
  /\ approvals = [a \in Approvals |-> NoApproval]
  /\ stream = [c \in Clients |-> Closed]
  /\ answers = [r \in Requests |-> {}]

-----------------------------------------------------------------------------
\* cleanupPermission
Cleanup(r) ==
  /\ pendingPermissions' = [pendingPermissions EXCEPT ![r] = Absent]
  /\ pendingApprovals' = [a \in Approvals |->
       IF pendingPermissions[r].here /\ a = pendingPermissions[r].approvalId
       THEN None ELSE pendingApprovals[a]]

\* sendPermissionResponse, then cleanupPermission.
Answer(r, verdict) ==
  /\ answers' = [answers EXCEPT ![r] = @ \union {verdict}]
  /\ Cleanup(r)

End(r) == step' = [step EXCEPT ![r] = "ended"]

-----------------------------------------------------------------------------
\* The session asks: the request is entered under the next field and posted.
Ask(c, r) ==
  /\ step[r] = "idle"
  /\ asker' = [asker EXCEPT ![r] = c]
  /\ field' = [field EXCEPT ![r] = permissionFieldCounter[c]]
  /\ permissionFieldCounter' = [permissionFieldCounter EXCEPT ![c] = @ + 1]
  /\ pendingPermissions' = [pendingPermissions EXCEPT ![r] = [here |-> TRUE, approvalId |-> None]]
  /\ step' = [step EXCEPT ![r] = "first"]
  /\ post' = [post EXCEPT ![r] = FirstAttempt]
  /\ UNCHANGED <<pendingApprovals, serverVars, stream, answers>>

\* Nobody waits for the reply of a client that is gone.
Return(r, at, reply) ==
  post' = [post EXCEPT ![r] = IF step[r] = "gone" THEN NoPost
                              ELSE Post(at, post[r].attempt, reply)]

\* The server handles a post, of a client that may meanwhile be gone.
\* setState refuses one whose last knowledge check is stale.
Refuse(r) ==
  /\ post[r].at = "server"
  /\ Return(r, "client", "refused")
  /\ UNCHANGED <<clientVars, step, maps, serverVars, stream, answers>>

\* setState: the first post of a field, by whichever client, creates it.
CreateField(r) ==
  /\ post[r].at = "server"
  /\ field[r] \notin fields
  /\ fields' = fields \union {field[r]}
  /\ Return(r, "client", "created")
  /\ UNCHANGED <<clientVars, step, maps, approvals, stream, answers>>

\* setState: a further post of the field, also a repeated one, is an approval.
Propose(r, a) ==
  /\ post[r].at = "server"
  /\ field[r] \in fields
  /\ approvals[a].status = "unused"
  /\ approvals' = [approvals EXCEPT ![a] = [of |-> r, by |-> asker[r], status |-> "pending"]]
  /\ Return(r, "client", a)
  /\ UNCHANGED <<clientVars, step, maps, fields, stream, answers>>

\* The connection fails, before the server acts or after it.
Lose(r) ==
  /\ post[r].at \in {"server", "client"}
  /\ Return(r, "lost", None)
  /\ UNCHANGED <<clientVars, step, maps, serverVars, stream, answers>>

\* apiRequest: the next attempt; or the error that denies the request: of the last
\* attempt, one that is not retryable, or that of a body that breaks off, whose promise
\* is returned without an await and so not caught.
Retry(r) ==
  /\ post[r].at = "lost"
  /\ \/ /\ post[r].attempt < RETRY_MAX_ATTEMPTS
        /\ post' = [post EXCEPT ![r] = Post("server", post[r].attempt + 1, None)]
        /\ UNCHANGED <<step, maps, answers>>
     \/ /\ post' = [post EXCEPT ![r] = NoPost]
        /\ End(r)
        /\ Answer(r, "deny")
  /\ UNCHANGED <<clientVars, serverVars, stream>>

-----------------------------------------------------------------------------
\* The reply to the first post of a new field: post again, for the approval.
PostAgain(r) ==
  /\ post[r].reply = "created" /\ step[r] = "first"
  /\ step' = [step EXCEPT ![r] = "second"]
  /\ post' = [post EXCEPT ![r] = FirstAttempt]
  /\ UNCHANGED <<maps, answers>>

\* Mutant: the approval of a request that has timed out meanwhile is entered.
EnterAnyway(r) ==
  /\ post[r].reply \in Approvals
  /\ pendingPermissions' = [pendingPermissions EXCEPT ![r] =
       IF @.here THEN [@ EXCEPT !.approvalId = post[r].reply] ELSE @]
  /\ pendingApprovals' = [pendingApprovals EXCEPT ![post[r].reply] = r]
  /\ End(r)
  /\ post' = [post EXCEPT ![r] = NoPost]
  /\ UNCHANGED answers

\* The id of the approval is entered; a request that has timed out meanwhile
\* is not in the map, which throws and denies it once more.
Enter(r) ==
  /\ post[r].reply \in Approvals
  /\ IF pendingPermissions[r].here
     THEN /\ pendingPermissions' = [pendingPermissions EXCEPT ![r].approvalId = post[r].reply]
          /\ pendingApprovals' = [pendingApprovals EXCEPT ![post[r].reply] = r]
          /\ UNCHANGED answers
     ELSE Answer(r, "deny")
  /\ End(r)
  /\ post' = [post EXCEPT ![r] = NoPost]

\* An error, or a second post that created the field: denied.
GiveUp(r) ==
  /\ post[r].reply = "refused" \/ (post[r].reply = "created" /\ step[r] = "second")
  /\ Answer(r, "deny")
  /\ End(r)
  /\ post' = [post EXCEPT ![r] = NoPost]

\* handlePermissionRequest goes on with the reply.
Receive(r) ==
  /\ post[r].at = "client"
  /\ PostAgain(r) \/ Enter(r) \/ GiveUp(r)
  /\ UNCHANGED <<clientVars, serverVars, stream>>

\* Mutant: only requests whose approval is known time out.
TimeoutOfKnown(r) ==
  /\ pendingPermissions[r].here
  /\ pendingPermissions[r].approvalId # None
  /\ Answer(r, "deny")
  /\ UNCHANGED <<clientVars, step, post, serverVars, stream>>

\* The check of each minute finds a request of 30 minutes.
Timeout(r) ==
  /\ pendingPermissions[r].here
  /\ Answer(r, "deny")
  /\ UNCHANGED <<clientVars, step, post, serverVars, stream>>

-----------------------------------------------------------------------------
\* resolveApproval: the approver (CEO, or Chairman by WeChat) decides, and the
\* event goes to the proposer's stream, if that is open.
Resolve(a, status) ==
  /\ approvals[a].status = "pending"
  /\ approvals' = [approvals EXCEPT ![a].status = status]
  /\ stream' = [c \in Clients |->
       IF c = approvals[a].by /\ stream[c].open
       THEN [stream[c] EXCEPT !.events = Append(@, a)] ELSE stream[c]]
  /\ UNCHANGED <<clientVars, step, post, maps, fields, answers>>

VerdictOf(a) == IF approvals[a].status = "approved" THEN "allow" ELSE "deny"

\* handleApprovalResolved: an approval that is not in the map is ignored.
Deliver(c) ==
  /\ stream[c].events # <<>>
  /\ stream' = [stream EXCEPT ![c].events = Tail(@)]
  /\ LET a == Head(stream[c].events)
         r == pendingApprovals[a]
     IN IF r # None /\ asker[r] = c
        THEN Answer(r, VerdictOf(a))
        ELSE UNCHANGED <<maps, answers>>
  /\ UNCHANGED <<clientVars, step, post, serverVars>>

Connect(c) ==
  /\ ~stream[c].open
  /\ stream' = [stream EXCEPT ![c].open = TRUE]
  /\ UNCHANGED <<clientVars, step, post, maps, serverVars, answers>>

\* The stream ends, with the events on it.  The server sees it too.
Disconnect(c) ==
  /\ stream[c].open
  /\ stream' = [stream EXCEPT ![c] = Closed]
  /\ UNCHANGED <<clientVars, step, post, maps, serverVars, answers>>

Entered(c) == {r \in Requests : asker[r] = c /\ step[r] # "gone"}

\* The session ends and another starts: nothing of the client is kept, not
\* even the counter.  Posts on the way still reach the server.
Restart(c) ==
  /\ Entered(c) # {}
  /\ permissionFieldCounter' = [permissionFieldCounter EXCEPT ![c] = 0]
  /\ step' = [r \in Requests |-> IF r \in Entered(c) THEN "gone" ELSE step[r]]
  /\ pendingPermissions' = [r \in Requests |->
                              IF r \in Entered(c) THEN Absent ELSE pendingPermissions[r]]
  /\ pendingApprovals' = [a \in Approvals |->
                            IF pendingApprovals[a] \in Entered(c) THEN None ELSE pendingApprovals[a]]
  /\ post' = [r \in Requests |->
                IF r \in Entered(c) /\ post[r].at # "server" THEN NoPost ELSE post[r]]
  /\ stream' = [stream EXCEPT ![c] = Closed]
  /\ UNCHANGED <<asker, field, serverVars, answers>>

-----------------------------------------------------------------------------
Next ==
  \/ \E r \in Requests :
       \/ \E c \in Clients : Ask(c, r)
       \/ Refuse(r) \/ CreateField(r)
       \/ \E a \in Approvals : Propose(r, a)
       \/ Lose(r) \/ Retry(r) \/ Receive(r) \/ Timeout(r)
  \/ \E a \in Approvals, status \in {"approved", "rejected"} : Resolve(a, status)
  \/ \E c \in Clients : Deliver(c) \/ Connect(c) \/ Disconnect(c) \/ Restart(c)

\* The timer of the client is what the answer can be relied on for: posts,
\* approvers and streams may all be slow for ever.
Spec == Init /\ [][Next]_vars /\ \A r \in Requests : WF_vars(Timeout(r))

-----------------------------------------------------------------------------
Approved == {r \in Requests :
               \E a \in Approvals : approvals[a].of = r /\ approvals[a].status = "approved"}

Promised == INSTANCE Permission WITH approved <- Approved

\* The relay keeps the promise of Permission: a session is told "allow" only
\* for a request that an approver has approved, whichever client shares its
\* field, and never after "deny" or before it, whatever was repeated, lost,
\* late or timed out.
KeepsPromise == Promised!Spec

\* Every request is answered in the end, unless its session ends before: also
\* one whose posts hang, whose approval is forgotten or whose event is lost.
AnsweredInTheEnd ==
  \A r \in Requests : step[r] = "first" ~> answers[r] # {} \/ step[r] = "gone"
=============================================================================
