----------------------------- MODULE TaskBoard -----------------------------
(***************************************************************************)
(* The task board: the /api/tasks routes (router.mjs) over the tables      *)
(* tasks, task_history and messages (db.mjs).                              *)
(*                                                                         *)
(* A PATCH reads the task, awaits the body of the request, and then judges *)
(* the request, tells agents and writes the linked state by the task it    *)
(* read, while updateTask reads the row again inside its transaction.      *)
(* What is between the two reads is the subject of the module: other       *)
(* requests, and the end of the server.  Creating a task is three writes   *)
(* without a transaction.                                                  *)
(*                                                                         *)
(* Metadata is what JSON.parse makes of it: "plain" or "linked" (it names a*)
(* state field to set when the task is done) when it is an object, and     *)
(* "nested" when it is a string that holds JSON.                           *)
(***************************************************************************)
EXTENDS Integers, Sequences, Functions

CONSTANTS
  Tasks,
  Messages,
  Sources,       \* what tasks are made from: messages, or "none"
  Team,          \* the registered agents
  MANAGERS,
  Creators,      \* agents that create tasks
  Assignees,     \* agents that tasks are given to, or "nobody"
  Statuses,      \* the statuses in use, "todo" and "done" among them
  Metadata,      \* the metadata a request brings: "plain", "linked"
  Requests,      \* bound: PATCH requests at once
  MaxUpdates     \* bound: updates of all tasks

ASSUME TeamAssumption ==
  MANAGERS \union Creators \subseteq Team /\ Assignees \subseteq Team \union {"nobody"}
ASSUME StatusesAssumption ==
  {"todo", "done"} \subseteq Statuses /\ {"keep", ""} \intersect Statuses = {}
ASSUME MetadataAssumption == Metadata \subseteq {"plain", "linked"}
ASSUME NobodyAssumption ==
  {"nobody", "keep"} \intersect Team = {} /\ "none" \notin Messages \union Tasks
ASSUME SourcesAssumption == Sources \subseteq Messages \union {"none"}
ASSUME UpdatesAssumption == MaxUpdates \in Nat

VARIABLES
  task,        \* tasks: row, creator, source message, status, assignee, closed_at, metadata
  history,     \* task_history: the changes of each update, per task
  named,       \* messages.metadata.task_id
  shown,       \* messages.metadata.task_status
  linkedState, \* tasks that have set their linked state
  request,     \* PATCH requests that have read their task and await the body
  \* history
  told,        \* tasks whose creator was told, or knows, that they are done
  split        \* messages whose task was created by a server that ended in between

tables == <<task, history, named, shown, linkedState>>
taskVars == <<tables, request, told, split>>

None == "none"
Blank == ""    \* a status that is not checked, but written
Nobody == "nobody"
NoTask == [row |-> "none", creator |-> Nobody, source |-> None, status |-> "todo",
           assignee |-> Nobody, closed |-> FALSE, metadata |-> "plain"]
Idle == [by |-> Nobody, of |-> None, read |-> NoTask]

TaskInit ==
  /\ task = [t \in Tasks |-> NoTask] /\ history = [t \in Tasks |-> <<>>]
  /\ named = [m \in Messages |-> None] /\ shown = [m \in Messages |-> None]
  /\ linkedState = {}
  /\ request = [r \in Requests |-> Idle]
  /\ told = {} /\ split = {}

\* The updates so far.
Updates == FoldFunction(LAMBDA h, n : Len(h) + n, 0, history)

Live(t) == task[t].row = "live"

-----------------------------------------------------------------------------
(* POST /api/tasks                                                         *)

\* A message that names a task that was deleted can have another.
Taken(m) == named[m] # None /\ Live(named[m])

Created(t, a, m) ==
  /\ task[t] = NoTask
  /\ m # None => ~Taken(m)
  /\ \E s \in Statuses, b \in Assignees, d \in Metadata :
       task' = [task EXCEPT ![t] =
         [row |-> "live", creator |-> a, source |-> m, status |-> s,
          assignee |-> b, closed |-> FALSE, metadata |-> d]]
  /\ told' = told \union {t}

Create(t, a, m) ==
  /\ Created(t, a, m)
  /\ named' = IF m = None THEN named ELSE [named EXCEPT ![m] = t]
  /\ UNCHANGED <<history, shown, linkedState, request, split>>

\* The server ends after the row is inserted and before the message is updated.
CreateCut(t, a, m) ==
  /\ m # None /\ split = {}
  /\ Created(t, a, m)
  /\ split' = split \union {m}
  /\ request' = [r \in Requests |-> Idle]
  /\ UNCHANGED <<history, named, shown, linkedState>>

-----------------------------------------------------------------------------
(* PATCH /api/tasks/:id                                                    *)

PatchBegin(r, a, t) ==
  /\ request[r] = Idle /\ Live(t)
  /\ request' = [request EXCEPT ![r] = [by |-> a, of |-> t, read |-> task[t]]]
  /\ UNCHANGED <<tables, told, split>>

\* The check of the status lets the empty one pass; null fails at the table.
Bodies ==
  [status : Statuses \union {Blank, "keep"},
   assignee : (Assignees \ {Nobody}) \union {"keep"},
   progress : BOOLEAN, metadata : Metadata \union {"keep"}]

Asked(body, f) == body[f] # "keep"

\* The fields a request may change, by the task as the request read it.
MayChange(a, seen) ==
  IF a \in MANAGERS THEN {"status", "assignee", "progress", "metadata"}
  ELSE (IF seen.creator = a THEN {"status", "assignee", "progress"} ELSE {})
       \union (IF seen.assignee = a THEN {"status", "progress"} ELSE {})

Permitted(a, seen, body) ==
  /\ a \in MANAGERS \union {seen.creator, seen.assignee}
  /\ {f \in {"status", "assignee", "metadata"} : Asked(body, f)}
       \union (IF body.progress THEN {"progress"} ELSE {})
       \subseteq MayChange(a, seen)

\* What the handler passes on as metadata: the progress is put into the metadata
\* it read, as text, which updateTask makes text again.
NewMetadata(body) ==
  IF body.progress THEN "nested" ELSE body.metadata

\* Mutant: closed_at follows the status whatever it was.
UpdatedCloses(old, body) ==
  [old EXCEPT
    !.status = IF Asked(body, "status") THEN body.status ELSE @,
    !.assignee = IF Asked(body, "assignee") THEN body.assignee ELSE @,
    !.metadata = IF NewMetadata(body) = "keep" THEN @ ELSE NewMetadata(body),
    !.closed = body.status = "done"]

\* The row after the update, from the row before.  The empty status is written,
\* but says nothing about closed_at.
Updated(old, body) ==
  [old EXCEPT
    !.status = IF Asked(body, "status") THEN body.status ELSE @,
    !.assignee = IF Asked(body, "assignee") THEN body.assignee ELSE @,
    !.metadata = IF NewMetadata(body) = "keep" THEN @ ELSE NewMetadata(body),
    !.closed = IF body.status = "done" /\ old.status # "done" THEN TRUE
               ELSE IF body.status \in Statuses \ {"done"} /\ old.status = "done"
                 THEN FALSE ELSE @]

\* The change log of an update: the old and the new value of what differs.
Changes(old, new) ==
  [f \in {g \in {"status", "assignee"} : old[g] # new[g]} |->
     [old |-> old[f], new |-> new[f]]]

\* Mutant: the update is made to the task as the request read it.
WriteStale(r, t, body) ==
  LET old == request[r].read
      new == Updated(old, body)
      m == old.source
      changed == new # old
  IN IF changed
       THEN /\ Updates < MaxUpdates
            /\ task' = [task EXCEPT ![t] = new]
            /\ history' = [history EXCEPT ![t] = Append(@, Changes(old, new))]
            /\ named' = IF m = None THEN named ELSE [named EXCEPT ![m] = t]
            /\ shown' = IF m = None THEN shown ELSE [shown EXCEPT ![m] = new.status]
       ELSE UNCHANGED <<task, history, named, shown>>

\* updateTask, which reads the row again; with progress over nested metadata the
\* text may be the same as before.
Write(r, t, body) ==
  LET old == task[t]
      new == Updated(old, body)
      m == old.source
      changed == new # old \/ (body.progress /\ old.metadata = "nested")
  IN IF changed
       THEN /\ Updates < MaxUpdates
            /\ task' = [task EXCEPT ![t] = new]
            /\ history' = [history EXCEPT ![t] = Append(@, Changes(old, new))]
            /\ named' = IF m = None THEN named ELSE [named EXCEPT ![m] = t]
            /\ shown' = IF m = None THEN shown ELSE [shown EXCEPT ![m] = new.status]
       ELSE UNCHANGED <<task, history, named, shown>>

\* Agents are told, and the linked state is set, when the request asks for
\* "done" of a task that it had read in another status.
Follow(r, t, body) ==
  LET q == request[r]
      new == Updated(task[t], body)
      now == body.status = "done" /\ q.read.status # "done"
  IN /\ told' = IF now \/ q.by = new.creator THEN told \union {t}
                 ELSE IF task[t].status # new.status THEN told \ {t} ELSE told
     /\ linkedState' = IF new.status = "done" /\ q.read.status # "done"
                          /\ new.metadata = "linked"
                         THEN linkedState \union {t} ELSE linkedState

Ends(r) == request' = [request EXCEPT ![r] = Idle]

\* Mutant: a task deleted in between is updated.
PatchDeleted(r, body) ==
  LET q == request[r] IN
  /\ q # Idle
  /\ Permitted(q.by, q.read, body)
  /\ ~(body.progress /\ q.read.metadata = "nested")
  /\ Write(r, q.of, body) /\ Follow(r, q.of, body)
  /\ Ends(r)
  /\ UNCHANGED split

Patch(r, body) ==
  LET q == request[r] IN
  /\ q # Idle /\ Live(q.of)
  /\ Permitted(q.by, q.read, body)
  /\ ~(body.progress /\ q.read.metadata = "nested")
  /\ Write(r, q.of, body) /\ Follow(r, q.of, body)
  /\ Ends(r)
  /\ UNCHANGED split

\* A bad body, a field that is not permitted, a task deleted in between, or the
\* exception of a property set on a string.
PatchFails(r) ==
  /\ request[r] # Idle
  /\ Ends(r)
  /\ UNCHANGED <<tables, told, split>>

-----------------------------------------------------------------------------
(* DELETE /api/tasks/:id, and the end of the server                        *)

Delete(a, t) ==
  LET m == task[t].source IN
  /\ Live(t) /\ (task[t].creator = a \/ a \in MANAGERS)
  /\ task' = [task EXCEPT ![t].row = "deleted"]
  /\ named' = IF m = None THEN named ELSE [named EXCEPT ![m] = None]
  /\ shown' = IF m = None THEN shown ELSE [shown EXCEPT ![m] = None]
  /\ UNCHANGED <<history, linkedState, request, told, split>>

Restart ==
  /\ request' = [r \in Requests |-> Idle]
  /\ UNCHANGED <<tables, told, split>>

TaskNext ==
  \/ \E t \in Tasks, a \in Creators, m \in Sources :
       Create(t, a, m) \/ CreateCut(t, a, m)
  \/ \E r \in Requests, a \in Team, t \in Tasks : PatchBegin(r, a, t)
  \/ \E r \in Requests, body \in Bodies : Patch(r, body)
  \/ \E r \in Requests : PatchFails(r)
  \/ \E a \in Team, t \in Tasks : Delete(a, t)
  \/ Restart

TaskSpec == TaskInit /\ [][TaskNext]_taskVars
-----------------------------------------------------------------------------
(* Properties                                                              *)

\* The types of the rows, the requests and the message metadata.
TaskTypeOK ==
  LET Row == [row : {"none", "live", "deleted"}, creator : Team \union {Nobody},
              source : Messages \union {None},
              status : Statuses \union {Blank}, assignee : Team \union {Nobody},
              closed : BOOLEAN,
              metadata : Metadata \union {"plain", "nested"}]
  IN /\ task \in [Tasks -> Row]
     /\ Updates <= MaxUpdates
     /\ named \in [Messages -> Tasks \union {None}]
     /\ shown \in [Messages -> Statuses \union {None, Blank}]
     /\ linkedState \subseteq Tasks
     /\ request \in [Requests -> [by : Team \union {Nobody},
                                  of : Tasks \union {None}, read : Row]]
     /\ told \subseteq Tasks /\ split \subseteq Messages

\* The updates of a task that changed a field.
Of(t, f) == {i \in DOMAIN history[t] : f \in DOMAIN history[t][i]}

\* The history of a task accounts for its row: of every field each change
\* begins with the value the one before left, and the last one left the value
\* of the row, however requests overlap.
HistoryReplays ==
  \A t \in Tasks, f \in {"status", "assignee"} :
    \A i \in Of(t, f) :
      /\ \A j \in Of(t, f) :
           i < j /\ (\A k \in Of(t, f) : k <= i \/ j <= k)
             => history[t][j][f].old = history[t][i][f].new
      /\ (\A j \in Of(t, f) : j <= i) => history[t][i][f].new = task[t][f]

\* The metadata of a message names the one live task made from it, and shows its
\* status or none; only a server that ended while it created the task leaves a
\* message that does not name it, or names one of two.
MessageNamesTask ==
  /\ \A m \in Messages :
       IF named[m] = None THEN shown[m] = None
       ELSE LET n == task[named[m]] IN
            n.row = "live" /\ n.source = m /\ shown[m] \in {None, n.status}
  /\ \A t \in Tasks :
       Live(t) /\ task[t].source \notin split \union {None} => named[task[t].source] = t

\* The task was done, then given the empty status, and not made done since.
LeftByBlank(t) ==
  \E i \in Of(t, "status") :
    /\ history[t][i].status = [old |-> "done", new |-> Blank]
    /\ \A j \in Of(t, "status") : i < j => history[t][j].status.new # "done"

\* However requests that read a task overlap with its updates (PATCH /api/tasks/:id,
\* updateTask): a task with closed_at is done, or was left so by the empty status; a done
\* task without closed_at was created done.
ClosedMeansDone ==
  \A t \in Tasks :
    /\ task[t].closed => task[t].status = "done" \/ LeftByBlank(t)
    /\ task[t].status = "done" /\ ~task[t].closed => Of(t, "status") = {}

\* The creator of a task that was made done by an update knows of it (router:
\* "Status -> done: notify creator + assignee").
CompletionTold ==
  \A t \in Tasks : Live(t) /\ task[t].closed => t \in told
=============================================================================
