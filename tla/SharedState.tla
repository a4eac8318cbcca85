----------------------------- MODULE SharedState -----------------------------
(***************************************************************************)
(* The shared project state of the TeamMCP server: table state_kv (one row *)
(* per project and field), the append-only change_log, pending_approvals,  *)
(* and the events the database layer publishes on the event bus.           *)
(*                                                                         *)
(* better-sqlite3 is synchronous, so a handler runs without interruption   *)
(* and is one action here.  The exception is concludeDiscussion: its loop  *)
(* over the conclusions is one step per conclusion, inside a transaction   *)
(* (tx) that blocks every other handler and that a failing conclusion      *)
(* rolls back.  Early returns that change nothing are not steps, except    *)
(* inside that loop, where they abort the batch.                           *)
(***************************************************************************)
EXTENDS Integers, Sequences, FiniteSets

CONSTANTS
  Projects, Fields, Values,
  Agents,          \* registered agents
  StateAdmins,     \* STATE_ADMINS: may create fields, exempt from the knowledge check
  CEO, Chairman,   \* the fallback approver and the delegate of every approver
  Profiled,        \* agents that have a profile
  Owners,          \* owners a request creating a field may name
  Approvers,       \* approvers a request creating a field may name
  System,          \* the server's own engines (systemWrite, isHumanOverride)
  PermProject,     \* 'claude-code-permissions', where anyone creates approval fields
  NULL,
  MaxLog,          \* bound: rows of change_log
  MaxApprovals     \* bound: approvals ever requested

ASSUME AgentsAssumption ==
  /\ StateAdmins \subseteq Agents
  /\ CEO \in Agents /\ Chairman \in Agents
  /\ Profiled \subseteq Agents
  /\ Owners \subseteq Agents /\ Approvers \subseteq Agents
  /\ System \notin Agents
  /\ NULL \notin Agents /\ NULL \notin Values

ASSUME BoundsAssumption == MaxLog \in Nat /\ MaxApprovals \in Nat

VARIABLES
  kv,          \* [Keys -> Row], version 0 where state_kv has no row
  log,         \* change_log: one record per row, in id order
  approvals,   \* pending_approvals: function from approval ids to records
  nextId,      \* the next fresh approval id (randomUUID: never reused, not rolled back)
  stale,       \* agents with a profile whose last knowledge check is missing or old
  tx,          \* NULL, or the running concludeDiscussion and what a rollback restores
  notified     \* every event published so far

vars == <<kv, log, approvals, nextId, stale, tx, notified>>

Keys == Projects \X Fields
Writers == Agents \cup {System}
ValueOrNull == Values \cup {NULL}

(***************************************************************************)
(* Rows.  via, appr and expected are history fields of the model: on which *)
(* path a change was made, which approval it applies (0: none), and the    *)
(* expected_version its author gave (0: none).                             *)
(***************************************************************************)
Row == [value: ValueOrNull, version: Nat, owner: Writers,
        approval_required: BOOLEAN, approver: Agents \cup {NULL}]

NoRow == [value |-> NULL, version |-> 0, owner |-> System,
          approval_required |-> FALSE, approver |-> NULL]

LogEntry == [source: {"state", "approval"}, key: Keys, old: ValueOrNull,
             new: ValueOrNull, by: Writers, version: Nat,
             via: {"direct", "system", "task", "approval"},
             appr: Nat, expected: Nat]

Approval == [key: Keys, value: Values, by: Agents, owner: Writers,
             status: {"pending", "approved", "rejected"}, expected: Nat]

Event ==
  [type: {"state_changed", "approval_requested", "approval_resolved"},
   key: Keys, version: Nat, value: ValueOrNull, id: Nat]
  \cup [type: {"discussion_concluded"}, project: Projects]

Init ==
  /\ kv = [k \in Keys |-> NoRow]
  /\ log = <<>>
  /\ approvals = [i \in {} |-> NULL]
  /\ nextId = 1
  /\ stale = {}
  /\ tx = NULL
  /\ notified = {}

----------------------------------------------------------------------------
(* What setState decides, on the rows as they are. *)

Exists(k) == kv[k].version > 0

\* The C5 check: admins are exempt, and so is an agent that has no profile.
KnowledgeCheckRequired(a) == a \in stale /\ a \notin StateAdmins

\* Mutant: only an expected_version ahead of the row conflicts.
VersionAhead(k, expected) == Exists(k) /\ expected > kv[k].version

\* expected_version is compared only when the row exists.
VersionConflict(k, expected) ==
  Exists(k) /\ expected # 0 /\ expected # kv[k].version

\* The change must go through an approval: an approval_required field, or
\* somebody else's field.
NeedsApproval(a, k) ==
  Exists(k) /\ (kv[k].approval_required \/ kv[k].owner # a)

\* The approver a proposal on k is addressed to.
ApproverOf(k) ==
  IF kv[k].approval_required
  THEN IF kv[k].approver = NULL THEN CEO ELSE kv[k].approver
  ELSE kv[k].owner

----------------------------------------------------------------------------
(* The two effects of setState: apply a change, or file a proposal. *)

StateEntry(k, v, by, via, id, expected) ==
  [source |-> "state", key |-> k, old |-> kv[k].value, new |-> v, by |-> by,
   version |-> kv[k].version + 1, via |-> via, appr |-> id, expected |-> expected]

\* The approval row resolveApproval logs: version 0, values abstracted away.
ApprovalEntry(i, by) ==
  [source |-> "approval", key |-> approvals[i].key, old |-> NULL, new |-> NULL,
   by |-> by, version |-> 0, via |-> "approval", appr |-> i, expected |-> 0]

\* Mutant: a further change to the key of the last row replaces that row.
LogRowCoalesced(l, e) ==
  IF l # <<>> /\ l[Len(l)].key = e.key
  THEN [l EXCEPT ![Len(l)] = e] ELSE Append(l, e)

LogRow(l, e) == Append(l, e)

\* Mutant: the event carries the version that was replaced.
StateChangedFrom(k, v) ==
  [type |-> "state_changed", key |-> k, version |-> kv[k].version,
   value |-> v, id |-> 0]

StateChanged(k, v) ==
  [type |-> "state_changed", key |-> k, version |-> kv[k].version + 1,
   value |-> v, id |-> 0]

ApprovalEvent(type, k, i) ==
  [type |-> type, key |-> k, version |-> 0, value |-> NULL, id |-> i]

\* UPDATE state_kv
UpdateRow(k, v) ==
  kv' = [kv EXCEPT ![k].value = v, ![k].version = @ + 1]

\* INSERT INTO state_kv
InsertRow(k, v, owner, required, approver) ==
  kv' = [kv EXCEPT ![k] = [value |-> v, version |-> 1, owner |-> owner,
                           approval_required |-> required, approver |-> approver]]

\* The log row and the event of a change to k.
Record(k, v, by, via, expected) ==
  /\ Len(log) < MaxLog
  /\ log' = LogRow(log, StateEntry(k, v, by, via, 0, expected))
  /\ notified' = notified \cup {StateChanged(k, v)}

Proposal(a, k, v, expected) ==
  [key |-> k, value |-> v, by |-> a, owner |-> ApproverOf(k),
   status |-> "pending", expected |-> expected]

AddApproval(rec) ==
  approvals' = [i \in DOMAIN approvals \cup {nextId} |->
                  IF i = nextId THEN rec ELSE approvals[i]]

----------------------------------------------------------------------------
(* Handlers *)

\* POST /api/state on a field that does not exist.
CreateField(a, k, v, owner, required, approver) ==
  /\ tx = NULL
  /\ ~KnowledgeCheckRequired(a)
  /\ ~Exists(k)
  /\ a \in StateAdmins \/ (k[1] = PermProject /\ required)
  /\ InsertRow(k, v, owner, required, approver)
  /\ Record(k, v, a, "direct", 0)
  /\ UNCHANGED <<approvals, nextId, stale, tx>>

\* POST /api/state by the owner of an ordinary field.
WriteField(a, k, v, expected) ==
  /\ tx = NULL
  /\ ~KnowledgeCheckRequired(a)
  /\ ~VersionConflict(k, expected)
  /\ Exists(k) /\ ~NeedsApproval(a, k)
  /\ UpdateRow(k, v)
  /\ Record(k, v, a, "direct", expected)
  /\ UNCHANGED <<approvals, nextId, stale, tx>>

\* POST /api/state that files a proposal instead of writing.
ProposeChange(a, k, v, expected) ==
  /\ tx = NULL
  /\ nextId <= MaxApprovals
  /\ ~KnowledgeCheckRequired(a)
  /\ ~VersionConflict(k, expected)
  /\ NeedsApproval(a, k)
  /\ AddApproval(Proposal(a, k, v, expected))
  /\ nextId' = nextId + 1
  /\ notified' = notified \cup {ApprovalEvent("approval_requested", k, nextId)}
  /\ UNCHANGED <<kv, log, stale, tx>>

\* An engine of the server writes (or creates) a field.
SystemWrite(k, v) ==
  /\ tx = NULL
  /\ IF Exists(k) THEN UpdateRow(k, v) ELSE InsertRow(k, v, System, FALSE, NULL)
  /\ Record(k, v, System, "system", 0)
  /\ UNCHANGED <<approvals, nextId, stale, tx>>

\* PATCH /api/tasks/:id that makes a task done writes the field the task is
\* linked to, as setState(..., { isApproval: true }) in the caller's name.
TaskLinkWrite(a, k, v) ==
  /\ tx = NULL
  /\ IF Exists(k) THEN UpdateRow(k, v)
     ELSE a \in StateAdmins /\ InsertRow(k, v, a, FALSE, NULL)
  /\ Record(k, v, a, "task", 0)
  /\ UNCHANGED <<approvals, nextId, stale, tx>>

\* Mutant: an approval that was resolved can be resolved again.
MayResolveAgain(i, by) ==
  /\ i \in DOMAIN approvals
  /\ by = approvals[i].owner \/ by = Chairman

\* Only the approver the proposal is addressed to, or the Chairman, resolves it.
MayResolve(i, by) ==
  /\ i \in DOMAIN approvals
  /\ approvals[i].status = "pending"
  /\ by = approvals[i].owner \/ by = Chairman

RejectApproval(i, by) ==
  /\ tx = NULL
  /\ MayResolve(i, by)
  /\ Len(log) < MaxLog
  /\ approvals' = [approvals EXCEPT ![i].status = "rejected"]
  /\ log' = LogRow(log, ApprovalEntry(i, by))
  /\ notified' = notified \cup {ApprovalEvent("approval_resolved", approvals[i].key, i)}
  /\ UNCHANGED <<kv, nextId, stale, tx>>

\* The proposed value is written as it was proposed, in the proposer's name,
\* whatever the row holds by now.
ApproveApproval(i, by) ==
  /\ tx = NULL
  /\ MayResolve(i, by)
  /\ Len(log) + 1 < MaxLog
  /\ approvals' = [approvals EXCEPT ![i].status = "approved"]
  /\ LET p == approvals[i] IN
       /\ UpdateRow(p.key, p.value)
       /\ log' = LogRow(LogRow(log, ApprovalEntry(i, by)),
                        StateEntry(p.key, p.value, p.by, "approval", i, p.expected))
       /\ notified' = notified \cup {StateChanged(p.key, p.value),
                                     ApprovalEvent("approval_resolved", p.key, i)}
  /\ UNCHANGED <<nextId, stale, tx>>

----------------------------------------------------------------------------
(* concludeDiscussion: setState for every conclusion, all or nothing. *)

ConcludeBegin(a, p) ==
  /\ tx = NULL
  /\ tx' = [by |-> a, project |-> p, kv |-> kv, log |-> log, approvals |-> approvals]
  /\ UNCHANGED <<kv, log, approvals, nextId, stale, notified>>

\* One conclusion that setState applies.
ConcludeItem(k, v) ==
  /\ tx # NULL
  /\ k[1] = tx.project
  /\ ~KnowledgeCheckRequired(tx.by)
  /\ \/ Exists(k) /\ ~NeedsApproval(tx.by, k) /\ UpdateRow(k, v)
     \/ ~Exists(k) /\ tx.by \in StateAdmins /\ InsertRow(k, v, tx.by, FALSE, NULL)
  /\ Record(k, v, tx.by, "direct", 0)
  /\ UNCHANGED <<approvals, nextId, stale, tx>>

\* Mutant: change_log is written outside the transaction.
RollBackState ==
  /\ kv' = tx.kv
  /\ approvals' = tx.approvals
  /\ log' = log
  /\ tx' = NULL

\* The throw that rolls the batch back.  Events are not rolled back.
RollBack ==
  /\ kv' = tx.kv
  /\ log' = tx.log
  /\ approvals' = tx.approvals
  /\ tx' = NULL

\* One conclusion that setState refuses.
ConcludeRefused(k) ==
  /\ tx # NULL
  /\ k[1] = tx.project
  /\ \/ KnowledgeCheckRequired(tx.by)
     \/ ~Exists(k) /\ tx.by \notin StateAdmins
  /\ RollBack
  /\ UNCHANGED <<nextId, stale, notified>>

\* One conclusion for which setState files a proposal: the proposal is rolled
\* back with the batch, its approval_requested event is already out.
ConcludeNeedsApproval(k) ==
  /\ tx # NULL
  /\ nextId <= MaxApprovals
  /\ k[1] = tx.project
  /\ ~KnowledgeCheckRequired(tx.by)
  /\ NeedsApproval(tx.by, k)
  /\ RollBack
  /\ nextId' = nextId + 1
  /\ notified' = notified \cup {ApprovalEvent("approval_requested", k, nextId)}
  /\ UNCHANGED stale

Concluded(p) == [type |-> "discussion_concluded", project |-> p]

\* The batch commits and its end is published.  The handler then refers to a name it
\* does not have and answers with an error, which changes nothing.
ConcludeCommit ==
  /\ tx # NULL
  /\ tx' = NULL
  /\ notified' = notified \cup {Concluded(tx.project)}
  /\ UNCHANGED <<kv, log, approvals, nextId, stale>>

----------------------------------------------------------------------------
(* The agent profiles, seen from setState.                                *)

KnowledgeChecked(a) ==
  /\ tx = NULL
  /\ a \in stale
  /\ stale' = stale \ {a}
  /\ UNCHANGED <<kv, log, approvals, nextId, tx, notified>>

\* An hour passes, or the profile is replaced by one without a timestamp.
KnowledgeExpires(a) ==
  /\ tx = NULL
  /\ a \in Profiled \ stale
  /\ stale' = stale \cup {a}
  /\ UNCHANGED <<kv, log, approvals, nextId, tx, notified>>

ApiStep ==
  \/ \E a \in Agents, k \in Keys, v \in Values :
       \/ \E owner \in Owners \cup {a}, required \in BOOLEAN, approver \in Approvers \cup {NULL} :
            CreateField(a, k, v, owner, required, approver)
       \/ \E expected \in 0..MaxLog : WriteField(a, k, v, expected)
       \/ \E expected \in 0..MaxLog : ProposeChange(a, k, v, expected)
       \/ TaskLinkWrite(a, k, v)
  \/ \E k \in Keys, v \in Values : SystemWrite(k, v)
  \/ \E i \in DOMAIN approvals, by \in Agents :
       RejectApproval(i, by) \/ ApproveApproval(i, by)

ConcludeStep ==
  \/ \E a \in Agents, p \in Projects : ConcludeBegin(a, p)
  \/ \E k \in Keys : \/ \E v \in Values : ConcludeItem(k, v)
                     \/ ConcludeRefused(k)
                     \/ ConcludeNeedsApproval(k)
  \/ ConcludeCommit

ProfileStep == \E a \in Agents : KnowledgeChecked(a) \/ KnowledgeExpires(a)

Next == ApiStep \/ ConcludeStep \/ ProfileStep

Spec == Init /\ [][Next]_vars

----------------------------------------------------------------------------
(* Properties *)

\* Every table holds rows of its type, and an open batch holds a snapshot of
\* the tables (pending_approvals does not change while a batch runs).
TypeOK ==
  /\ kv \in [Keys -> Row]
  /\ log \in Seq(LogEntry)
  /\ DOMAIN approvals \subseteq 1..(nextId - 1)
  /\ \A i \in DOMAIN approvals : approvals[i] \in Approval
  /\ nextId \in Nat \ {0}
  /\ stale \subseteq Agents
  /\ tx # NULL => /\ tx.by \in Agents /\ tx.project \in Projects
                  /\ tx.kv \in [Keys -> Row] /\ tx.log \in Seq(LogEntry)
                  /\ tx.approvals = approvals
  /\ notified \subseteq Event

StateRows(l) == {i \in 1..Len(l) : l[i].source = "state"}

\* A table state t and a log l agree: the state rows of a field carry the
\* versions 1, 2, ... in log order, each starts from the value the one before
\* it wrote, and the last one is the row of state_kv.
VersionsInRange(t, l) ==
  \A i \in StateRows(l) : l[i].version \in 1..t[l[i].key].version

VersionsAscend(l) ==
  \A i, j \in StateRows(l) :
    (l[i].key = l[j].key /\ i < j) => l[i].version < l[j].version

EveryVersionLogged(t, l) ==
  \A k \in DOMAIN t : \A n \in 1..t[k].version :
    \E i \in StateRows(l) : l[i].key = k /\ l[i].version = n

ValuesChain(l) ==
  \A i, j \in StateRows(l) :
    (l[i].key = l[j].key /\ l[j].version = l[i].version + 1) => l[j].old = l[i].new

LastIsCurrent(t, l) ==
  \A i \in StateRows(l) :
    l[i].version = t[l[i].key].version => l[i].new = t[l[i].key].value

Agrees(t, l) ==
  /\ VersionsInRange(t, l)
  /\ VersionsAscend(l)
  /\ EveryVersionLogged(t, l)
  /\ ValuesChain(l)
  /\ LastIsCurrent(t, l)

\* The change log replays to the state: on every write path, in the middle of
\* a conclusion batch and after its rollback, state_kv is what its change_log
\* rows say (db.mjs setState, resolveApproval, concludeDiscussion).
LogReplaysToState == Agrees(kv, log)

\* Every approved proposal was applied exactly once, as proposed, and nothing
\* is applied in the name of an approval that was not granted
\* (db.mjs resolveApproval against setState's isApproval path).
ApprovalsAppliedOnce ==
  /\ \A i \in DOMAIN approvals : approvals[i].status = "approved" =>
       \E j \in StateRows(log) :
         /\ log[j].appr = i /\ log[j].key = approvals[i].key
         /\ log[j].new = approvals[i].value /\ log[j].by = approvals[i].by
  /\ \A j \in StateRows(log) : log[j].appr # 0 =>
       /\ log[j].appr \in DOMAIN approvals
       /\ approvals[log[j].appr].status = "approved"
  /\ \A i, j \in StateRows(log) : log[i].appr # 0 /\ log[i].appr = log[j].appr => i = j

\* A row an agent wrote directly was written by the field's owner on a field
\* that needs no approval, or created the field: neither a conclusion batch
\* nor an optimistic write slips past the approval workflow.
DirectWritesAreOwned ==
  \A i \in StateRows(log) :
    (log[i].via = "direct" /\ log[i].version > 1) =>
      /\ log[i].by = kv[log[i].key].owner
      /\ ~kv[log[i].key].approval_required

\* A direct write that named an expected_version replaced exactly that version.
OptimisticWritesHold ==
  \A i \in StateRows(log) :
    (log[i].via = "direct" /\ log[i].expected # 0) =>
      log[i].version = log[i].expected + 1

StartsWith(l2, l) == Len(l) <= Len(l2) /\ \A i \in 1..Len(l) : l2[i] = l[i]

\* What is committed of the log while a batch may still be rolled back.
CommittedLog == IF tx = NULL THEN log ELSE tx.log

\* The audit trail is append-only: no step, a rollback included, changes or
\* removes a committed row of change_log.
AuditTrailGrows == [][StartsWith(CommittedLog', CommittedLog)]_vars

\* Every change that reached the log was announced to the subscribers, with
\* the version and the value that was written.
ChangesAnnounced ==
  \A i \in StateRows(log) :
    \E n \in notified : /\ n.type = "state_changed" /\ n.key = log[i].key
                        /\ n.version = log[i].version /\ n.value = log[i].new

\* A batch that fails is aborted entirely: once no batch is running, every
\* change that was announced is in the log.
AnnouncedChangesHappened ==
  tx = NULL =>
    \A n \in notified : n.type = "state_changed" =>
      \E i \in StateRows(log) : /\ log[i].key = n.key /\ log[i].version = n.version
                                /\ log[i].new = n.value

\* "approval_required fields: even owner needs upper-level confirmation (unless
\* human override or already approved)": every later version of such a field
\* was approved or written by an engine.
ProtectedFieldsConfirmed ==
  \A i \in StateRows(log) :
    (kv[log[i].key].approval_required /\ log[i].version > 1) =>
      log[i].via \in {"approval", "system"}
=============================================================================
