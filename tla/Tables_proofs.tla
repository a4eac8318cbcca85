---------------------------- MODULE Tables_proofs ----------------------------
(***************************************************************************)
(* Theorems about the three components whose state is the database:        *)
(* SharedState, TaskBoard and Delivery, each for every value of its        *)
(* constants.  Their names are disjoint; no theorem relates two of them.   *)
(*                                                                         *)
(* SharedState: the invariant relates the live tables to the live log and, *)
(* while a conclusion batch runs, the tables and the log a rollback would  *)
(* restore: without the second half a rollback could restore a pair that   *)
(* does not agree.  WritesInv says of every row of both logs by whom, on   *)
(* what version and under which approval it was written.                   *)
(*                                                                         *)
(* TaskBoard: a request that has read a task works on a row that another   *)
(* request may have patched or deleted since; the invariant BoardInv says  *)
(* what a request may rely on across its await, and how the rows relate to *)
(* their history.                                                          *)
(*                                                                         *)
(* Delivery: PushInv is what keeps a push from being dropped; ReadInv      *)
(* tells what lies behind each marker, what each inbox answer names, and   *)
(* that an agent with an open stream lacks nothing wherever its marker may *)
(* be moved.  Both are of any channel, any limits and any overlap of sends.*)
(***************************************************************************)
EXTENDS SharedState, TaskBoard, Delivery, SequenceTheorems, FiniteSetTheorems,
        WellFoundedInduction, TLAPS


\* The inductive invariant of LogReplaysToState.
LogInv ==
  /\ TypeOK
  /\ Agrees(kv, log)
  /\ tx # NULL => Agrees(tx.kv, tx.log) /\ StartsWith(log, tx.log)

----------------------------------------------------------------------------
(* Facts about appending one row to the log. *)

\* Appending a row keeps the old rows and their places.
LEMMA LogRowFacts ==
  ASSUME NEW l \in Seq(LogEntry), NEW e \in LogEntry
  PROVE  /\ LogRow(l, e) \in Seq(LogEntry)
         /\ Len(LogRow(l, e)) = Len(l) + 1
         /\ \A i \in 1..Len(l) : LogRow(l, e)[i] = l[i]
         /\ LogRow(l, e)[Len(l) + 1] = e
         /\ Len(l) \in Nat
  BY AppendProperties DEF LogRow

\* A row that is not a state row leaves the agreement of table and log alone.
LEMMA AgreesOtherRow ==
  ASSUME NEW t \in [Keys -> Row], NEW l \in Seq(LogEntry), Agrees(t, l),
         NEW e \in LogEntry, e.source # "state"
  PROVE  Agrees(t, LogRow(l, e))
<1> DEFINE l2 == LogRow(l, e)
<1>1. /\ Len(l2) = Len(l) + 1 /\ Len(l) \in Nat
      /\ \A i \in 1..Len(l) : l2[i] = l[i]
      /\ l2[Len(l) + 1] = e
  BY LogRowFacts
<1>2. StateRows(l2) = StateRows(l)
  BY <1>1 DEF StateRows
<1>3. \A i \in StateRows(l) : l2[i] = l[i]
  BY <1>1 DEF StateRows
<1> HIDE DEF l2
<1>4. QED
  BY <1>2, <1>3 DEF Agrees, VersionsInRange, VersionsAscend, EveryVersionLogged,
                    ValuesChain, LastIsCurrent, l2

\* The step of setState: the row's next version is written to the table and
\* to the log together.
LEMMA AgreesNextVersion ==
  ASSUME NEW t \in [Keys -> Row], NEW l \in Seq(LogEntry), Agrees(t, l),
         NEW k \in Keys, NEW e \in LogEntry, NEW t2 \in [Keys -> Row],
         e.source = "state", e.key = k,
         e.version = t[k].version + 1, e.old = t[k].value,
         t2[k].version = e.version, t2[k].value = e.new,
         \A k2 \in Keys : k2 # k => t2[k2] = t[k2]
  PROVE  Agrees(t2, LogRow(l, e))
<1> DEFINE l2 == LogRow(l, e)
           n == Len(l) + 1
<1>1. /\ Len(l2) = n /\ n \in Nat /\ Len(l) \in Nat
      /\ \A i \in 1..Len(l) : l2[i] = l[i]
      /\ l2[n] = e
      /\ l \in Seq(LogEntry)
  BY LogRowFacts
<1>2. /\ StateRows(l2) = StateRows(l) \cup {n}
      /\ n \notin StateRows(l)
      /\ \A i \in StateRows(l) : i < n /\ i \in Nat /\ l2[i] = l[i] /\ l[i] \in LogEntry
  BY <1>1 DEF StateRows
<1>3. \A i \in StateRows(l) : l[i].key \in Keys /\ l[i].version \in Nat
  BY <1>2 DEF LogEntry
<1>4. \A i \in StateRows(l) : l[i].version \in 1..t[l[i].key].version
  BY DEF Agrees, VersionsInRange
<1>5. \A k2 \in Keys : t[k2].version \in Nat /\ t2[k2].version \in Nat
  BY DEF Row
<1> DOMAIN t = Keys /\ DOMAIN t2 = Keys
  OBVIOUS
<1> HIDE DEF l2, n
<1>6. VersionsInRange(t2, l2)
  <2>1. ASSUME NEW i \in StateRows(l)
        PROVE  l2[i].version \in 1..t2[l2[i].key].version
    <3>1. CASE l[i].key = k
      BY <1>2, <1>3, <1>4, <1>5, <3>1
    <3>2. CASE l[i].key # k
      BY <1>2, <1>3, <1>4, <1>5, <3>2
    <3>3. QED
      BY <3>1, <3>2
  <2>2. l2[n].version \in 1..t2[l2[n].key].version
    BY <1>1, <1>5
  <2>3. QED
    BY <2>1, <2>2, <1>2 DEF VersionsInRange
<1>7. VersionsAscend(l2)
  <2> SUFFICES ASSUME NEW i \in StateRows(l2), NEW j \in StateRows(l2),
                      l2[i].key = l2[j].key, i < j
               PROVE  l2[i].version < l2[j].version
    BY DEF VersionsAscend
  <2>1. CASE j \in StateRows(l)
    <3>1. i \in StateRows(l)
      BY <1>2, <1>1, <2>1
    <3>2. QED
      BY <3>1, <2>1, <1>2 DEF Agrees, VersionsAscend
  <2>2. CASE j = n
    <3>1. i \in StateRows(l)
      BY <1>2, <1>1, <2>2
    <3>2. l[i].key = k
      BY <3>1, <2>2, <1>1, <1>2
    <3>3. l[i].version <= t[k].version /\ l[i].version \in Nat /\ t[k].version \in Nat
      BY <3>1, <3>2, <1>4, <1>5
    <3>4. l2[i].version = l[i].version /\ l2[j].version = t[k].version + 1
      BY <3>1, <2>2, <1>1, <1>2
    <3>5. QED
      BY <3>3, <3>4
  <2>3. QED
    BY <2>1, <2>2, <1>2
<1>8. EveryVersionLogged(t2, l2)
  <2> SUFFICES ASSUME NEW k2 \in Keys, NEW m \in 1..t2[k2].version
               PROVE  \E i \in StateRows(l2) : l2[i].key = k2 /\ l2[i].version = m
    BY DEF EveryVersionLogged
  <2>1. CASE k2 = k /\ m = e.version
    BY <2>1, <1>1, <1>2
  <2>2. CASE ~(k2 = k /\ m = e.version)
    <3>1. m \in 1..t[k2].version
      <4>1. CASE k2 = k
        <5>1. /\ m \in Int /\ 1 <= m /\ m <= t[k].version + 1 /\ m # t[k].version + 1
              /\ t[k].version \in Nat
          BY <4>1, <2>2, <1>5
        <5>2. QED
          BY <5>1, <4>1
      <4>2. CASE k2 # k
        <5>1. t2[k2] = t[k2]
          BY <4>2
        <5>2. QED
          BY <5>1
      <4>3. QED
        BY <4>1, <4>2
    <3>2. PICK i \in StateRows(l) : l[i].key = k2 /\ l[i].version = m
      BY <3>1 DEF Agrees, EveryVersionLogged
    <3>3. QED
      BY <3>2, <1>2
  <2>3. QED
    BY <2>1, <2>2
<1>9. ValuesChain(l2)
  <2> SUFFICES ASSUME NEW i \in StateRows(l2), NEW j \in StateRows(l2),
                      l2[i].key = l2[j].key, l2[j].version = l2[i].version + 1
               PROVE  l2[j].old = l2[i].new
    BY DEF ValuesChain
  <2>1. CASE i \in StateRows(l) /\ j \in StateRows(l)
    BY <2>1, <1>2 DEF Agrees, ValuesChain
  <2>2. CASE i \in StateRows(l) /\ j = n
    <3>1. l[i].key = k /\ l[i].version = t[k].version
      <4>1. l[i].key = k /\ t[k].version + 1 = l[i].version + 1
        BY <2>2, <1>1, <1>2
      <4>2. l[i].version \in Nat /\ t[k].version \in Nat
        BY <2>2, <1>3, <1>5
      <4>3. QED
        BY <4>1, <4>2
    <3>2. l[i].new = t[k].value
      BY <3>1, <2>2 DEF Agrees, LastIsCurrent
    <3>3. QED
      BY <3>2, <2>2, <1>1, <1>2
  <2>3. CASE i = n /\ j \in StateRows(l)
    <3>1. l[j].key = k /\ l[j].version = (t[k].version + 1) + 1
      BY <2>3, <1>1, <1>2, <1>5
    <3>2. l[j].version <= t[k].version /\ t[k].version \in Nat
      BY <3>1, <2>3, <1>4, <1>5
    <3>3. QED
      BY <3>1, <3>2
  <2>4. CASE i = n /\ j = n
    BY <2>4, <1>1, <1>5
  <2>5. QED
    BY <2>1, <2>2, <2>3, <2>4, <1>2
<1>10. LastIsCurrent(t2, l2)
  <2>1. ASSUME NEW i \in StateRows(l), l2[i].version = t2[l2[i].key].version
        PROVE  l2[i].new = t2[l2[i].key].value
    <3>1. l[i].key # k
      BY <2>1, <1>2, <1>3, <1>4, <1>5
    <3>2. QED
      BY <3>1, <2>1, <1>2, <1>3 DEF Agrees, LastIsCurrent
  <2>2. l2[n].new = t2[l2[n].key].value
    BY <1>1
  <2>3. QED
    BY <2>1, <2>2, <1>2 DEF LastIsCurrent
<1>11. QED
  BY <1>6, <1>7, <1>8, <1>9, <1>10 DEF Agrees, l2

----------------------------------------------------------------------------
(* The steps of setState as the handlers use it. *)

\* What UpdateRow and InsertRow have in common: k gets its next version.
NextRow(k, v) ==
  /\ kv' \in [Keys -> Row]
  /\ kv'[k].version = kv[k].version + 1
  /\ kv'[k].value = v
  /\ \A k2 \in Keys : k2 # k => kv'[k2] = kv[k2]

LEMMA UpdateRowFacts ==
  ASSUME TypeOK, NEW k \in Keys, NEW v \in Values, UpdateRow(k, v)
  PROVE  NextRow(k, v)
<1>1. kv[k] \in Row
  BY DEF TypeOK
<1>2. kv' = [kv EXCEPT ![k] = [kv[k] EXCEPT !.value = v, !.version = kv[k].version + 1]]
  BY DEF UpdateRow, TypeOK
<1> DEFINE r == [kv[k] EXCEPT !.value = v, !.version = kv[k].version + 1]
<1>3. r \in Row /\ r.value = v /\ r.version = kv[k].version + 1
  <2>1. v \in ValueOrNull /\ kv[k].version + 1 \in Nat
    BY <1>1 DEF Row, ValueOrNull
  <2>2. QED
    BY <1>1, <2>1 DEF Row
<1>4. kv' = [kv EXCEPT ![k] = r] /\ kv \in [Keys -> Row]
  BY <1>2 DEF TypeOK
<1> HIDE DEF r
<1>5. QED
  BY <1>3, <1>4 DEF NextRow

LEMMA InsertRowFacts ==
  ASSUME TypeOK, NEW k \in Keys, NEW v \in Values, ~Exists(k),
         NEW owner \in Writers, NEW required \in BOOLEAN,
         NEW approver \in Agents \cup {NULL},
         InsertRow(k, v, owner, required, approver)
  PROVE  NextRow(k, v)
<1>1. kv[k].version = 0
  BY DEF TypeOK, Exists, Row
<1>2. [value |-> v, version |-> 1, owner |-> owner,
       approval_required |-> required, approver |-> approver] \in Row
  BY DEF Row, ValueOrNull
<1>3. QED
  BY <1>1, <1>2 DEF NextRow, TypeOK, InsertRow

\* A log row built from a typed row of the table is typed.
LEMMA StateEntryType ==
  ASSUME TypeOK, NEW k \in Keys, NEW v \in Values, NEW by \in Writers,
         NEW via \in {"direct", "system", "task", "approval"},
         NEW id \in Nat, NEW expected \in Nat
  PROVE  /\ StateEntry(k, v, by, via, id, expected) \in LogEntry
         /\ StateChanged(k, v) \in Event
<1>1. kv[k] \in Row
  BY DEF TypeOK
<1>2. kv[k].value \in ValueOrNull /\ kv[k].version + 1 \in Nat
  BY <1>1 DEF Row
<1>3. v \in ValueOrNull
  BY DEF ValueOrNull
<1>4. QED
  BY <1>2, <1>3 DEF StateEntry, LogEntry, StateChanged, Event

\* A change recorded together with its row keeps the tables typed and the log
\* in agreement with them.
LEMMA RecordFacts ==
  ASSUME TypeOK, Agrees(kv, log), NEW k \in Keys, NEW v \in Values, NEW by \in Writers,
         NEW via \in {"direct", "system", "task", "approval"}, NEW expected \in Nat,
         NextRow(k, v), Record(k, v, by, via, expected)
  PROVE  /\ log' \in Seq(LogEntry)
         /\ StartsWith(log', log)
         /\ notified' \subseteq Event
         /\ Agrees(kv', log')
<1> DEFINE e == StateEntry(k, v, by, via, 0, expected)
<1>1. e \in LogEntry /\ StateChanged(k, v) \in Event
  BY StateEntryType
<1>2. /\ e.source = "state" /\ e.key = k /\ e.version = kv[k].version + 1
      /\ e.old = kv[k].value /\ e.new = v
  BY DEF StateEntry
<1>3. log' = LogRow(log, e) /\ notified' = notified \cup {StateChanged(k, v)}
  BY DEF Record
<1>4. kv \in [Keys -> Row] /\ log \in Seq(LogEntry) /\ notified \subseteq Event
  BY DEF TypeOK
<1> HIDE DEF e
<1>5. Agrees(kv', LogRow(log, e))
  BY <1>1, <1>2, <1>4, AgreesNextVersion DEF NextRow
<1>6. StartsWith(log', log)
  <2>1. /\ Len(log') = Len(log) + 1 /\ Len(log) \in Nat
        /\ \A i \in 1..Len(log) : log'[i] = log[i]
    BY <1>1, <1>3, <1>4, LogRowFacts
  <2>2. QED
    BY <2>1 DEF StartsWith
<1>7. QED
  BY <1>1, <1>3, <1>4, <1>5, <1>6, LogRowFacts

----------------------------------------------------------------------------
(* The invariant is inductive. *)

LEMMA LogInvInit == Init => LogInv
<1> SUFFICES ASSUME Init
             PROVE  LogInv
  OBVIOUS
<1> USE DEF Init
<1>1. kv \in [Keys -> Row]
  BY DEF NoRow, Row, ValueOrNull, Writers
<1>2. log \in Seq(LogEntry) /\ Len(log) = 0
  BY EmptySeq
<1>3. TypeOK
  BY <1>1, <1>2 DEF TypeOK
<1>4. StateRows(log) = {}
  BY <1>2 DEF StateRows
<1>5. \A k \in DOMAIN kv : 1..kv[k].version = {}
  BY DEF NoRow
<1>6. Agrees(kv, log)
  BY <1>4, <1>5 DEF Agrees, VersionsInRange, VersionsAscend, EveryVersionLogged,
                    ValuesChain, LastIsCurrent
<1>7. QED
  BY <1>3, <1>6 DEF LogInv

\* Any handler that writes one field and its log row, and leaves the
\* approvals, the profiles and the batch alone.
LEMMA WriteStep ==
  ASSUME LogInv, NEW k \in Keys, NEW v \in Values, NEW by \in Writers,
         NEW via \in {"direct", "system", "task", "approval"}, NEW expected \in Nat,
         NextRow(k, v), Record(k, v, by, via, expected),
         UNCHANGED <<approvals, nextId, stale, tx>>
  PROVE  LogInv'
<1>1. TypeOK /\ Agrees(kv, log)
  BY DEF LogInv
<1>2. log' \in Seq(LogEntry) /\ notified' \subseteq Event /\ Agrees(kv', log')
  BY <1>1, RecordFacts
<1>3. TypeOK'
  BY <1>1, <1>2 DEF TypeOK, NextRow
<1>4. tx' # NULL => StartsWith(log', tx'.log)
  <2> SUFFICES ASSUME tx # NULL
               PROVE  StartsWith(log', tx.log)
    OBVIOUS
  <2>1. StartsWith(log, tx.log) /\ StartsWith(log', log)
    BY <1>2, RecordFacts, <1>1 DEF LogInv
  <2>2. /\ log \in Seq(LogEntry) /\ log' \in Seq(LogEntry) /\ tx.log \in Seq(LogEntry)
    BY <1>1, <1>2 DEF TypeOK
  <2>3. Len(log) \in Nat /\ Len(log') \in Nat /\ Len(tx.log) \in Nat
    BY <2>2, LenProperties
  <2>4. QED
    BY <2>1, <2>3 DEF StartsWith
<1>5. QED
  BY <1>2, <1>3, <1>4 DEF LogInv

\* A rollback restores a table and a log that agree.
LEMMA RollBackStep ==
  ASSUME LogInv, tx # NULL, RollBack, stale' = stale,
         nextId' \in Nat \ {0}, nextId' >= nextId, notified' \subseteq Event
  PROVE  LogInv'
<1>1. /\ tx.kv \in [Keys -> Row] /\ tx.log \in Seq(LogEntry)
      /\ tx.approvals = approvals /\ Agrees(tx.kv, tx.log)
  BY DEF LogInv, TypeOK
<1>2. kv' = tx.kv /\ log' = tx.log /\ approvals' = approvals /\ tx' = NULL
  BY <1>1 DEF RollBack
<1>3. DOMAIN approvals \subseteq 1..(nextId' - 1)
  BY DEF LogInv, TypeOK
<1>4. QED
  BY <1>1, <1>2, <1>3 DEF LogInv, TypeOK

\* Resolving a pending approval changes its status and logs the resolution,
\* on a log that still agrees with the table.
LEMMA ResolveStepFacts ==
  ASSUME LogInv, NEW i \in DOMAIN approvals, NEW by \in Agents, tx = NULL,
         NEW status \in {"approved", "rejected"}
  PROVE  /\ ApprovalEntry(i, by) \in LogEntry
         /\ LogRow(log, ApprovalEntry(i, by)) \in Seq(LogEntry)
         /\ Agrees(kv, LogRow(log, ApprovalEntry(i, by)))
         /\ approvals[i] \in Approval
         /\ DOMAIN [approvals EXCEPT ![i].status = status] = DOMAIN approvals
         /\ \A j \in DOMAIN approvals : [approvals EXCEPT ![i].status = status][j] \in Approval
         /\ ApprovalEvent("approval_resolved", approvals[i].key, i) \in Event
<1>1. TypeOK /\ Agrees(kv, log) /\ i \in Nat /\ approvals[i] \in Approval
  BY DEF LogInv, TypeOK
<1>2. approvals[i].key \in Keys
  BY <1>1 DEF Approval
<1>3. ApprovalEntry(i, by) \in LogEntry /\ ApprovalEntry(i, by).source # "state"
  BY <1>1, <1>2 DEF ApprovalEntry, LogEntry, ValueOrNull, Writers
<1>4. /\ LogRow(log, ApprovalEntry(i, by)) \in Seq(LogEntry)
      /\ Agrees(kv, LogRow(log, ApprovalEntry(i, by)))
  BY <1>1, <1>3, AgreesOtherRow, LogRowFacts DEF TypeOK
<1>5. [approvals[i] EXCEPT !.status = status] \in Approval
  BY <1>1 DEF Approval
<1>6. \A j \in DOMAIN approvals : [approvals EXCEPT ![i].status = status][j] \in Approval
  BY <1>1, <1>5 DEF TypeOK
<1>7. ApprovalEvent("approval_resolved", approvals[i].key, i) \in Event
  BY <1>1, <1>2 DEF ApprovalEvent, Event, ValueOrNull
<1>8. QED
  BY <1>1, <1>3, <1>4, <1>6, <1>7

\* A handler of the HTTP API preserves the invariant.
LEMMA ApiStepInv == LogInv /\ ApiStep => LogInv'
<1> SUFFICES ASSUME LogInv, ApiStep
             PROVE  LogInv'
  OBVIOUS
<1>1. TypeOK /\ Agrees(kv, log) /\ 0 \in Nat /\ 0..MaxLog \subseteq Nat
  BY BoundsAssumption DEF LogInv
<1>2. Agents \subseteq Writers /\ System \in Writers
  BY DEF Writers
<1>3. ASSUME NEW a \in Agents, NEW k \in Keys, NEW v \in Values,
             NEW owner \in Owners \cup {a}, NEW required \in BOOLEAN,
             NEW approver \in Approvers \cup {NULL},
             CreateField(a, k, v, owner, required, approver)
      PROVE  LogInv'
  <2>1. owner \in Writers /\ approver \in Agents \cup {NULL} /\ a \in Writers
    BY <1>2, AgentsAssumption
  <2>2. NextRow(k, v)
    BY <1>1, <1>3, <2>1, InsertRowFacts DEF CreateField
  <2>3. QED
    BY <1>1, <1>3, <2>1, <2>2, WriteStep DEF CreateField
<1>4. ASSUME NEW a \in Agents, NEW k \in Keys, NEW v \in Values,
             NEW expected \in 0..MaxLog, WriteField(a, k, v, expected)
      PROVE  LogInv'
  <2>1. NextRow(k, v)
    BY <1>1, <1>4, UpdateRowFacts DEF WriteField
  <2>2. a \in Writers /\ expected \in Nat
    BY <1>1, <1>2
  <2>3. QED
    BY <1>4, <2>1, <2>2, WriteStep DEF WriteField
<1>5. ASSUME NEW a \in Agents, NEW k \in Keys, NEW v \in Values,
             NEW expected \in 0..MaxLog, ProposeChange(a, k, v, expected)
      PROVE  LogInv'
  <2>1. /\ kv' = kv /\ log' = log /\ stale' = stale /\ tx' = tx /\ tx = NULL
        /\ nextId' = nextId + 1
        /\ notified' = notified \cup {ApprovalEvent("approval_requested", k, nextId)}
        /\ AddApproval(Proposal(a, k, v, expected))
    BY <1>5 DEF ProposeChange
  <2>2. ApproverOf(k) \in Writers
    BY <1>1, <1>2, AgentsAssumption DEF ApproverOf, TypeOK, Row
  <2>3. Proposal(a, k, v, expected) \in Approval
    BY <2>2, <1>1 DEF Proposal, Approval
  <2>4. DOMAIN approvals' = DOMAIN approvals \cup {nextId}
    BY <2>1 DEF AddApproval
  <2>5. \A i \in DOMAIN approvals' : approvals'[i] \in Approval
    BY <1>1, <2>1, <2>3, <2>4 DEF AddApproval, TypeOK
  <2>6. /\ DOMAIN approvals' \subseteq 1..(nextId' - 1)
        /\ nextId' \in Nat \ {0}
    BY <1>1, <2>1, <2>4 DEF TypeOK
  <2>7. ApprovalEvent("approval_requested", k, nextId) \in Event
    BY <1>1 DEF ApprovalEvent, Event, ValueOrNull, TypeOK
  <2>8. TypeOK'
    BY <1>1, <2>1, <2>5, <2>6, <2>7 DEF TypeOK
  <2>9. QED
    BY <1>1, <2>1, <2>8 DEF LogInv
<1>6. ASSUME NEW a \in Agents, NEW k \in Keys, NEW v \in Values, TaskLinkWrite(a, k, v)
      PROVE  LogInv'
  <2>1. NextRow(k, v)
    BY <1>1, <1>2, <1>6, UpdateRowFacts, InsertRowFacts DEF TaskLinkWrite
  <2>2. QED
    BY <1>1, <1>2, <1>6, <2>1, WriteStep DEF TaskLinkWrite
<1>7. ASSUME NEW k \in Keys, NEW v \in Values, SystemWrite(k, v)
      PROVE  LogInv'
  <2>1. NextRow(k, v)
    BY <1>1, <1>2, <1>7, UpdateRowFacts, InsertRowFacts DEF SystemWrite
  <2>2. QED
    BY <1>1, <1>2, <1>7, <2>1, WriteStep DEF SystemWrite
<1>8. ASSUME NEW i \in DOMAIN approvals, NEW by \in Agents, RejectApproval(i, by)
      PROVE  LogInv'
  <2> DEFINE a2 == [approvals EXCEPT ![i].status = "rejected"]
             ev == ApprovalEvent("approval_resolved", approvals[i].key, i)
             l1 == LogRow(log, ApprovalEntry(i, by))
  <2>1. /\ approvals' = a2 /\ log' = l1 /\ notified' = notified \cup {ev}
        /\ kv' = kv /\ nextId' = nextId /\ stale' = stale /\ tx' = tx /\ tx = NULL
       
    BY <1>8 DEF RejectApproval
  <2>2. /\ l1 \in Seq(LogEntry) /\ Agrees(kv, l1) /\ ev \in Event
        /\ DOMAIN a2 = DOMAIN approvals
        /\ \A j \in DOMAIN approvals : a2[j] \in Approval
    BY <2>1, ResolveStepFacts
  <2> HIDE DEF a2, ev, l1
  <2>3. TypeOK'
    BY <1>1, <2>1, <2>2 DEF TypeOK
  <2>4. QED
    BY <2>1, <2>2, <2>3 DEF LogInv
<1>9. ASSUME NEW i \in DOMAIN approvals, NEW by \in Agents, ApproveApproval(i, by)
      PROVE  LogInv'
  <2> DEFINE a2 == [approvals EXCEPT ![i].status = "approved"]
             p == approvals[i]
             ev == ApprovalEvent("approval_resolved", p.key, i)
             l1 == LogRow(log, ApprovalEntry(i, by))
             e == StateEntry(p.key, p.value, p.by, "approval", i, p.expected)
  <2>1. /\ approvals' = a2 /\ UpdateRow(p.key, p.value) /\ log' = LogRow(l1, e)
        /\ notified' = notified \cup {StateChanged(p.key, p.value), ev}
        /\ nextId' = nextId /\ stale' = stale /\ tx' = tx /\ tx = NULL
       
    BY <1>9 DEF ApproveApproval
  <2>2. /\ l1 \in Seq(LogEntry) /\ Agrees(kv, l1) /\ ev \in Event
        /\ DOMAIN a2 = DOMAIN approvals /\ p \in Approval
        /\ \A j \in DOMAIN approvals : a2[j] \in Approval
    BY <2>1, ResolveStepFacts
  <2>3. /\ p.key \in Keys /\ p.value \in Values /\ p.by \in Writers
        /\ p.expected \in Nat /\ i \in Nat
    BY <1>1, <1>2, <2>2 DEF Approval, TypeOK
  <2>4. e \in LogEntry /\ StateChanged(p.key, p.value) \in Event
    BY <1>1, <2>3, StateEntryType
  <2>5. /\ e.source = "state" /\ e.key = p.key /\ e.version = kv[p.key].version + 1
        /\ e.old = kv[p.key].value /\ e.new = p.value
    BY DEF StateEntry
  <2>6. NextRow(p.key, p.value)
    BY <1>1, <2>1, <2>3, UpdateRowFacts
  <2>7. kv \in [Keys -> Row]
    BY <1>1 DEF TypeOK
  <2> HIDE DEF a2, ev, l1, e, p
  <2>8. Agrees(kv', log') /\ log' \in Seq(LogEntry)
    <3>1. /\ kv' \in [Keys -> Row] /\ kv'[p.key].version = e.version
          /\ kv'[p.key].value = e.new
          /\ \A k2 \in Keys : k2 # p.key => kv'[k2] = kv[k2]
      BY <2>5, <2>6 DEF NextRow
    <3>2. Agrees(kv', LogRow(l1, e))
      BY <3>1, <2>2, <2>3, <2>4, <2>5, <2>7, AgreesNextVersion
    <3>3. QED
      BY <3>2, <2>1, <2>2, <2>4, LogRowFacts
  <2>9. TypeOK'
    BY <1>1, <2>1, <2>2, <2>4, <2>6, <2>8 DEF TypeOK, NextRow
  <2>10. QED
    BY <2>1, <2>8, <2>9 DEF LogInv
<1>10. QED
  BY <1>3, <1>4, <1>5, <1>6, <1>7, <1>8, <1>9 DEF ApiStep

\* A step of a conclusion batch preserves the invariant.
LEMMA ConcludeStepInv == LogInv /\ ConcludeStep => LogInv'
<1> SUFFICES ASSUME LogInv, ConcludeStep
             PROVE  LogInv'
  OBVIOUS
<1>1. TypeOK /\ Agrees(kv, log) /\ 0 \in Nat
  BY DEF LogInv
<1>2. ASSUME NEW a \in Agents, NEW p \in Projects, ConcludeBegin(a, p)
      PROVE  LogInv'
  <2>1. /\ tx' = [by |-> a, project |-> p, kv |-> kv, log |-> log, approvals |-> approvals]
        /\ UNCHANGED <<kv, log, approvals, nextId, stale, notified>>
    BY <1>2 DEF ConcludeBegin
  <2>2. TypeOK'
    BY <1>1, <2>1 DEF TypeOK
  <2>3. StartsWith(log, log)
    BY <1>1, LenProperties DEF StartsWith, TypeOK
  <2>4. QED
    BY <1>1, <2>1, <2>2, <2>3 DEF LogInv
<1>3. ASSUME NEW k \in Keys, NEW v \in Values, ConcludeItem(k, v)
      PROVE  LogInv'
  <2>1. tx.by \in Agents /\ tx.by \in Writers /\ NULL \in Agents \cup {NULL}
    BY <1>1, <1>3 DEF ConcludeItem, TypeOK, Writers
  <2>2. NextRow(k, v)
    BY <1>1, <1>3, <2>1, UpdateRowFacts, InsertRowFacts DEF ConcludeItem
  <2>3. QED
    BY <1>1, <1>3, <2>1, <2>2, WriteStep DEF ConcludeItem
<1>4. ASSUME NEW k \in Keys, ConcludeRefused(k)
      PROVE  LogInv'
  <2>1. /\ tx # NULL /\ RollBack /\ stale' = stale
        /\ nextId' \in Nat \ {0} /\ nextId' >= nextId /\ notified' \subseteq Event
    BY <1>1, <1>4 DEF ConcludeRefused, TypeOK
  <2>2. QED
    BY <2>1, RollBackStep
<1>5. ASSUME NEW k \in Keys, ConcludeNeedsApproval(k)
      PROVE  LogInv'
  <2>1. ApprovalEvent("approval_requested", k, nextId) \in Event
    BY <1>1 DEF ApprovalEvent, Event, ValueOrNull, TypeOK
  <2>2. /\ tx # NULL /\ RollBack /\ stale' = stale
        /\ nextId' \in Nat \ {0} /\ nextId' >= nextId /\ notified' \subseteq Event
    BY <1>1, <1>5, <2>1 DEF ConcludeNeedsApproval, TypeOK
  <2>3. QED
    BY <2>2, RollBackStep
<1>6. ASSUME ConcludeCommit
      PROVE  LogInv'
  <2>1. Concluded(tx.project) \in Event
    BY <1>1, <1>6 DEF ConcludeCommit, TypeOK, Concluded, Event
  <2>2. tx' = NULL /\ notified' \subseteq Event /\ UNCHANGED <<kv, log, approvals, nextId, stale>>
    BY <1>1, <1>6, <2>1 DEF ConcludeCommit, TypeOK
  <2>3. QED
    BY <1>1, <2>2 DEF LogInv, TypeOK
<1>7. QED
  BY <1>2, <1>3, <1>4, <1>5, <1>6 DEF ConcludeStep

\* The invariant is preserved by every step.
LEMMA LogInvNext == LogInv /\ [Next]_vars => LogInv'
<1>1. ASSUME LogInv, ProfileStep
      PROVE  LogInv'
  <2>1. /\ UNCHANGED <<kv, log, approvals, nextId, tx, notified>>
        /\ stale' \subseteq Agents
    BY <1>1 DEF ProfileStep, KnowledgeChecked, KnowledgeExpires, LogInv, TypeOK
  <2>2. QED
    BY <1>1, <2>1 DEF LogInv, TypeOK
<1>2. ASSUME LogInv, UNCHANGED vars
      PROVE  LogInv'
  BY <1>2 DEF vars, LogInv, TypeOK
<1>3. QED
  BY <1>1, <1>2, ApiStepInv, ConcludeStepInv DEF Next

LEMMA Invariance == Spec => []LogInv
<1>1. QED
  BY LogInvInit, LogInvNext, PTL DEF Spec

\* What a step does to the running batch: nothing, begin one with a snapshot of
\* the log, or end one by keeping the log or restoring the snapshot.
LEMMA BatchSteps ==
  ASSUME [Next]_vars
  PROVE  \/ tx' = tx
         \/ tx = NULL /\ tx'.log = log
         \/ tx' = NULL /\ (log' = log \/ log' = tx.log)
<1>1. CASE ApiStep
  <2>1. ASSUME NEW a \in Agents, NEW k \in Keys, NEW v \in Values,
               NEW owner \in Owners \cup {a}, NEW required \in BOOLEAN,
               NEW approver \in Approvers \cup {NULL},
               CreateField(a, k, v, owner, required, approver)
        PROVE  tx' = tx
    BY <2>1 DEF CreateField
  <2>2. ASSUME NEW a \in Agents, NEW k \in Keys, NEW v \in Values,
               NEW expected \in 0..MaxLog,
               WriteField(a, k, v, expected) \/ ProposeChange(a, k, v, expected)
        PROVE  tx' = tx
    BY <2>2 DEF WriteField, ProposeChange
  <2>3. ASSUME NEW a \in Agents, NEW k \in Keys, NEW v \in Values,
               TaskLinkWrite(a, k, v)
        PROVE  tx' = tx
    BY <2>3 DEF TaskLinkWrite
  <2>4. ASSUME NEW k \in Keys, NEW v \in Values, SystemWrite(k, v)
        PROVE  tx' = tx
    BY <2>4 DEF SystemWrite
  <2>5. ASSUME NEW i \in DOMAIN approvals, NEW by \in Agents,
               RejectApproval(i, by) \/ ApproveApproval(i, by)
        PROVE  tx' = tx
    BY <2>5 DEF RejectApproval, ApproveApproval
  <2>6. QED
    BY <1>1, <2>1, <2>2, <2>3, <2>4, <2>5 DEF ApiStep
<1>2. CASE ConcludeStep
  <2>1. ASSUME NEW a \in Agents, NEW p \in Projects, ConcludeBegin(a, p)
        PROVE  tx = NULL /\ tx'.log = log
    BY <2>1 DEF ConcludeBegin
  <2>2. ASSUME NEW k \in Keys, NEW v \in Values, ConcludeItem(k, v)
        PROVE  tx' = tx
    BY <2>2 DEF ConcludeItem
  <2>3. ASSUME NEW k \in Keys, ConcludeRefused(k) \/ ConcludeNeedsApproval(k)
        PROVE  tx' = NULL /\ log' = tx.log
    BY <2>3 DEF ConcludeRefused, ConcludeNeedsApproval, RollBack
  <2>4. ASSUME ConcludeCommit
        PROVE  tx' = NULL /\ log' = log
    BY <2>4 DEF ConcludeCommit
  <2>5. QED
    BY <1>2, <2>1, <2>2, <2>3, <2>4 DEF ConcludeStep
<1>3. CASE ProfileStep \/ UNCHANGED vars
  BY <1>3 DEF ProfileStep, KnowledgeChecked, KnowledgeExpires, vars
<1>4. QED
  BY <1>1, <1>2, <1>3 DEF Next

\* Outside a batch the log only grows, by one row or by two.
LEMMA LogGrowsOutsideBatch ==
  ASSUME TypeOK, tx = NULL, tx' = NULL, [Next]_vars
  PROVE  StartsWith(log', log)
<1>1. log \in Seq(LogEntry) /\ Len(log) \in Nat
  BY LenProperties DEF TypeOK
<1>2. ASSUME NEW e \in LogEntry
      PROVE  /\ LogRow(log, e) \in Seq(LogEntry)
             /\ StartsWith(LogRow(log, e), log)
  <2>1. /\ LogRow(log, e) \in Seq(LogEntry) /\ Len(LogRow(log, e)) = Len(log) + 1
        /\ \A i \in 1..Len(log) : LogRow(log, e)[i] = log[i]
    BY <1>1, LogRowFacts
  <2>2. QED
    BY <1>1, <2>1 DEF StartsWith
<1>3. CASE log' = log
  BY <1>1, <1>3 DEF StartsWith
<1>4. CASE \E k \in Keys, v \in Values, by \in Writers, expected \in Nat,
              via \in {"direct", "system", "task", "approval"} :
             Record(k, v, by, via, expected)
  <2>1. PICK e \in LogEntry : log' = LogRow(log, e)
    BY <1>4, StateEntryType DEF Record
  <2>2. QED
    BY <2>1, <1>2
<1>5. ASSUME NEW i \in DOMAIN approvals, NEW by \in Agents,
             RejectApproval(i, by) \/ ApproveApproval(i, by)
      PROVE  StartsWith(log', log)
  <2>1. ApprovalEntry(i, by) \in LogEntry
    BY DEF ApprovalEntry, LogEntry, ValueOrNull, Writers, TypeOK, Approval
  <2>2. CASE RejectApproval(i, by)
    BY <1>2, <2>1, <2>2 DEF RejectApproval
  <2>3. CASE ApproveApproval(i, by)
    <3>1. PICK e \in LogEntry : log' = LogRow(LogRow(log, ApprovalEntry(i, by)), e)
      <4>1. /\ approvals[i] \in Approval /\ i \in Nat
        BY DEF TypeOK
      <4>2. StateEntry(approvals[i].key, approvals[i].value, approvals[i].by, "approval",
                       i, approvals[i].expected) \in LogEntry
        BY <4>1, StateEntryType DEF Approval, Writers
      <4>3. QED
        BY <4>2, <2>3 DEF ApproveApproval
    <3> DEFINE l1 == LogRow(log, ApprovalEntry(i, by))
    <3>2. l1 \in Seq(LogEntry) /\ StartsWith(l1, log) /\ Len(l1) \in Nat
      BY <1>2, <2>1, LenProperties
    <3>3. /\ Len(log') = Len(l1) + 1
          /\ \A j \in 1..Len(l1) : log'[j] = l1[j]
      BY <3>1, <3>2, LogRowFacts
    <3> HIDE DEF l1
    <3>4. QED
      BY <1>1, <3>2, <3>3 DEF StartsWith
  <2>4. QED
    BY <1>5, <2>2, <2>3
<1>6. QED
  <2>1. Agents \subseteq Writers /\ System \in Writers /\ 0 \in Nat /\ 0..MaxLog \subseteq Nat
    BY BoundsAssumption DEF Writers
  <2>2. CASE ApiStep
    <3>1. ASSUME NEW a \in Agents, NEW k \in Keys, NEW v \in Values,
                 NEW owner \in Owners \cup {a}, NEW required \in BOOLEAN,
                 NEW approver \in Approvers \cup {NULL},
                 CreateField(a, k, v, owner, required, approver)
          PROVE  StartsWith(log', log)
      BY <2>1, <3>1, <1>4 DEF CreateField
    <3>2. ASSUME NEW a \in Agents, NEW k \in Keys, NEW v \in Values,
                 NEW expected \in 0..MaxLog, WriteField(a, k, v, expected)
          PROVE  StartsWith(log', log)
      BY <2>1, <3>2, <1>4 DEF WriteField
    <3>3. ASSUME NEW a \in Agents, NEW k \in Keys, NEW v \in Values,
                 NEW expected \in 0..MaxLog, ProposeChange(a, k, v, expected)
          PROVE  StartsWith(log', log)
      BY <3>3, <1>3 DEF ProposeChange
    <3>4. ASSUME NEW a \in Agents, NEW k \in Keys, NEW v \in Values, TaskLinkWrite(a, k, v)
          PROVE  StartsWith(log', log)
      BY <2>1, <3>4, <1>4 DEF TaskLinkWrite
    <3>5. ASSUME NEW k \in Keys, NEW v \in Values, SystemWrite(k, v)
          PROVE  StartsWith(log', log)
      BY <2>1, <3>5, <1>4 DEF SystemWrite
    <3>6. QED
      BY <2>2, <3>1, <3>2, <3>3, <3>4, <3>5, <1>5 DEF ApiStep
  <2>3. CASE ConcludeStep \/ ProfileStep \/ UNCHANGED vars
    BY <2>3, <1>3 DEF ConcludeStep, ProfileStep, vars, ConcludeBegin, ConcludeItem,
       ConcludeRefused, ConcludeNeedsApproval, ConcludeCommit, KnowledgeChecked,
       KnowledgeExpires
  <2>4. QED
    BY <2>2, <2>3 DEF Next

----------------------------------------------------------------------------
(* The theorems *)

\* Every table of the shared state holds rows of its type, whatever the
\* handlers, batches and rollbacks that ran.
THEOREM TypeCorrect == Spec => []TypeOK
<1>1. LogInv => TypeOK
  BY DEF LogInv
<1>2. QED
  BY <1>1, Invariance, PTL

\* The change log replays to the state on every write path.
THEOREM LogReplays == Spec => []LogReplaysToState
<1>1. LogInv => LogReplaysToState
  BY DEF LogInv, LogReplaysToState
<1>2. QED
  BY <1>1, Invariance, PTL

\* The audit trail is append-only: what is committed of change_log is never
\* changed or removed, not by a rollback either.
THEOREM AuditTrailAppendOnly == Spec => AuditTrailGrows
<1>1. ASSUME LogInv, LogInv', [Next]_vars
      PROVE  [StartsWith(CommittedLog', CommittedLog)]_vars
  <2>1. /\ log \in Seq(LogEntry) /\ log' \in Seq(LogEntry) /\ TypeOK
        /\ tx # NULL => tx.log \in Seq(LogEntry) /\ StartsWith(log, tx.log)
    BY <1>1 DEF LogInv, TypeOK
  <2>2. StartsWith(log, log) /\ (tx # NULL => StartsWith(tx.log, tx.log))
    BY <2>1, LenProperties DEF StartsWith
  <2>3. CASE tx = NULL /\ tx' = NULL
    <3>1. StartsWith(log', log)
      BY <1>1, <2>1, <2>3, LogGrowsOutsideBatch
    <3>2. QED
      BY <2>3, <3>1 DEF CommittedLog
  <2>4. CASE tx = NULL /\ tx' # NULL
    <3>1. tx'.log = log
      BY <1>1, <2>4, BatchSteps DEF LogInv
    <3>2. QED
      BY <2>2, <2>4, <3>1 DEF CommittedLog
  <2>5. CASE tx # NULL
    <3>1. \/ tx' = tx
          \/ tx' = NULL /\ (log' = log \/ log' = tx.log)
      BY <1>1, <2>5, BatchSteps DEF LogInv
    <3>2. QED
      BY <2>1, <2>2, <2>5, <3>1 DEF CommittedLog
  <2>6. QED
    BY <2>3, <2>4, <2>5
<1>2. QED
  BY <1>1, Invariance, PTL DEF Spec, AuditTrailGrows

----------------------------------------------------------------------------
(***************************************************************************)
(* Who writes the shared state, and in whose name: direct writes are       *)
(* owned, expected versions hold, approvals are applied once, and changes  *)
(* are announced.                                                          *)
(*                                                                         *)
(* Each of the four speaks of the rows of the log.  The invariant says     *)
(* them of the live log and, while a conclusion batch runs, of the log     *)
(* that a rollback would restore.                                          *)
(***************************************************************************)

(* What is said of one row e, with the tables t and a and the events n. *)

Announced(e, n) ==
  \E x \in n : /\ x.type = "state_changed" /\ x.key = e.key
               /\ x.version = e.version /\ x.value = e.new

Expected(e) == (e.via = "direct" /\ e.expected # 0) => e.version = e.expected + 1

Owned(e, t) ==
  (e.via = "direct" /\ e.version > 1) => e.by = t[e.key].owner /\ ~t[e.key].approval_required

Granted(e, a) == e.appr # 0 => e.appr \in DOMAIN a /\ a[e.appr].status = "approved"

RowOK(e, t, a, n) == Announced(e, n) /\ Expected(e) /\ Owned(e, t) /\ Granted(e, a)

RowsOK(t, l, a, n) == \A i \in StateRows(l) : RowOK(l[i], t, a, n)

\* A row of the log applies approval i.
Applies(e, a, i) == e.appr = i /\ e.key = a[i].key /\ e.new = a[i].value /\ e.by = a[i].by

AllApplied(l, a) ==
  \A i \in DOMAIN a : a[i].status = "approved" => \E j \in StateRows(l) : Applies(l[j], a, i)

AppliedOnce(l) == \A i, j \in StateRows(l) : l[i].appr # 0 /\ l[i].appr = l[j].appr => i = j

RightRows(t, l, a, n) == RowsOK(t, l, a, n) /\ AllApplied(l, a) /\ AppliedOnce(l)

WritesInv ==
  /\ LogInv
  /\ RightRows(kv, log, approvals, notified)
  /\ tx # NULL => RightRows(tx.kv, tx.log, approvals, notified)

----------------------------------------------------------------------------
(* Steps that keep the rows right *)

\* Owner and approval rule of a field never change once it has a row.
KeepsOwners(t, t2) ==
  \A k \in Keys : t[k].version > 0 =>
    t2[k].owner = t[k].owner /\ t2[k].approval_required = t[k].approval_required

\* What was approved stays as it is.
KeepsGrants(a, a2) ==
  \A i \in DOMAIN a : a[i].status = "approved" => i \in DOMAIN a2 /\ a2[i] = a[i]

\* Nothing is approved besides.
NoNewGrants(a, a2) ==
  \A i \in DOMAIN a2 : a2[i].status = "approved" => i \in DOMAIN a /\ a[i] = a2[i]

LEMMA RowKept ==
  ASSUME NEW e, NEW t, NEW t2, NEW a, NEW a2, NEW n, NEW n2,
         RowOK(e, t, a, n), e.key \in Keys, t[e.key].version > 0,
         KeepsOwners(t, t2), KeepsGrants(a, a2), n \subseteq n2
  PROVE  RowOK(e, t2, a2, n2)
<1>1. Announced(e, n2)
  BY DEF RowOK, Announced
<1>2. Owned(e, t2)
  BY DEF RowOK, Owned, KeepsOwners
<1>3. Granted(e, a2)
  BY DEF RowOK, Granted, KeepsGrants
<1>4. QED
  BY <1>1, <1>2, <1>3 DEF RowOK

\* A field with a row in the log has a row in the table.
LEMMA LoggedExists ==
  ASSUME NEW t \in [Keys -> Row], NEW l \in Seq(LogEntry), Agrees(t, l), NEW i \in StateRows(l)
  PROVE  l[i] \in LogEntry /\ l[i].key \in Keys /\ t[l[i].key].version > 0
<1>1. l[i] \in LogEntry
  BY LenProperties DEF StateRows
<1>2. l[i].key \in Keys
  BY <1>1 DEF LogEntry
<1>3. l[i].version \in 1..t[l[i].key].version /\ t[l[i].key].version \in Nat
  BY <1>2 DEF Agrees, VersionsInRange, Row
<1>4. QED
  BY <1>1, <1>2, <1>3

\* The log stays, the tables around it move on.
LEMMA RowsKept ==
  ASSUME NEW t \in [Keys -> Row], NEW l \in Seq(LogEntry), Agrees(t, l),
         NEW a, NEW a2, NEW n, NEW n2, NEW t2,
         RightRows(t, l, a, n), KeepsOwners(t, t2),
         KeepsGrants(a, a2), NoNewGrants(a, a2), n \subseteq n2
  PROVE  RightRows(t2, l, a2, n2)
<1>1. RowsOK(t2, l, a2, n2)
  BY LoggedExists, RowKept DEF RightRows, RowsOK
<1>2. AllApplied(l, a2)
  BY DEF RightRows, AllApplied, NoNewGrants, Applies
<1>3. QED
  BY <1>1, <1>2 DEF RightRows

\* How the state rows of a log grow by one row.
LEMMA AppendedRows ==
  ASSUME NEW l \in Seq(LogEntry), NEW e \in LogEntry
  PROVE  /\ \A i \in StateRows(l) : i \in StateRows(LogRow(l, e)) /\ LogRow(l, e)[i] = l[i]
         /\ \A i \in StateRows(LogRow(l, e)) :
              \/ i \in StateRows(l) /\ LogRow(l, e)[i] = l[i]
              \/ i = Len(l) + 1 /\ LogRow(l, e)[i] = e /\ e.source = "state"
         /\ e.source = "state" => Len(l) + 1 \in StateRows(LogRow(l, e))
         /\ Len(l) + 1 \notin StateRows(l)
         /\ LogRow(l, e)[Len(l) + 1] = e
<1>1. /\ Len(LogRow(l, e)) = Len(l) + 1 /\ Len(l) \in Nat
      /\ \A i \in 1..Len(l) : LogRow(l, e)[i] = l[i]
      /\ LogRow(l, e)[Len(l) + 1] = e
  BY LogRowFacts
<1>2. QED
  BY <1>1 DEF StateRows

\* One more state row, of no approval.
LEMMA RowAppended ==
  ASSUME NEW t \in [Keys -> Row], NEW l \in Seq(LogEntry), Agrees(t, l),
         NEW a, NEW n, NEW n2, NEW t2, NEW e \in LogEntry,
         RightRows(t, l, a, n), KeepsOwners(t, t2), n \subseteq n2,
         e.source = "state" => e.appr = 0 /\ RowOK(e, t2, a, n2)
  PROVE  RightRows(t2, LogRow(l, e), a, n2)
<1> DEFINE l2 == LogRow(l, e)
<1>1. /\ \A i \in StateRows(l) : i \in StateRows(l2) /\ l2[i] = l[i]
      /\ \A i \in StateRows(l2) : \/ i \in StateRows(l) /\ l2[i] = l[i]
                                  \/ i = Len(l) + 1 /\ l2[i] = e /\ e.source = "state"
  BY AppendedRows
<1> HIDE DEF l2
<1>2. RightRows(t2, l, a, n2)
  BY RowsKept DEF KeepsGrants, NoNewGrants
<1>3. RowsOK(t2, l2, a, n2)
  BY <1>1, <1>2 DEF RightRows, RowsOK
<1>4. AllApplied(l2, a)
  BY <1>1, <1>2 DEF RightRows, AllApplied
<1>5. AppliedOnce(l2)
  BY <1>1, <1>2 DEF RightRows, AppliedOnce
<1>6. QED
  BY <1>3, <1>4, <1>5 DEF RightRows, l2

----------------------------------------------------------------------------
(* The handlers *)

LEMMA WritesInit == Init => WritesInv
<1> SUFFICES ASSUME Init PROVE WritesInv
  OBVIOUS
<1>1. StateRows(log) = {} /\ DOMAIN approvals = {} /\ tx = NULL
  BY DEF Init, StateRows
<1>2. RightRows(kv, log, approvals, notified)
  BY <1>1 DEF RightRows, RowsOK, AllApplied, AppliedOnce
<1>3. QED
  BY <1>1, <1>2, LogInvInit DEF WritesInv

LEMMA OwnersKept ==
  ASSUME TypeOK, NEW k \in Keys, NEW v \in Values,
         \/ UpdateRow(k, v)
         \/ ~Exists(k) /\ \E owner, required, approver : InsertRow(k, v, owner, required, approver)
  PROVE  KeepsOwners(kv, kv')
<1>1. kv \in [Keys -> Row] /\ \A x \in Keys : kv[x].version \in Nat
  BY DEF TypeOK, Row
<1>2. CASE UpdateRow(k, v)
  BY <1>1, <1>2 DEF UpdateRow, KeepsOwners, Row
<1>3. CASE ~Exists(k) /\ \E owner, required, approver : InsertRow(k, v, owner, required, approver)
  BY <1>1, <1>3 DEF InsertRow, KeepsOwners, Exists
<1>4. QED
  BY <1>2, <1>3

\* The rows after any write of setState: the row itself is what is to be shown.
LEMMA WriteKeeps ==
  ASSUME WritesInv, LogInv', NEW k \in Keys, NEW v \in Values, NEW by \in Writers,
         NEW via \in {"direct", "system", "task", "approval"}, NEW expected \in Nat,
         Record(k, v, by, via, expected), UNCHANGED <<approvals, tx>>, KeepsOwners(kv, kv'),
         via = "direct" => /\ expected # 0 => expected = kv[k].version
                           /\ Exists(k) => by = kv[k].owner /\ ~kv[k].approval_required
  PROVE  WritesInv'
<1> DEFINE e == StateEntry(k, v, by, via, 0, expected)
<1>1. TypeOK /\ kv \in [Keys -> Row] /\ log \in Seq(LogEntry) /\ Agrees(kv, log)
  BY DEF WritesInv, LogInv, TypeOK
<1>2. /\ e \in LogEntry /\ e.key = k /\ e.version = kv[k].version + 1 /\ e.new = v
      /\ e.by = by /\ e.via = via /\ e.appr = 0 /\ e.expected = expected
  BY <1>1, StateEntryType DEF StateEntry
<1>3. log' = LogRow(log, e) /\ notified' = notified \union {StateChanged(k, v)}
  BY DEF Record
<1>4. kv[k].version \in Nat
  BY <1>1 DEF Row
<1> HIDE DEF e
<1>5. Announced(e, notified')
  <2>1. StateChanged(k, v) \in notified'
    BY <1>3
  <2>2. /\ StateChanged(k, v).type = "state_changed" /\ StateChanged(k, v).key = e.key
        /\ StateChanged(k, v).version = e.version /\ StateChanged(k, v).value = e.new
    BY <1>2 DEF StateChanged
  <2>3. QED
    BY <2>1, <2>2 DEF Announced
<1>6. Expected(e)
  BY <1>2, <1>4 DEF Expected
<1>7. Owned(e, kv')
  BY <1>2, <1>4 DEF Owned, Exists, KeepsOwners
<1>8. Granted(e, approvals)
  BY <1>2 DEF Granted
<1>9. RightRows(kv', LogRow(log, e), approvals, notified')
  BY <1>1, <1>2, <1>3, <1>5, <1>6, <1>7, <1>8, RowAppended DEF WritesInv, RowOK
<1>10. ASSUME tx # NULL PROVE RightRows(tx.kv, tx.log, approvals, notified')
  <2>1. tx.kv \in [Keys -> Row] /\ tx.log \in Seq(LogEntry) /\ Agrees(tx.kv, tx.log)
    BY <1>10 DEF WritesInv, LogInv, TypeOK
  <2>2. RightRows(tx.kv, tx.log, approvals, notified)
    BY <1>10 DEF WritesInv
  <2>3. QED
    BY <2>1, <2>2, <1>3, RowsKept DEF KeepsOwners, KeepsGrants, NoNewGrants
<1>11. QED
  BY <1>3, <1>9, <1>10 DEF WritesInv

\* A step that leaves the log and the fields alone; a batch may begin or end with them.
LEMMA QuietKeeps ==
  ASSUME WritesInv, LogInv', UNCHANGED <<kv, log>>, notified \subseteq notified',
         KeepsGrants(approvals, approvals'), NoNewGrants(approvals, approvals'),
         \/ tx' = tx /\ (tx # NULL => approvals' = approvals)
         \/ tx' = NULL
         \/ tx'.kv = kv /\ tx'.log = log
  PROVE  WritesInv'
<1>1. kv \in [Keys -> Row] /\ log \in Seq(LogEntry) /\ Agrees(kv, log)
  BY DEF WritesInv, LogInv, TypeOK
<1>2. RightRows(kv, log, approvals', notified')
  BY <1>1, RowsKept DEF WritesInv, KeepsOwners
<1>3. ASSUME tx # NULL, approvals' = approvals PROVE RightRows(tx.kv, tx.log, approvals', notified')
  <2>1. tx.kv \in [Keys -> Row] /\ tx.log \in Seq(LogEntry) /\ Agrees(tx.kv, tx.log)
    BY <1>3 DEF WritesInv, LogInv, TypeOK
  <2>2. RightRows(tx.kv, tx.log, approvals, notified)
    BY <1>3 DEF WritesInv
  <2>3. QED
    BY <2>1, <2>2, RowsKept DEF KeepsOwners
<1>4. QED
  BY <1>2, <1>3 DEF WritesInv

\* A rollback restores rows that were right, and takes no event back.
LEMMA RollBackKeeps ==
  ASSUME WritesInv, LogInv', tx # NULL, RollBack, notified \subseteq notified'
  PROVE  WritesInv'
<1>1. /\ tx.kv \in [Keys -> Row] /\ tx.log \in Seq(LogEntry) /\ Agrees(tx.kv, tx.log)
      /\ tx.approvals = approvals /\ RightRows(tx.kv, tx.log, approvals, notified)
  BY DEF WritesInv, LogInv, TypeOK
<1>2. RightRows(tx.kv, tx.log, approvals, notified')
  BY <1>1, RowsKept DEF KeepsOwners, KeepsGrants, NoNewGrants
<1>3. kv' = tx.kv /\ log' = tx.log /\ approvals' = approvals /\ tx' = NULL
  BY <1>1 DEF RollBack
<1>4. QED
  BY <1>2, <1>3 DEF WritesInv

LEMMA RejectKeeps ==
  ASSUME WritesInv, LogInv', NEW i \in DOMAIN approvals, NEW by \in Agents, RejectApproval(i, by)
  PROVE  WritesInv'
<1> DEFINE e == ApprovalEntry(i, by)
<1>1. /\ kv \in [Keys -> Row] /\ log \in Seq(LogEntry) /\ Agrees(kv, log) /\ tx = NULL
  BY DEF RejectApproval, WritesInv, LogInv, TypeOK
<1>2. e \in LogEntry /\ e.source # "state"
  BY <1>1, ResolveStepFacts DEF WritesInv, ApprovalEntry
<1>3. KeepsGrants(approvals, approvals') /\ NoNewGrants(approvals, approvals')
  BY DEF RejectApproval, MayResolve, KeepsGrants, NoNewGrants
<1>4. log' = LogRow(log, e) /\ notified \subseteq notified' /\ kv' = kv /\ tx' = NULL
  BY <1>1 DEF RejectApproval
<1> HIDE DEF e
<1>5. RightRows(kv, log, approvals', notified')
  BY <1>1, <1>3, <1>4, RowsKept DEF WritesInv, KeepsOwners
<1>6. RightRows(kv, LogRow(log, e), approvals', notified')
  BY <1>1, <1>2, <1>5, RowAppended DEF KeepsOwners
<1>7. QED
  BY <1>4, <1>6 DEF WritesInv

\* The row that applies an approval is the first one: until now it was pending.
LEMMA ApproveKeeps ==
  ASSUME WritesInv, LogInv', NEW i \in DOMAIN approvals, NEW by \in Agents, ApproveApproval(i, by)
  PROVE  WritesInv'
<1> DEFINE p == approvals[i]
           l1 == LogRow(log, ApprovalEntry(i, by))
           e == StateEntry(p.key, p.value, p.by, "approval", i, p.expected)
           l2 == LogRow(l1, e)
<1>1. /\ TypeOK /\ kv \in [Keys -> Row] /\ log \in Seq(LogEntry) /\ Agrees(kv, log) /\ tx = NULL
      /\ p \in Approval /\ i \in Nat \ {0} /\ p.status = "pending"
  BY DEF ApproveApproval, MayResolve, WritesInv, LogInv, TypeOK
<1>2. /\ ApprovalEntry(i, by) \in LogEntry /\ ApprovalEntry(i, by).source # "state"
      /\ l1 \in Seq(LogEntry) /\ Agrees(kv, l1)
  BY <1>1, ResolveStepFacts DEF WritesInv, ApprovalEntry
<1>3. e \in LogEntry
  BY <1>1, StateEntryType DEF Approval, Writers
<1>4. /\ e.source = "state" /\ e.key = p.key /\ e.version = kv[p.key].version + 1
      /\ e.new = p.value /\ e.by = p.by /\ e.via = "approval" /\ e.appr = i
  BY DEF StateEntry
<1>5. /\ log' = l2 /\ tx' = NULL /\ UpdateRow(p.key, p.value)
      /\ approvals' = [approvals EXCEPT ![i].status = "approved"]
      /\ notified \subseteq notified' /\ StateChanged(p.key, p.value) \in notified'
  BY <1>1 DEF ApproveApproval
<1>6. DOMAIN approvals' = DOMAIN approvals /\ approvals'[i] = [p EXCEPT !.status = "approved"]
      /\ \A j \in DOMAIN approvals \ {i} : approvals'[j] = approvals[j]
  BY <1>5
<1>7. KeepsGrants(approvals, approvals')
  BY <1>1, <1>6 DEF KeepsGrants
<1>8. KeepsOwners(kv, kv')
  BY <1>1, <1>5, OwnersKept DEF Approval
<1>9. Announced(e, notified')
  <2>1. /\ StateChanged(p.key, p.value).type = "state_changed"
        /\ StateChanged(p.key, p.value).key = e.key
        /\ StateChanged(p.key, p.value).version = e.version
        /\ StateChanged(p.key, p.value).value = e.new
    BY <1>4 DEF StateChanged
  <2>2. QED
    BY <1>5, <2>1 DEF Announced
<1>10. approvals'[i].status = "approved" /\ Applies(e, approvals', i)
  BY <1>1, <1>4, <1>6 DEF Applies, Approval
<1>11. RowOK(e, kv', approvals', notified')
  BY <1>4, <1>6, <1>9, <1>10 DEF RowOK, Expected, Owned, Granted
<1> HIDE DEF p, e
<1>12. RightRows(kv, l1, approvals, notified)
  BY <1>1, <1>2, RowAppended DEF WritesInv, KeepsOwners
<1> HIDE DEF l1
<1>13. /\ \A j \in StateRows(l1) : j \in StateRows(l2) /\ l2[j] = l1[j]
       /\ \A j \in StateRows(l2) : \/ j \in StateRows(l1) /\ l2[j] = l1[j]
                                   \/ j = Len(l1) + 1 /\ l2[j] = e
       /\ Len(l1) + 1 \in StateRows(l2) /\ l2[Len(l1) + 1] = e
  BY <1>2, <1>3, <1>4, AppendedRows
<1> HIDE DEF l2
<1>14. RowsOK(kv', l2, approvals', notified')
  <2>1. \A j \in StateRows(l1) : RowOK(l1[j], kv', approvals', notified')
    BY <1>1, <1>2, <1>5, <1>7, <1>8, <1>12, LoggedExists, RowKept DEF RightRows, RowsOK
  <2>2. QED
    BY <1>11, <1>13, <2>1 DEF RowsOK
<1>15. AllApplied(l2, approvals')
  <2> SUFFICES ASSUME NEW x \in DOMAIN approvals', approvals'[x].status = "approved"
               PROVE  \E j \in StateRows(l2) : Applies(l2[j], approvals', x)
    BY DEF AllApplied
  <2>1. CASE x = i
    BY <1>10, <1>13, <2>1
  <2>2. CASE x # i
    BY <1>6, <1>12, <1>13, <2>2 DEF RightRows, AllApplied, Applies
  <2>3. QED
    BY <2>1, <2>2
<1>16. AppliedOnce(l2)
  <2>1. \A j \in StateRows(l1) : l1[j].appr # i
    BY <1>1, <1>12 DEF RightRows, RowsOK, RowOK, Granted, p
  <2>2. QED
    BY <1>4, <1>12, <1>13, <2>1 DEF RightRows, AppliedOnce
<1>17. QED
  BY <1>5, <1>14, <1>15, <1>16 DEF WritesInv, RightRows

LEMMA WritesNext == WritesInv /\ [Next]_vars => WritesInv'
<1> SUFFICES ASSUME WritesInv, [Next]_vars PROVE WritesInv'
  OBVIOUS
<1>1. LogInv /\ LogInv' /\ TypeOK
  BY LogInvNext DEF WritesInv, LogInv
<1>2. /\ Agents \subseteq Writers /\ System \in Writers /\ 0 \in Nat /\ 0..MaxLog \subseteq Nat
      /\ \A x \in Keys : kv[x].version \in Nat
  BY <1>1, BoundsAssumption DEF Writers, TypeOK, Row
<1>3. CASE ApiStep
  <2>1. ASSUME NEW a \in Agents, NEW k \in Keys, NEW v \in Values,
               NEW owner \in Owners \cup {a}, NEW required \in BOOLEAN,
               NEW approver \in Approvers \cup {NULL},
               CreateField(a, k, v, owner, required, approver)
        PROVE  WritesInv'
    <3>1. /\ ~Exists(k) /\ InsertRow(k, v, owner, required, approver)
          /\ Record(k, v, a, "direct", 0) /\ UNCHANGED <<approvals, tx>>
      BY <2>1 DEF CreateField
    <3>2. KeepsOwners(kv, kv')
      BY <1>1, <3>1, OwnersKept
    <3>3. QED
      BY <1>1, <1>2, <3>1, <3>2, WriteKeeps
  <2>2. ASSUME NEW a \in Agents, NEW k \in Keys, NEW v \in Values,
               NEW expected \in 0..MaxLog, WriteField(a, k, v, expected)
        PROVE  WritesInv'
    <3>1. /\ Exists(k) /\ ~VersionConflict(k, expected) /\ ~NeedsApproval(a, k) /\ UpdateRow(k, v)
          /\ Record(k, v, a, "direct", expected) /\ UNCHANGED <<approvals, tx>>
      BY <2>2 DEF WriteField
    <3>2. KeepsOwners(kv, kv')
      BY <1>1, <3>1, OwnersKept
    <3>3. /\ expected # 0 => expected = kv[k].version
          /\ a = kv[k].owner /\ ~kv[k].approval_required
      BY <3>1 DEF VersionConflict, NeedsApproval
    <3>4. QED
      BY <1>1, <1>2, <3>1, <3>2, <3>3, WriteKeeps
  <2>3. ASSUME NEW a \in Agents, NEW k \in Keys, NEW v \in Values,
               NEW expected \in 0..MaxLog, ProposeChange(a, k, v, expected)
        PROVE  WritesInv'
    <3>1. /\ UNCHANGED <<kv, log, tx>> /\ tx = NULL /\ notified \subseteq notified'
          /\ approvals' = [i \in DOMAIN approvals \cup {nextId} |->
                             IF i = nextId THEN Proposal(a, k, v, expected) ELSE approvals[i]]
      BY <2>3 DEF ProposeChange, AddApproval
    <3>2. nextId \notin DOMAIN approvals /\ Proposal(a, k, v, expected).status = "pending"
      BY <1>1 DEF TypeOK, Proposal
    <3>3. KeepsGrants(approvals, approvals') /\ NoNewGrants(approvals, approvals')
      BY <3>1, <3>2 DEF KeepsGrants, NoNewGrants
    <3>4. QED
      BY <1>1, <3>1, <3>3, QuietKeeps
  <2>4. ASSUME NEW a \in Agents, NEW k \in Keys, NEW v \in Values, TaskLinkWrite(a, k, v)
        PROVE  WritesInv'
    <3>1. /\ \/ UpdateRow(k, v)
             \/ ~Exists(k) /\ InsertRow(k, v, a, FALSE, NULL)
          /\ Record(k, v, a, "task", 0) /\ UNCHANGED <<approvals, tx>>
      BY <2>4 DEF TaskLinkWrite
    <3>2. KeepsOwners(kv, kv')
      BY <1>1, <3>1, OwnersKept
    <3>3. QED
      BY <1>1, <1>2, <3>1, <3>2, WriteKeeps
  <2>5. ASSUME NEW k \in Keys, NEW v \in Values, SystemWrite(k, v)
        PROVE  WritesInv'
    <3>1. /\ \/ UpdateRow(k, v)
             \/ ~Exists(k) /\ InsertRow(k, v, System, FALSE, NULL)
          /\ Record(k, v, System, "system", 0) /\ UNCHANGED <<approvals, tx>>
      BY <2>5 DEF SystemWrite
    <3>2. KeepsOwners(kv, kv')
      BY <1>1, <3>1, OwnersKept
    <3>3. QED
      BY <1>1, <1>2, <3>1, <3>2, WriteKeeps
  <2>6. QED
    BY <1>1, <1>3, <2>1, <2>2, <2>3, <2>4, <2>5, RejectKeeps, ApproveKeeps DEF ApiStep
<1>4. CASE ConcludeStep
  <2>1. ASSUME NEW a \in Agents, NEW p \in Projects, ConcludeBegin(a, p)
        PROVE  WritesInv'
    <3>1. /\ tx'.kv = kv /\ tx'.log = log /\ UNCHANGED <<kv, log, approvals, notified>>
      BY <2>1 DEF ConcludeBegin
    <3>2. QED
      BY <1>1, <3>1, QuietKeeps DEF KeepsGrants, NoNewGrants
  <2>2. ASSUME NEW k \in Keys, NEW v \in Values, ConcludeItem(k, v)
        PROVE  WritesInv'
    <3>1. /\ \/ Exists(k) /\ ~NeedsApproval(tx.by, k) /\ UpdateRow(k, v)
             \/ ~Exists(k) /\ InsertRow(k, v, tx.by, FALSE, NULL)
          /\ Record(k, v, tx.by, "direct", 0) /\ UNCHANGED <<approvals, tx>>
      BY <2>2 DEF ConcludeItem
    <3>2. tx.by \in Writers
      BY <1>1, <1>2, <2>2 DEF ConcludeItem, TypeOK
    <3>3. KeepsOwners(kv, kv')
      BY <1>1, <3>1, OwnersKept
    <3>4. Exists(k) => tx.by = kv[k].owner /\ ~kv[k].approval_required
      BY <3>1 DEF NeedsApproval
    <3>5. QED
      BY <1>1, <1>2, <3>1, <3>2, <3>3, <3>4, WriteKeeps
  <2>3. ASSUME NEW k \in Keys, ConcludeRefused(k) \/ ConcludeNeedsApproval(k)
        PROVE  WritesInv'
    <3>1. tx # NULL /\ RollBack /\ notified \subseteq notified'
      BY <2>3 DEF ConcludeRefused, ConcludeNeedsApproval
    <3>2. QED
      BY <1>1, <3>1, RollBackKeeps
  <2>4. ASSUME ConcludeCommit PROVE WritesInv'
    <3>1. tx' = NULL /\ notified \subseteq notified' /\ UNCHANGED <<kv, log, approvals>>
      BY <2>4 DEF ConcludeCommit
    <3>2. QED
      BY <1>1, <3>1, QuietKeeps DEF KeepsGrants, NoNewGrants
  <2>5. QED
    BY <1>4, <2>1, <2>2, <2>3, <2>4 DEF ConcludeStep
<1>5. CASE ProfileStep \/ UNCHANGED vars
  <2>1. UNCHANGED <<kv, log, approvals, tx, notified>>
    BY <1>5 DEF ProfileStep, KnowledgeChecked, KnowledgeExpires, vars
  <2>2. QED
    BY <1>1, <2>1, QuietKeeps DEF KeepsGrants, NoNewGrants
<1>6. QED
  BY <1>3, <1>4, <1>5 DEF Next

LEMMA WritesAlways == Spec => []WritesInv
BY WritesInit, WritesNext, PTL DEF Spec

----------------------------------------------------------------------------
(* The theorems *)

\* A row written directly is by the owner of a field that needs no approval, or
\* creates the field: the owner and the rule a row was written under are those the
\* field still has.
THEOREM DirectWritesOwned == Spec => []DirectWritesAreOwned
<1>1. WritesInv => DirectWritesAreOwned
  BY DEF WritesInv, RightRows, RowsOK, RowOK, Owned, DirectWritesAreOwned
<1>2. QED
  BY <1>1, WritesAlways, PTL

\* A direct write that named a version replaced that one, for any number of writers.
THEOREM ExpectedVersionsHold == Spec => []OptimisticWritesHold
<1>1. WritesInv => OptimisticWritesHold
  BY DEF WritesInv, RightRows, RowsOK, RowOK, Expected, OptimisticWritesHold
<1>2. QED
  BY <1>1, WritesAlways, PTL

\* An approved proposal is applied exactly once, and nothing is applied without one:
\* no second resolver, conclusion batch or rollback comes between the two.
THEOREM ApprovalsApplied == Spec => []ApprovalsAppliedOnce
<1>1. WritesInv => ApprovalsAppliedOnce
  BY DEF WritesInv, RightRows, RowsOK, RowOK, Granted, AllApplied, Applies, AppliedOnce,
         ApprovalsAppliedOnce
<1>2. QED
  BY <1>1, WritesAlways, PTL

\* What is in the log was announced, with its version and value.
THEOREM EveryChangeAnnounced == Spec => []ChangesAnnounced
<1>1. WritesInv => ChangesAnnounced
  BY DEF WritesInv, RightRows, RowsOK, RowOK, Announced, ChangesAnnounced
<1>2. QED
  BY <1>1, WritesAlways, PTL

----------------------------------------------------------------------------
(* The task board *)

TaskFields == {"status", "assignee"}
People == Team \union {Nobody}
TaskRow == [row : {"none", "live", "deleted"}, creator : People, source : Messages \union {None},
            status : Statuses \union {Blank}, assignee : People, closed : BOOLEAN,
            metadata : Metadata \union {"plain", "nested"}]
FieldValue == Statuses \union {Blank} \union People
LogOfTask == UNION {[D -> [old : FieldValue, new : FieldValue]] : D \in SUBSET TaskFields}

BoardTypes ==
  /\ task \in [Tasks -> TaskRow]
  /\ history \in [Tasks -> Seq(LogOfTask)]
  /\ named \in [Messages -> Tasks \union {None}]
  /\ shown \in [Messages -> Statuses \union {None, Blank}]
  /\ request \in [Requests -> [by : People, of : Tasks \union {None}, read : TaskRow]]

\* A request that was begun is about a task, and a task that was never made has no history.
Begun == \A r \in Requests : request[r] # Idle => request[r].of \in Tasks
Unmade == \A t \in Tasks : task[t].row = "none" => history[t] = <<>>

BoardInv == BoardTypes /\ Begun /\ Unmade /\ HistoryReplays /\ MessageNamesTask /\ ClosedMeansDone

\* What the history h of a task says of a field: where it changed ...
Where(h, f) == {i \in 1..Len(h) : f \in DOMAIN h[i]}

\* ... and that the changes follow one another and end in v.
ChainsTo(h, f, v) ==
  \A i \in Where(h, f) :
    /\ \A j \in Where(h, f) :
         i < j /\ (\A k \in Where(h, f) : k <= i \/ j <= k) => h[j][f].old = h[i][f].new
    /\ (\A j \in Where(h, f) : j <= i) => h[i][f].new = v

LEMMA OfIsWhere ==
  ASSUME BoardTypes, NEW t \in Tasks, NEW f
  PROVE  Of(t, f) = Where(history[t], f)
BY DEF BoardTypes, Of, Where

LEMMA ReplaysIsChain ==
  ASSUME BoardTypes
  PROVE  HistoryReplays <=> \A t \in Tasks, f \in TaskFields : ChainsTo(history[t], f, task[t][f])
BY OfIsWhere DEF HistoryReplays, ChainsTo, TaskFields

\* What the history h says of a task that has closed_at, or is done.
LeftByBlankIn(h) ==
  \E i \in Where(h, "status") :
    /\ h[i].status = [old |-> "done", new |-> Blank]
    /\ \A j \in Where(h, "status") : i < j => h[j].status.new # "done"

ClosedIn(row, h) ==
  /\ row.closed => row.status = "done" \/ LeftByBlankIn(h)
  /\ row.status = "done" /\ ~row.closed => Where(h, "status") = {}

LEMMA ClosedIsIn ==
  ASSUME BoardTypes
  PROVE  ClosedMeansDone <=> \A t \in Tasks : ClosedIn(task[t], history[t])
BY OfIsWhere DEF ClosedMeansDone, ClosedIn, LeftByBlank, LeftByBlankIn

LEMMA ClosedIsInNext ==
  ASSUME BoardTypes'
  PROVE  ClosedMeansDone' <=> \A t \in Tasks : ClosedIn(task'[t], history'[t])
<1>1. \A t \in Tasks : \A f : Of(t, f)' = Where(history'[t], f)
  BY DEF BoardTypes, Of, Where
<1>2. QED
  BY <1>1 DEF ClosedMeansDone, ClosedIn, LeftByBlank, LeftByBlankIn

LEMMA ReplaysIsChainNext ==
  ASSUME BoardTypes'
  PROVE  HistoryReplays' <=>
           \A t \in Tasks, f \in TaskFields : ChainsTo(history'[t], f, task'[t][f])
<1>1. \A t \in Tasks : \A f : Of(t, f)' = Where(history'[t], f)
  BY DEF BoardTypes, Of, Where
<1>2. QED
  BY <1>1 DEF HistoryReplays, ChainsTo, TaskFields

LEMMA WhereAppended ==
  ASSUME NEW h \in Seq(LogOfTask), NEW e \in LogOfTask, NEW f
  PROVE  /\ Where(h, f) \subseteq 1..Len(h) /\ Len(h) \in Nat
         /\ Append(h, e)[Len(h) + 1] = e /\ \A i \in 1..Len(h) : Append(h, e)[i] = h[i]
         /\ Where(Append(h, e), f)
              = Where(h, f) \union (IF f \in DOMAIN e THEN {Len(h) + 1} ELSE {})
<1> DEFINE g == Append(h, e)
           n == Len(h)
<1>1. /\ n \in Nat /\ Len(g) = n + 1 /\ g[n + 1] = e
      /\ \A i \in 1..n : g[i] = h[i]
  OBVIOUS
<1> HIDE DEF g, n
<1>2. 1..Len(g) = 1..n \union {n + 1} /\ n + 1 \notin 1..n
  BY <1>1
<1>3. Where(g, f) = Where(h, f) \union (IF f \in DOMAIN e THEN {n + 1} ELSE {})
  BY <1>1, <1>2 DEF Where, n
<1>4. QED
  BY <1>1, <1>3 DEF Where, g, n

\* One more update, which takes the field from v to w or leaves it.
LEMMA ChainGrows ==
  ASSUME NEW h \in Seq(LogOfTask), NEW e \in LogOfTask, NEW f, NEW v, NEW w,
         ChainsTo(h, f, v),
         f \in DOMAIN e => e[f].old = v /\ e[f].new = w,
         f \notin DOMAIN e => w = v
  PROVE  ChainsTo(Append(h, e), f, w)
<1> DEFINE g == Append(h, e)
           n == Len(h)
<1>1. /\ n \in Nat /\ Len(g) = n + 1 /\ g[n + 1] = e
      /\ \A i \in 1..n : g[i] = h[i]
  OBVIOUS
<1> HIDE DEF g, n
<1>2. Where(g, f) = Where(h, f) \union (IF f \in DOMAIN e THEN {n + 1} ELSE {})
  BY WhereAppended DEF g, n
<1>3. Where(h, f) \subseteq 1..n
  BY WhereAppended DEF n
<1>4. CASE f \notin DOMAIN e
  <2>1. Where(g, f) = Where(h, f) /\ w = v
    BY <1>2, <1>4
  <2>2. \A i \in Where(h, f) : g[i] = h[i]
    BY <1>1, <1>3
  <2>3. ChainsTo(g, f, w)
    BY <2>1, <2>2 DEF ChainsTo
  <2>4. QED
    BY <2>3 DEF g
<1>5. CASE f \in DOMAIN e
  <2>1. Where(g, f) = Where(h, f) \union {n + 1} /\ e[f].old = v /\ e[f].new = w
    BY <1>2, <1>5
  <2>2. \A i \in Where(h, f) : g[i] = h[i] /\ i \in Nat /\ i <= n
    BY <1>1, <1>3
  <2>3. ASSUME NEW i \in Where(g, f), NEW j \in Where(g, f), i < j,
               \A k \in Where(g, f) : k <= i \/ j <= k
        PROVE  g[j][f].old = g[i][f].new
    <3>1. i \in Where(h, f)
      BY <1>1, <2>1, <2>2, <2>3
    <3>2. CASE j \in Where(h, f)
      BY <2>1, <2>2, <2>3, <3>1, <3>2 DEF ChainsTo
    <3>3. CASE j = n + 1
      <4>1. \A k \in Where(h, f) : k <= i
        BY <1>1, <2>1, <2>2, <2>3, <3>3
      <4>2. h[i][f].new = v
        BY <3>1, <4>1 DEF ChainsTo
      <4>3. QED
        BY <1>1, <2>1, <2>2, <3>1, <3>3, <4>2
    <3>4. QED
      BY <2>1, <2>3, <3>2, <3>3
  <2>4. ASSUME NEW i \in Where(g, f), \A j \in Where(g, f) : j <= i
        PROVE  g[i][f].new = w
    <3>1. i = n + 1
      BY <1>1, <2>1, <2>2, <2>4
    <3>2. QED
      BY <1>1, <2>1, <3>1
  <2>5. ChainsTo(g, f, w)
    BY <2>3, <2>4 DEF ChainsTo
  <2>6. QED
    BY <2>5 DEF g
<1>6. QED
  BY <1>4, <1>5

LEMMA UpdatedRow ==
  ASSUME NEW old \in TaskRow, NEW body \in Bodies
  PROVE  /\ Updated(old, body) \in TaskRow
         /\ Updated(old, body).row = old.row /\ Updated(old, body).source = old.source
         /\ Updated(old, body).status = IF body.status # "keep" THEN body.status ELSE old.status
         /\ Updated(old, body).closed =
              IF body.status = "done" /\ old.status # "done" THEN TRUE
              ELSE IF body.status \in Statuses \ {"done"} /\ old.status = "done"
              THEN FALSE ELSE old.closed
<1>1. /\ body.status \in Statuses \union {Blank, "keep"}
      /\ body.assignee \in People \union {"keep"}
      /\ body.metadata \in Metadata \union {"keep"}
  BY TeamAssumption DEF Bodies, People, Nobody
<1>2. NewMetadata(body) \in Metadata \union {"keep", "nested"}
  BY <1>1 DEF NewMetadata
<1> DEFINE new == Updated(old, body)
<1>3. /\ new.row = old.row /\ new.source = old.source /\ new.creator = old.creator
      /\ new.status = IF body.status # "keep" THEN body.status ELSE old.status
      /\ new.closed = IF body.status = "done" /\ old.status # "done" THEN TRUE
                      ELSE IF body.status \in Statuses \ {"done"} /\ old.status = "done"
                      THEN FALSE ELSE old.closed
  BY DEF Updated, Asked, TaskRow
<1>4. new \in TaskRow
  <2> DEFINE status == IF Asked(body, "status") THEN body.status ELSE old.status
             assignee == IF Asked(body, "assignee") THEN body.assignee ELSE old.assignee
             metadata == IF NewMetadata(body) = "keep" THEN old.metadata ELSE NewMetadata(body)
             closed == IF body.status = "done" /\ old.status # "done" THEN TRUE
                       ELSE IF body.status \in Statuses \ {"done"} /\ old.status = "done"
                         THEN FALSE ELSE old.closed
  <2>1. new = [old EXCEPT !.status = status, !.assignee = assignee, !.metadata = metadata,
                          !.closed = closed]
    BY DEF Updated
  <2>2. old.closed \in BOOLEAN
    BY DEF TaskRow
  <2>3. closed \in BOOLEAN
    BY <2>2, Zenon
  <2>4. /\ status \in Statuses \union {Blank} /\ assignee \in People
        /\ metadata \in Metadata \union {"plain", "nested"}
    BY <1>1, <1>2 DEF Asked, TaskRow
  <2> HIDE DEF new, status, assignee, metadata, closed
  <2>5. QED
    BY <2>1, <2>3, <2>4 DEF TaskRow
<1>5. QED
  BY <1>3, <1>4

LEMMA ChangesLogged ==
  ASSUME NEW old \in TaskRow, NEW new \in TaskRow
  PROVE  /\ Changes(old, new) \in LogOfTask
         /\ \A f \in TaskFields :
              /\ f \in DOMAIN Changes(old, new) <=> old[f] # new[f]
              /\ f \in DOMAIN Changes(old, new) =>
                   Changes(old, new)[f].old = old[f] /\ Changes(old, new)[f].new = new[f]
<1>1. \A f \in TaskFields : old[f] \in FieldValue /\ new[f] \in FieldValue
  BY DEF TaskRow, TaskFields, FieldValue
<1> DEFINE D == {g \in TaskFields : old[g] # new[g]}
<1>2. Changes(old, new) = [f \in D |-> [old |-> old[f], new |-> new[f]]]
  BY DEF Changes, TaskFields
<1>3. D \in SUBSET TaskFields
  OBVIOUS
<1>4. Changes(old, new) \in [D -> [old : FieldValue, new : FieldValue]]
  BY <1>1, <1>2
<1>5. QED
  BY <1>2, <1>3, <1>4 DEF LogOfTask

LEMMA IdleRequest ==
  /\ NoTask \in TaskRow
  /\ Idle \in [by : People, of : Tasks \union {None}, read : TaskRow]
<1>1. NoTask \in TaskRow
  BY StatusesAssumption DEF NoTask, TaskRow, People, Nobody, None
<1>2. QED
  BY <1>1 DEF Idle, People

LEMMA BoardInit == TaskInit => BoardInv
<1> SUFFICES ASSUME TaskInit PROVE BoardInv
  OBVIOUS
<1>1. BoardTypes
  BY IdleRequest DEF TaskInit, BoardTypes
<1>2. Begun /\ Unmade
  BY DEF TaskInit, Begun, Unmade
<1>3. \A t \in Tasks, f \in TaskFields : Of(t, f) = {}
  BY DEF TaskInit, Of
<1>4. HistoryReplays
  BY <1>3 DEF HistoryReplays, TaskFields
<1>5. MessageNamesTask
  BY DEF TaskInit, MessageNamesTask, Live, NoTask
<1>6. ClosedMeansDone
  BY <1>1, <1>3, ClosedIsIn, OfIsWhere DEF TaskInit, ClosedIn, NoTask, TaskFields
<1>7. QED
  BY <1>1, <1>2, <1>4, <1>5, <1>6 DEF BoardInv

\* Tables are as they were, but for requests.
LEMMA RequestsKeep ==
  ASSUME BoardInv, UNCHANGED <<task, history, named, shown, split>>,
         request' \in [Requests -> [by : People, of : Tasks \union {None}, read : TaskRow]],
         \A r \in Requests : request'[r] # Idle => request'[r].of \in Tasks
  PROVE  BoardInv'
<1>1. BoardTypes' /\ Begun' /\ Unmade'
  BY DEF BoardInv, BoardTypes, Begun, Unmade
<1>2. HistoryReplays'
  BY DEF BoardInv, HistoryReplays, Of
<1>3. MessageNamesTask'
  BY DEF BoardInv, MessageNamesTask, Live
<1>4. ClosedMeansDone'
  BY <1>1, ClosedIsIn, ClosedIsInNext DEF BoardInv
<1>5. QED
  BY <1>1, <1>2, <1>3, <1>4 DEF BoardInv

\* A task is made where there was none; the message names it, unless the server ends.
LEMMA CreateKeeps ==
  ASSUME BoardInv, NEW t \in Tasks, NEW a \in Creators, NEW m \in Sources,
         Create(t, a, m) \/ CreateCut(t, a, m)
  PROVE  BoardInv'
<1>1. /\ BoardTypes /\ Begun /\ Unmade
      /\ HistoryReplays /\ MessageNamesTask /\ ClosedMeansDone
  BY DEF BoardInv
<1>2. Created(t, a, m) /\ UNCHANGED <<history, shown>>
  BY DEF Create, CreateCut
<1>3. PICK s \in Statuses, b \in Assignees, d \in Metadata :
        task' = [task EXCEPT ![t] = [row |-> "live", creator |-> a, source |-> m, status |-> s,
                                     assignee |-> b, closed |-> FALSE, metadata |-> d]]
  BY <1>2 DEF Created
<1>4. /\ \A u \in Tasks \ {t} : task'[u] = task[u]
      /\ task'[t].row = "live" /\ task'[t].source = m /\ ~task'[t].closed
      /\ task[t].row = "none"
  BY <1>1, <1>2, <1>3 DEF BoardTypes, Created, NoTask
<1>5. m \in Messages \union {None} /\ a \in People /\ b \in People
  BY TeamAssumption, SourcesAssumption DEF People, Nobody, None
<1>6. task' \in [Tasks -> TaskRow]
  BY <1>1, <1>3, <1>5 DEF BoardTypes, TaskRow
<1>7. named' \in [Messages -> Tasks \union {None}]
  BY <1>1 DEF BoardTypes, Create, CreateCut
<1>8. /\ request' \in [Requests -> [by : People, of : Tasks \union {None}, read : TaskRow]]
      /\ Begun'
  BY <1>1, IdleRequest DEF Create, CreateCut, BoardTypes, Begun
<1>9. BoardTypes'
  BY <1>1, <1>2, <1>6, <1>7, <1>8 DEF BoardTypes
<1>10. Unmade'
  BY <1>1, <1>2, <1>4 DEF Unmade
<1>11. history[t] = <<>>
  BY <1>1, <1>4 DEF Unmade
<1>12. \A u \in Tasks, f \in TaskFields : Of(u, f)' = Of(u, f) /\ Of(t, f) = {}
  BY <1>2, <1>11 DEF Of
<1>13. HistoryReplays'
  BY <1>1, <1>2, <1>4, <1>12 DEF HistoryReplays, TaskFields
<1>14. ClosedMeansDone'
  <2>1. \A u \in Tasks \ {t} : ClosedIn(task'[u], history'[u])
    BY <1>1, <1>2, <1>4, ClosedIsIn
  <2>2. Where(history'[t], "status") = {}
    BY <1>2, <1>11 DEF Where
  <2>3. ClosedIn(task'[t], history'[t])
    BY <1>4, <2>2 DEF ClosedIn
  <2>4. QED
    BY <1>9, <2>1, <2>3, ClosedIsInNext
<1>15. m # None => named[m] = None /\ shown[m] = None
  BY <1>1, <1>2, <1>5 DEF Created, Taken, MessageNamesTask, Live
<1>16. MessageNamesTask'
  <2>1. CASE Create(t, a, m) /\ m # None
    <3>1. named' = [named EXCEPT ![m] = t] /\ split' = split /\ m \in Messages
      BY <1>5, <2>1 DEF Create
    <3>2. named'[m] = t /\ \A x \in Messages \ {m} : named'[x] = named[x]
      BY <1>1, <3>1 DEF BoardTypes
    <3>3. ASSUME NEW x \in Messages
          PROVE  IF named'[x] = None THEN shown'[x] = None
                 ELSE /\ task'[named'[x]].row = "live" /\ task'[named'[x]].source = x
                      /\ shown'[x] \in {None, task'[named'[x]].status}
      <4>1. CASE x = m
        BY <1>2, <1>4, <1>15, <2>1, <3>2, <4>1, NobodyAssumption DEF None
      <4>2. CASE x # m
        BY <1>1, <1>2, <1>4, <3>2, <4>2 DEF MessageNamesTask, BoardTypes
      <4>3. QED
        BY <4>1, <4>2
    <3>4. ASSUME NEW u \in Tasks, Live(u)', task'[u].source \notin split' \union {None}
          PROVE  named'[task'[u].source] = u
      <4>1. CASE u = t
        BY <1>4, <3>2, <4>1
      <4>2. CASE u # t
        <5>1. named[task[u].source] = u /\ task'[u] = task[u] /\ task[u].source \in Messages
          BY <1>1, <1>4, <3>1, <3>4, <4>2 DEF MessageNamesTask, Live, BoardTypes, TaskRow
        <5>2. task[u].source # m
          BY <1>15, <2>1, <5>1, NobodyAssumption DEF None
        <5>3. QED
          BY <3>2, <5>1, <5>2
      <4>3. QED
        BY <4>1, <4>2
    <3>5. QED
      BY <3>3, <3>4 DEF MessageNamesTask
  <2>2. CASE ~(Create(t, a, m) /\ m # None)
    <3>1. named' = named /\ split \subseteq split' /\ m \in split' \union {None}
      BY <2>2 DEF Create, CreateCut
    <3>2. ASSUME NEW x \in Messages
          PROVE  IF named'[x] = None THEN shown'[x] = None
                 ELSE /\ task'[named'[x]].row = "live" /\ task'[named'[x]].source = x
                      /\ shown'[x] \in {None, task'[named'[x]].status}
      BY <1>1, <1>2, <1>4, <3>1 DEF MessageNamesTask, BoardTypes
    <3>3. ASSUME NEW u \in Tasks, Live(u)', task'[u].source \notin split' \union {None}
          PROVE  named'[task'[u].source] = u
      BY <1>1, <1>4, <3>1, <3>3 DEF MessageNamesTask, Live
    <3>4. QED
      BY <3>2, <3>3 DEF MessageNamesTask
  <2>3. QED
    BY <2>1, <2>2
<1>17. QED
  BY <1>8, <1>9, <1>10, <1>13, <1>14, <1>16 DEF BoardInv

LEMMA DeleteKeeps ==
  ASSUME BoardInv, NEW a \in Team, NEW t \in Tasks, Delete(a, t)
  PROVE  BoardInv'
<1>1. /\ BoardTypes /\ Begun /\ Unmade
      /\ HistoryReplays /\ MessageNamesTask /\ ClosedMeansDone
  BY DEF BoardInv
<1> DEFINE m == task[t].source
<1>2. /\ Live(t) /\ task' = [task EXCEPT ![t].row = "deleted"]
      /\ named' = IF m = None THEN named ELSE [named EXCEPT ![m] = None]
      /\ shown' = IF m = None THEN shown ELSE [shown EXCEPT ![m] = None]
      /\ UNCHANGED <<history, request, split>>
  BY DEF Delete
<1>3. /\ \A u \in Tasks \ {t} : task'[u] = task[u]
      /\ task'[t] \in TaskRow /\ task'[t].row = "deleted"
      /\ task'[t].status = task[t].status /\ task'[t].assignee = task[t].assignee
      /\ task'[t].closed = task[t].closed
  <2>1. task[t] \in TaskRow
    BY <1>1 DEF BoardTypes
  <2>2. /\ task'[t] = [task[t] EXCEPT !.row = "deleted"]
        /\ \A u \in Tasks \ {t} : task'[u] = task[u]
    BY <1>1, <1>2 DEF BoardTypes
  <2>3. QED
    BY <2>1, <2>2 DEF TaskRow
<1>4. m \in Messages \union {None}
  BY <1>1 DEF BoardTypes, TaskRow
<1> HIDE DEF m
<1>5. BoardTypes'
  BY <1>1, <1>2, <1>3 DEF BoardTypes
<1>6. Begun' /\ Unmade'
  BY <1>1, <1>2, <1>3 DEF Begun, Unmade
<1>7. \A u \in Tasks, f \in TaskFields : Of(u, f)' = Of(u, f) /\ task'[u][f] = task[u][f]
  BY <1>2, <1>3 DEF Of, TaskFields
<1>8. HistoryReplays'
  BY <1>1, <1>2, <1>5, <1>7, ReplaysIsChain, ReplaysIsChainNext
<1>9. ClosedMeansDone'
  <2>1. \A u \in Tasks : ClosedIn(task[u], history'[u])
    BY <1>1, <1>2, ClosedIsIn
  <2>2. \A u \in Tasks : task'[u].closed = task[u].closed /\ task'[u].status = task[u].status
    BY <1>3
  <2>3. QED
    BY <1>5, <2>1, <2>2, ClosedIsInNext DEF ClosedIn
<1>10. /\ m # None => named'[m] = None /\ shown'[m] = None
       /\ \A x \in Messages : x # m => named'[x] = named[x] /\ shown'[x] = shown[x]
  BY <1>1, <1>2, <1>4 DEF BoardTypes
<1>11. ASSUME NEW x \in Messages
       PROVE  IF named'[x] = None THEN shown'[x] = None
              ELSE /\ task'[named'[x]].row = "live" /\ task'[named'[x]].source = x
                   /\ shown'[x] \in {None, task'[named'[x]].status}
  <2>1. CASE x = m
    BY <1>10, <2>1, NobodyAssumption DEF None
  <2>2. CASE x # m
    <3>1. named'[x] = named[x] /\ shown'[x] = shown[x]
      BY <1>10, <2>2
    <3>2. named[x] # None => named[x] # t
      BY <1>1, <2>2 DEF MessageNamesTask, m
    <3>3. QED
      BY <1>1, <1>3, <3>1, <3>2 DEF MessageNamesTask, BoardTypes
  <2>3. QED
    BY <2>1, <2>2
<1>12. ASSUME NEW u \in Tasks, Live(u)', task'[u].source \notin split' \union {None}
       PROVE  named'[task'[u].source] = u
  <2>1. u # t /\ task'[u] = task[u] /\ Live(u)
    BY <1>3, <1>12 DEF Live
  <2>2. named[task[u].source] = u /\ task[u].source \in Messages
    BY <1>1, <1>2, <1>12, <2>1 DEF MessageNamesTask, BoardTypes, TaskRow
  <2>3. task[u].source # m
    BY <1>1, <1>2, <1>12, <2>1, <2>2 DEF MessageNamesTask, m
  <2>4. QED
    BY <1>10, <2>1, <2>2, <2>3
<1>13. MessageNamesTask'
  BY <1>11, <1>12 DEF MessageNamesTask
<1>14. QED
  BY <1>5, <1>6, <1>8, <1>9, <1>13 DEF BoardInv

\* updateTask: the change begins where the row is, and the message names the task.
LEMMA PatchKeeps ==
  ASSUME BoardInv, NEW r \in Requests, NEW body \in Bodies, Patch(r, body)
  PROVE  BoardInv'
<1>1. /\ BoardTypes /\ Begun /\ Unmade
      /\ HistoryReplays /\ MessageNamesTask /\ ClosedMeansDone
  BY DEF BoardInv
<1> DEFINE t == request[r].of
           old == task[t]
           new == Updated(old, body)
           m == old.source
<1>2. /\ t \in Tasks /\ Live(t) /\ Write(r, t, body)
      /\ request' = [request EXCEPT ![r] = Idle] /\ split' = split
  BY <1>1 DEF Patch, Ends, Begun
<1>3. /\ request' \in [Requests -> [by : People, of : Tasks \union {None}, read : TaskRow]]
      /\ \A q \in Requests : request'[q] # Idle => request'[q].of \in Tasks
  BY <1>1, <1>2, IdleRequest DEF BoardTypes, Begun
<1> HIDE DEF t
<1>4. old \in TaskRow
  BY <1>1, <1>2 DEF BoardTypes
<1>5. /\ new \in TaskRow /\ new.row = "live" /\ new.source = m
      /\ new.status = IF body.status # "keep" THEN body.status ELSE old.status
      /\ new.closed = IF body.status = "done" /\ old.status # "done" THEN TRUE
                      ELSE IF body.status \in Statuses \ {"done"} /\ old.status = "done"
                      THEN FALSE ELSE old.closed
  BY <1>2, <1>4, UpdatedRow DEF Live
<1>6. CASE UNCHANGED <<task, history, named, shown>>
  BY <1>2, <1>3, <1>6, RequestsKeep
<1>7. CASE ~UNCHANGED <<task, history, named, shown>>
  <2>1. /\ task' = [task EXCEPT ![t] = new]
        /\ history' = [history EXCEPT ![t] = Append(@, Changes(old, new))]
        /\ named' = IF m = None THEN named ELSE [named EXCEPT ![m] = t]
        /\ shown' = IF m = None THEN shown ELSE [shown EXCEPT ![m] = new.status]
    BY <1>2, <1>7 DEF Write
  <2> HIDE DEF new
  <2>2. /\ task'[t] = new /\ history'[t] = Append(history[t], Changes(old, new))
        /\ \A u \in Tasks \ {t} : task'[u] = task[u] /\ history'[u] = history[u]
    BY <1>1, <1>2, <2>1 DEF BoardTypes
  <2>3. /\ Changes(old, new) \in LogOfTask
        /\ \A f \in TaskFields :
             /\ f \in DOMAIN Changes(old, new) <=> old[f] # new[f]
             /\ f \in DOMAIN Changes(old, new) =>
                  Changes(old, new)[f].old = old[f] /\ Changes(old, new)[f].new = new[f]
    BY <1>4, <1>5, ChangesLogged
  <2>4. m \in Messages \union {None}
    BY <1>4 DEF TaskRow
  <2>5. BoardTypes' /\ Begun'
    <3>1. task' \in [Tasks -> TaskRow]
      BY <1>1, <1>5, <2>1 DEF BoardTypes
    <3>2. history[t] \in Seq(LogOfTask)
      BY <1>1, <1>2 DEF BoardTypes
    <3>3. Append(history[t], Changes(old, new)) \in Seq(LogOfTask)
      BY <2>3, <3>2
    <3>4. history' \in [Tasks -> Seq(LogOfTask)]
      BY <1>1, <2>1, <3>3 DEF BoardTypes
    <3>5. named' \in [Messages -> Tasks \union {None}] /\ shown' \in [Messages -> Statuses \union {None, Blank}]
      BY <1>1, <1>2, <1>5, <2>1 DEF BoardTypes, TaskRow
    <3>6. QED
      BY <1>3, <3>1, <3>4, <3>5 DEF BoardTypes, Begun
  <2>6. Unmade'
    BY <1>1, <1>5, <2>2 DEF Unmade
  <2>7. HistoryReplays'
    <3>1. \A u \in Tasks, f \in TaskFields : ChainsTo(history[u], f, task[u][f])
      BY <1>1, ReplaysIsChain
    <3>2. ASSUME NEW f \in TaskFields PROVE ChainsTo(history'[t], f, task'[t][f])
      <4>1. history[t] \in Seq(LogOfTask) /\ ChainsTo(history[t], f, old[f])
        BY <1>1, <1>2, <3>1 DEF BoardTypes
      <4>2. ChainsTo(Append(history[t], Changes(old, new)), f, new[f])
        BY <2>3, <4>1, ChainGrows
      <4>3. QED
        BY <2>2, <4>2
    <3>3. \A u \in Tasks, f \in TaskFields : ChainsTo(history'[u], f, task'[u][f])
      BY <2>2, <3>1, <3>2
    <3>4. QED
      BY <2>5, <3>3, ReplaysIsChainNext
  <2>8. ClosedMeansDone'
    <3> DEFINE h == history[t]
               e == Changes(old, new)
    <3>1. ClosedIn(old, h) /\ h \in Seq(LogOfTask) /\ e \in LogOfTask
      BY <1>1, <1>2, <2>3, ClosedIsIn DEF BoardTypes
    <3>2. /\ Where(h, "status") \subseteq 1..Len(h) /\ Len(h) \in Nat
          /\ Append(h, e)[Len(h) + 1] = e /\ \A i \in 1..Len(h) : Append(h, e)[i] = h[i]
          /\ Where(Append(h, e), "status")
               = Where(h, "status") \union (IF "status" \in DOMAIN e THEN {Len(h) + 1} ELSE {})
      BY <3>1, WhereAppended
    <3>3. /\ "status" \in DOMAIN e <=> old.status # new.status
          /\ "status" \in DOMAIN e =>
               e.status = [old |-> old.status, new |-> new.status]
      <4>1. Changes(old, new)
              = [f \in {g \in {"status", "assignee"} : old[g] # new[g]} |->
                   [old |-> old[f], new |-> new[f]]]
        BY DEF Changes
      <4>2. QED
        BY <4>1
    <3>4. body.status \in Statuses \union {Blank, "keep"} /\ new.status \in Statuses \union {Blank}
      BY <1>5 DEF Bodies, TaskRow
    <3> HIDE DEF h, e
    <3>5. new.closed => new.status = "done" \/ LeftByBlankIn(Append(h, e))
      <4>1. SUFFICES ASSUME new.closed, new.status # "done" PROVE LeftByBlankIn(Append(h, e))
        OBVIOUS
      <4>2. CASE old.status = "done"
        <5>1. new.status = Blank
          BY <1>5, <3>4, <4>1, <4>2
        <5>2. Len(h) + 1 \in Where(Append(h, e), "status")
              /\ Append(h, e)[Len(h) + 1].status = [old |-> "done", new |-> Blank]
          BY <3>2, <3>3, <4>1, <4>2, <5>1
        <5>3. \A j \in Where(Append(h, e), "status") : ~(Len(h) + 1 < j)
          BY <3>2
        <5>4. QED
          BY <5>2, <5>3 DEF LeftByBlankIn
      <4>3. CASE old.status # "done"
        <5>1. old.closed
          BY <1>5, <4>1, <4>3
        <5>2. PICK i \in Where(h, "status") :
                /\ h[i].status = [old |-> "done", new |-> Blank]
                /\ \A j \in Where(h, "status") : i < j => h[j].status.new # "done"
          BY <3>1, <4>3, <5>1 DEF ClosedIn, LeftByBlankIn
        <5>3. \A j \in Where(Append(h, e), "status") :
                i < j => Append(h, e)[j].status.new # "done"
          BY <3>2, <3>3, <4>1, <5>2
        <5>4. i \in Where(Append(h, e), "status") /\ Append(h, e)[i] = h[i]
          BY <3>2, <5>2
        <5>5. QED
          BY <5>2, <5>3, <5>4 DEF LeftByBlankIn
      <4>4. QED
        BY <4>2, <4>3
    <3>6. new.status = "done" /\ ~new.closed => Where(Append(h, e), "status") = {}
      <4>1. SUFFICES ASSUME new.status = "done", ~new.closed
                     PROVE  Where(Append(h, e), "status") = {}
        OBVIOUS
      <4>2. CASE body.status = "keep"
        <5>1. old.status = "done" /\ new.closed = old.closed
          BY <1>5, <4>1, <4>2, StatusesAssumption
        <5>2. QED
          BY <3>1, <3>2, <3>3, <4>1, <5>1 DEF ClosedIn
      <4>3. CASE body.status = "done"
        <5>1. old.status = "done" /\ new.closed = old.closed
          BY <1>5, <4>1, <4>3
        <5>2. QED
          BY <3>1, <3>2, <3>3, <4>1, <5>1 DEF ClosedIn
      <4>4. QED
        BY <1>5, <4>1, <4>2, <4>3
    <3>7. ClosedIn(new, history'[t])
      BY <2>2, <3>5, <3>6 DEF ClosedIn, h, e
    <3>8. \A u \in Tasks \ {t} : ClosedIn(task'[u], history'[u])
      BY <1>1, <2>2, ClosedIsIn
    <3>9. QED
      BY <2>2, <2>5, <3>7, <3>8, ClosedIsInNext
  <2>9. MessageNamesTask'
    <3>1. /\ m # None => named'[m] = t /\ shown'[m] = new.status
          /\ \A x \in Messages : x # m => named'[x] = named[x] /\ shown'[x] = shown[x]
      BY <1>1, <2>1, <2>4 DEF BoardTypes
    <3>2. ASSUME NEW x \in Messages
          PROVE  IF named'[x] = None THEN shown'[x] = None
                 ELSE /\ task'[named'[x]].row = "live" /\ task'[named'[x]].source = x
                      /\ shown'[x] \in {None, task'[named'[x]].status}
      <4>1. CASE x = m
        BY <1>2, <1>5, <2>2, <3>1, <4>1, NobodyAssumption DEF None
      <4>2. CASE x # m
        <5>1. named'[x] = named[x] /\ shown'[x] = shown[x]
          BY <3>1, <4>2
        <5>2. named[x] # None => named[x] # t
          BY <1>1, <4>2 DEF MessageNamesTask
        <5>3. QED
          BY <1>1, <2>2, <5>1, <5>2 DEF MessageNamesTask, BoardTypes
      <4>3. QED
        BY <4>1, <4>2
    <3>3. ASSUME NEW u \in Tasks, Live(u)', task'[u].source \notin split' \union {None}
          PROVE  named'[task'[u].source] = u
      <4>1. CASE u = t
        BY <1>5, <2>2, <3>1, <3>3, <4>1
      <4>2. CASE u # t
        <5>1. task'[u] = task[u] /\ Live(u)
          BY <2>2, <3>3, <4>2 DEF Live
        <5>2. named[task[u].source] = u /\ task[u].source \in Messages
          BY <1>1, <1>2, <3>3, <5>1 DEF MessageNamesTask, BoardTypes, TaskRow
        <5>3. task[u].source # m
          BY <1>1, <1>2, <3>3, <4>2, <5>1, <5>2 DEF MessageNamesTask
        <5>4. QED
          BY <3>1, <5>1, <5>2, <5>3
      <4>3. QED
        BY <4>1, <4>2
    <3>4. QED
      BY <3>2, <3>3 DEF MessageNamesTask
  <2>10. QED
    BY <2>5, <2>6, <2>7, <2>8, <2>9 DEF BoardInv
<1>8. QED
  BY <1>6, <1>7

LEMMA BoardNext == BoardInv /\ [TaskNext]_taskVars => BoardInv'
<1> SUFFICES ASSUME BoardInv, [TaskNext]_taskVars PROVE BoardInv'
  OBVIOUS
<1>1. BoardTypes /\ Begun
  BY DEF BoardInv
<1>2. ASSUME NEW r \in Requests, NEW a \in Team, NEW t \in Tasks, PatchBegin(r, a, t)
      PROVE  BoardInv'
  <2>1. task[t] \in TaskRow /\ a \in People
    BY <1>1 DEF BoardTypes, People
  <2>2. [by |-> a, of |-> t, read |-> task[t]]
          \in [by : People, of : Tasks \union {None}, read : TaskRow]
    BY <2>1
  <2>3. /\ request' \in [Requests -> [by : People, of : Tasks \union {None}, read : TaskRow]]
        /\ \A q \in Requests : request'[q] # Idle => request'[q].of \in Tasks
    BY <1>1, <1>2, <2>2 DEF PatchBegin, BoardTypes, Begun
  <2>4. QED
    BY <1>2, <2>3, RequestsKeep DEF PatchBegin, tables
<1>3. ASSUME NEW r \in Requests, PatchFails(r) PROVE BoardInv'
  <2>1. /\ request' \in [Requests -> [by : People, of : Tasks \union {None}, read : TaskRow]]
        /\ \A q \in Requests : request'[q] # Idle => request'[q].of \in Tasks
    BY <1>1, <1>3, IdleRequest DEF PatchFails, Ends, BoardTypes, Begun
  <2>2. QED
    BY <1>3, <2>1, RequestsKeep DEF PatchFails, tables
<1>4. CASE Restart
  BY <1>4, IdleRequest, RequestsKeep DEF Restart, tables
<1>5. CASE UNCHANGED taskVars
  BY <1>1, <1>5, RequestsKeep DEF taskVars, tables, BoardTypes, Begun
<1>6. QED
  BY <1>2, <1>3, <1>4, <1>5, CreateKeeps, PatchKeeps, DeleteKeeps DEF TaskNext

\* The history of a task accounts for its row, for any number of requests that overlap, of
\* tasks and of agents (router.mjs PATCH, updateTask).
THEOREM HistoriesReplay == TaskSpec => []HistoryReplays
<1>1. BoardInv => HistoryReplays
  BY DEF BoardInv
<1>2. QED
  BY <1>1, BoardInit, BoardNext, PTL DEF TaskSpec

\* The metadata of a message names its one live task and shows its status, unless a server
\* ended between the row and the message.
THEOREM MessagesNameTasks == TaskSpec => []MessageNamesTask
<1>1. BoardInv => MessageNamesTask
  BY DEF BoardInv
<1>2. QED
  BY <1>1, BoardInit, BoardNext, PTL DEF TaskSpec

\* closed_at is set on done tasks and on those that left "done" by the empty status only, and
\* missing from those done tasks alone that were created done (updateTask).
THEOREM ClosedAreDone == TaskSpec => []ClosedMeansDone
<1>1. BoardInv => ClosedMeansDone
  BY DEF BoardInv
<1>2. QED
  BY <1>1, BoardInit, BoardNext, PTL DEF TaskSpec

----------------------------------------------------------------------------
(* Delivery: the first and the last of some messages. *)

\* The greatest of some rows.
LEMMA MaxOfRows ==
  ASSUME NEW n \in Nat, NEW S \in SUBSET (1..n), S # {}
  PROVE  Max(S) \in S /\ \A y \in S : y <= Max(S)
<1> DEFINE above == {m \in Nat : \A y \in S : y <= m}
<1>1. n \in above
  OBVIOUS
<1>2. PICK m \in above : \A k \in above : ~(<<k, m>> \in OpToRel(<, Nat))
  <2>1. above \subseteq Nat /\ above # {}
    BY <1>1
  <2> HIDE DEF above
  <2>2. QED
    BY <2>1, NatLessThanWellFounded, WFMin, ZenonT(30)
<1>3. \A k \in above : ~(k < m)
  BY <1>2 DEF OpToRel
<1>4. m \in S
  <2>1. SUFFICES ASSUME m \notin S PROVE FALSE
    OBVIOUS
  <2>2. PICK z \in S : TRUE
    OBVIOUS
  <2>3. \A y \in S : y \in Nat /\ y <= m /\ y # m
    BY <2>1
  <2>4. m - 1 \in Nat /\ \A y \in S : y <= m - 1
    BY <2>2, <2>3
  <2>5. m - 1 \in above
    BY <2>4
  <2>6. QED
    BY <1>3, <2>5
<1>5. \A y \in S : m >= y
  OBVIOUS
<1>6. Max(S) \in S /\ \A y \in S : Max(S) >= y
  BY <1>4, <1>5 DEF Max
<1>7. QED
  BY <1>6

\* A limit takes something, and nothing but rows.
LEMMA SomeTaken ==
  ASSUME NEW n \in Nat, NEW S \in SUBSET (1..n), NEW k \in Nat, k # 0
  PROVE  /\ Oldest(S, k) \subseteq S /\ Newest(S, k) \subseteq S
         /\ S # {} => Oldest(S, k) # {} /\ Newest(S, k) # {}
<1>1. Oldest(S, k) \subseteq S /\ Newest(S, k) \subseteq S
  BY DEF Oldest, Newest
<1>2. ASSUME S # {} PROVE Oldest(S, k) # {}
  <2>1. S \subseteq Nat
    OBVIOUS
  <2>2. PICK m \in S : \A j \in S : ~(<<j, m>> \in OpToRel(<, Nat))
    BY <1>2, <2>1, NatLessThanWellFounded, WFMin, ZenonT(30)
  <2>3. {j \in S : j < m} = {}
    BY <2>1, <2>2 DEF OpToRel
  <2>4. Cardinality({j \in S : j < m}) < k
    BY <2>3, FS_EmptySet
  <2>5. QED
    BY <2>4 DEF Oldest
<1>3. ASSUME S # {} PROVE Newest(S, k) # {}
  <2>1. Max(S) \in S /\ \A y \in S : y <= Max(S)
    BY <1>3, MaxOfRows
  <2>2. {j \in S : j > Max(S)} = {}
    <3>1. PICK m \in S : m = Max(S) /\ \A y \in S : y <= m
      BY <2>1
    <3>2. \A y \in S : y \in Nat
      OBVIOUS
    <3>3. ASSUME NEW j \in S, j > m PROVE FALSE
      BY <3>1, <3>2, <3>3
    <3>4. QED
      BY <3>1, <3>3
  <2>3. Cardinality({j \in S : j > Max(S)}) < k
    BY <2>2, FS_EmptySet
  <2>4. QED
    BY <2>1, <2>3 DEF Newest
<1>4. QED
  BY <1>1, <1>2, <1>3

\* A limit that is not exceeded takes everything.
LEMMA AllTaken ==
  ASSUME NEW S, IsFiniteSet(S), S \subseteq Nat, NEW k \in Nat, Cardinality(S) <= k
  PROVE  Oldest(S, k) = S /\ Newest(S, k) = S
<1>1. ASSUME NEW i \in S, NEW T \in SUBSET (S \ {i})
      PROVE  Cardinality(T) < k
  <2>1. IsFiniteSet(S \ {i}) /\ Cardinality(S \ {i}) = Cardinality(S) - 1
    BY FS_RemoveElement
  <2>2. IsFiniteSet(T) /\ Cardinality(T) <= Cardinality(S \ {i})
    BY <2>1, FS_Subset
  <2>3. Cardinality(T) \in Nat /\ Cardinality(S) \in Nat
    BY <2>2, FS_CardinalityType
  <2>4. QED
    BY <2>1, <2>2, <2>3
<1>2. \A i \in S : {j \in S : j < i} \subseteq S \ {i} /\ {j \in S : j > i} \subseteq S \ {i}
  OBVIOUS
<1>3. QED
  BY <1>1, <1>2 DEF Oldest, Newest

----------------------------------------------------------------------------
(* Delivery: the pushes *)

\* The types, and a handler that waits has its row.
PushInv ==
  /\ DeliveryTypeOK
  /\ Len(msgs) <= MaxMsgs
  /\ \A i \in Ids : handlers[i] # {} => i \in 1..Len(msgs)

\* What the two push paths do for the recipients: on the stream, or in flight.
LEMMA PushKeeps ==
  ASSUME PushInv, NEW n \in Nat, Len(msgs) <= n, NEW i \in 1..n, NEW to \in SUBSET Members, Push(to, i)
  PROVE  /\ timers' \subseteq [to : Members, msg : 1..n] /\ timers \subseteq timers'
         /\ buffer' \in [Members -> SUBSET (1..n)]
         /\ flushTimer' \in [Members -> BOOLEAN]
         /\ IF batching THEN timers' = {} ELSE buffer' = NoOne
         /\ received' \in [Members -> SUBSET (1..n)]
         /\ \A a \in Members : received[a] \subseteq received'[a]
         /\ \A a \in online : buffer[a] \subseteq buffer'[a] \cup received'[a]
         /\ \A a \in to \cap online :
              i \in received'[a] \cup buffer'[a] \/ [to |-> a, msg |-> i] \in timers'
<1>1. /\ DOMAIN msgs \subseteq 1..n
      /\ timers \subseteq [to : Members, msg : 1..n]
      /\ buffer \in [Members -> SUBSET (1..n)] /\ flushTimer \in [Members -> BOOLEAN]
      /\ received \in [Members -> SUBSET (1..n)]
      /\ IF batching THEN timers = {} ELSE buffer = NoOne
  <2>1. DOMAIN msgs \subseteq 1..n
    BY DEF PushInv, DeliveryTypeOK
  <2>2. QED
    BY <2>1 DEF PushInv, DeliveryTypeOK
<1>2. CASE ~batching
  <2>1. PICK first \in SUBSET to :
          /\ received' = [a \in Members |->
               IF a \in online THEN received[a] \cup [b \in Members |-> IF b \in first THEN {i} ELSE {}][a]
               ELSE received[a]]
          /\ timers' = timers \cup [to : to \ first, msg : {i}]
    BY <1>2 DEF Push, StaggeredPush, Carry
  <2>2. buffer' = buffer /\ flushTimer' = flushTimer
    BY <1>2 DEF Push, StaggeredPush
  <2>3. received' \in [Members -> SUBSET (1..n)]
    BY <1>1, <2>1
  <2>4. [to : to \ first, msg : {i}] \subseteq [to : Members, msg : 1..n]
    OBVIOUS
  <2>5. \A a \in Members : received[a] \subseteq received'[a]
    BY <2>1
  <2>6. \A a \in to \cap online : i \in received'[a] \/ [to |-> a, msg |-> i] \in timers'
    <3>1. SUFFICES ASSUME NEW a \in to \cap online, a \notin first
                   PROVE  [to |-> a, msg |-> i] \in [to : to \ first, msg : {i}]
      BY <2>1 DEF online
    <3>2. QED
      BY <3>1
  <2>7. QED
    BY <1>1, <1>2, <2>1, <2>2, <2>3, <2>4, <2>5, <2>6
<1>3. CASE batching
  <2> DEFINE full(a) == Full(a, i)
  <2>1. /\ received' = [a \in Members |->
             IF a \in online
             THEN received[a] \cup [b \in Members |-> IF b \in to /\ full(b) THEN buffer[b] \cup {i}
                                                     ELSE {}][a]
             ELSE received[a]]
        /\ buffer' = [a \in Members |-> IF a \notin to THEN buffer[a]
                                       ELSE IF full(a) THEN {} ELSE buffer[a] \cup {i}]
        /\ flushTimer' = [a \in Members |-> IF a \in to THEN ~full(a) ELSE flushTimer[a]]
        /\ timers' = timers
    BY <1>3 DEF Push, BufferedPush, Carry
  <2> HIDE DEF full
  <2>2. received' \in [Members -> SUBSET (1..n)]
    BY <1>1, <2>1
  <2>3. buffer' \in [Members -> SUBSET (1..n)]
    BY <1>1, <2>1
  <2>4. flushTimer' \in [Members -> BOOLEAN]
    BY <1>1, <2>1
  <2>5. \A a \in Members : received[a] \subseteq received'[a]
    BY <2>1
  <2>6. \A a \in online : buffer[a] \subseteq buffer'[a] \cup received'[a]
    BY <2>1 DEF online
  <2>7. \A a \in to \cap online : i \in received'[a] \cup buffer'[a]
    BY <2>1 DEF online
  <2>8. QED
    BY <1>1, <1>3, <2>1, <2>2, <2>3, <2>4, <2>5, <2>6, <2>7
<1>4. QED
  BY <1>2, <1>3

\* In the initial state nothing is in flight.
LEMMA PushInit == DeliveryInit => PushInv
<1> SUFFICES ASSUME DeliveryInit PROVE PushInv
  OBVIOUS
<1>1. msgs = <<>> /\ Len(msgs) = 0 /\ DOMAIN msgs = {}
  BY DEF DeliveryInit
<1>2. MaxMsgs \in Nat /\ MaxStreams \in Nat /\ MaxRestarts \in Nat
  BY DeliveryAssumption
<1>3. /\ received \in [Members -> SUBSET DOMAIN msgs]
      /\ summarised \in [Members -> SUBSET DOMAIN msgs] /\ excused \in [Members -> SUBSET DOMAIN msgs]
      /\ buffer \in [Members -> SUBSET DOMAIN msgs] /\ handlers \in [Ids -> SUBSET Members]
      /\ timers = {} /\ buffer = NoOne /\ flushTimer \in [Members -> BOOLEAN]
  BY <1>1 DEF DeliveryInit, NoOne
<1>4. pull \in [Members -> [ack : 0..Len(msgs), cut : SUBSET DOMAIN msgs]]
  BY <1>1 DEF DeliveryInit, NoPull
<1>5. marker \in [Members -> 0..Len(msgs)] /\ streams \in [Members -> 0..MaxStreams]
  BY <1>1, <1>2 DEF DeliveryInit
<1>6. msgs \in Seq([from : Members, now : BOOLEAN, mentions : SUBSET Members])
  BY <1>1
<1>7. batching \in BatchModes /\ restarts \in 0..MaxRestarts
  BY <1>2 DEF DeliveryInit
<1>8. DeliveryTypeOK
  BY <1>3, <1>4, <1>5, <1>6, <1>7 DEF DeliveryTypeOK
<1>9. QED
  BY <1>1, <1>2, <1>8 DEF PushInv, DeliveryInit

\* The rows a query returns.
LEMMA UnreadRows ==
  ASSUME PushInv, NEW a \in Members
  PROVE  /\ DOMAIN msgs = 1..Len(msgs) /\ Len(msgs) \in Nat
         /\ Unread(a) \subseteq 1..Len(msgs) /\ IsFiniteSet(Unread(a))
         /\ \A i \in DOMAIN msgs : i \in Unread(a) <=> ~(i <= marker[a])
         /\ UnreadMessages(a) \subseteq Unread(a) /\ UnreadMentions(a) \subseteq Unread(a)
         /\ UnreadCount(a) \in Nat
         /\ UnreadCount(a) = 0 <=> \A i \in Unread(a) : msgs[i].from = a
         /\ Unread(a) # {} => UnreadMessages(a) # {}
<1>1. DOMAIN msgs = 1..Len(msgs) /\ Len(msgs) \in Nat /\ marker[a] \in 0..Len(msgs)
  BY DEF PushInv, DeliveryTypeOK
<1>2. Unread(a) \subseteq 1..Len(msgs) /\ \A i \in DOMAIN msgs : i \in Unread(a) <=> ~(i <= marker[a])
  BY <1>1 DEF Unread
<1>3. IsFiniteSet(Unread(a))
  <2>1. IsFiniteSet(1..Len(msgs))
    BY <1>1, FS_Interval
  <2>2. QED
    BY <1>2, <2>1, FS_Subset
<1>4. FetchLimit \in Nat /\ FetchLimit # 0
  BY DeliveryAssumption
<1>5. /\ UnreadMessages(a) \subseteq Unread(a) /\ UnreadMentions(a) \subseteq Unread(a)
      /\ Unread(a) # {} => UnreadMessages(a) # {}
  <2>1. /\ Newest(Unread(a), FetchLimit) \subseteq Unread(a) /\ Oldest(Unread(a), FetchLimit) \subseteq Unread(a)
        /\ Unread(a) # {} => Oldest(Unread(a), FetchLimit) # {} /\ Newest(Unread(a), FetchLimit) # {}
    BY <1>1, <1>2, <1>4, SomeTaken
  <2>2. UnreadMentions(a) \subseteq Unread(a)
    BY DEF UnreadMentions, Oldest, Newest
  <2>3. QED
    BY <2>1, <2>2 DEF UnreadMessages
<1> DEFINE others == {i \in Unread(a) : msgs[i].from # a}
<1>6. Cardinality(others) \in Nat /\ (Cardinality(others) = 0 <=> others = {})
  <2>1. IsFiniteSet(others)
    BY <1>3, FS_Subset
  <2>2. QED
    BY <2>1, FS_CardinalityType, FS_EmptySet
<1>7. others = {} <=> \A i \in Unread(a) : msgs[i].from = a
  OBVIOUS
<1>8. UnreadCount(a) = IF marker[a] = 0 /\ Cardinality(others) > FetchLimit THEN FetchLimit
                       ELSE Cardinality(others)
  BY DEF UnreadCount
<1> HIDE DEF others
<1>9. QED
  BY <1>1, <1>2, <1>3, <1>4, <1>5, <1>6, <1>7, <1>8

\* A message is a row more.
LEMMA RowAdded ==
  ASSUME PushInv, NEW s \in Senders, NEW now \in BOOLEAN,
         NEW mentioned \in SUBSET (Recipients(s) \cap Mentionable), Send(s, now, mentioned)
  PROVE  /\ s \in Members /\ Len(msgs') = Len(msgs) + 1 /\ Len(msgs') <= MaxMsgs
         /\ Len(msgs) \in Nat /\ DOMAIN msgs = 1..Len(msgs) /\ DOMAIN msgs' = 1..(Len(msgs) + 1)
         /\ msgs' \in Seq([from : Members, now : BOOLEAN, mentions : SUBSET Members])
         /\ \A i \in DOMAIN msgs : msgs'[i] = msgs[i]
         /\ msgs'[Len(msgs) + 1].from = s
<1> DEFINE row == [from |-> s, now |-> now, mentions |-> mentioned]
<1>1. s \in Members /\ mentioned \subseteq Members
  BY MembersAssumption DEF Recipients
<1>2. row \in [from : Members, now : BOOLEAN, mentions : SUBSET Members] /\ row.from = s
  BY <1>1
<1>3. msgs' = Append(msgs, row) /\ Len(msgs) + 1 <= MaxMsgs
  BY DEF Send
<1>4. msgs \in Seq([from : Members, now : BOOLEAN, mentions : SUBSET Members])
  BY DEF PushInv, DeliveryTypeOK
<1> HIDE DEF row
<1>5. QED
  BY <1>1, <1>2, <1>3, <1>4

\* Types that grow with the rows.
LEMMA TypesGrow ==
  ASSUME NEW m \in Nat, NEW n \in Nat, m <= n
  PROVE  /\ [Members -> 0..m] \subseteq [Members -> 0..n]
         /\ [Members -> SUBSET (1..m)] \subseteq [Members -> SUBSET (1..n)]
         /\ [Members -> [ack : 0..m, cut : SUBSET (1..m)]] \subseteq
              [Members -> [ack : 0..n, cut : SUBSET (1..n)]]
<1>1. 0..m \subseteq 0..n /\ 1..m \subseteq 1..n
  OBVIOUS
<1>2. [ack : 0..m, cut : SUBSET (1..m)] \subseteq [ack : 0..n, cut : SUBSET (1..n)]
  BY <1>1
<1>3. QED
  BY <1>1, <1>2

\* The history of one agent grows by some rows.
LEMMA HistoryTypes ==
  ASSUME NEW T, NEW f \in [Members -> SUBSET T], NEW a \in Members, NEW more \in SUBSET T
  PROVE  [f EXCEPT ![a] = @ \cup more] \in [Members -> SUBSET T]
OBVIOUS

\* Each step keeps the invariant.
LEMMA SendTypes ==
  ASSUME PushInv, NEW s \in Senders, NEW now \in BOOLEAN,
         NEW mentioned \in SUBSET (Recipients(s) \cap Mentionable), Send(s, now, mentioned)
  PROVE  PushInv'
<1> DEFINE n == Len(msgs) + 1
           waiting == IF Direct THEN Recipients(s) ELSE mentioned
           plain == Recipients(s) \ waiting
<1>1. /\ s \in Members /\ Len(msgs') = n /\ n <= MaxMsgs
      /\ Len(msgs) \in Nat /\ DOMAIN msgs = 1..Len(msgs) /\ DOMAIN msgs' = 1..n
      /\ msgs' \in Seq([from : Members, now : BOOLEAN, mentions : SUBSET Members])
  BY RowAdded
<1>2. /\ handlers' = [handlers EXCEPT ![n] = waiting]
      /\ Push(plain, n)
      /\ marker' = IF waiting = {} THEN MarkOnline([marker EXCEPT ![s] = n], plain, n)
                   ELSE [marker EXCEPT ![s] = n]
      /\ excused' = IF s \in online THEN excused ELSE [excused EXCEPT ![s] = @ \cup Unread(s)]
      /\ UNCHANGED <<streams, pull, batching, restarts, summarised>>
  BY DEF Send
<1>3. waiting \in SUBSET Members /\ plain \in SUBSET Members
  BY DEF Recipients
<1> HIDE DEF waiting, plain
<1>4. /\ timers' \subseteq [to : Members, msg : 1..n] /\ buffer' \in [Members -> SUBSET (1..n)]
      /\ flushTimer' \in [Members -> BOOLEAN] /\ received' \in [Members -> SUBSET (1..n)]
      /\ IF batching THEN timers' = {} ELSE buffer' = NoOne
  <2>1. n \in Nat /\ Len(msgs) <= n /\ n \in 1..n
    BY <1>1
  <2>2. QED
    BY <1>2, <1>3, <2>1, PushKeeps
<1>5. /\ marker \in [Members -> 0..n] /\ excused \in [Members -> SUBSET (1..n)]
      /\ summarised \in [Members -> SUBSET (1..n)]
      /\ pull \in [Members -> [ack : 0..n, cut : SUBSET (1..n)]]
  <2>1. Len(msgs) <= n /\ n \in Nat
    BY <1>1
  <2>2. QED
    BY <1>1, <2>1, TypesGrow DEF PushInv, DeliveryTypeOK
<1>6. marker' \in [Members -> 0..n]
  BY <1>1, <1>2, <1>5 DEF MarkOnline
<1>7. excused' \in [Members -> SUBSET (1..n)]
  <2>1. Unread(s) \subseteq 1..n
    BY <1>1 DEF Unread
  <2>2. QED
    BY <1>2, <1>5, <2>1
<1>8. n \in Ids
  BY <1>1, DeliveryAssumption DEF Ids
<1>9. handlers' \in [Ids -> SUBSET Members]
  BY <1>2, <1>3, <1>8 DEF PushInv, DeliveryTypeOK
<1>10. \A i \in Ids : handlers'[i] # {} => i \in 1..n
  BY <1>1, <1>2, <1>8 DEF PushInv, DeliveryTypeOK
<1> HIDE DEF n
<1>11. DeliveryTypeOK'
  BY <1>1, <1>2, <1>4, <1>5, <1>6, <1>7, <1>9 DEF PushInv, DeliveryTypeOK
<1>12. QED
  BY <1>1, <1>10, <1>11 DEF PushInv

LEMMA InjectedTypes ==
  ASSUME PushInv, NEW i \in Ids, Injected(i)
  PROVE  PushInv'
<1>1. PICK a \in handlers[i] :
        /\ handlers' = [handlers EXCEPT ![i] = @ \ {a}]
        /\ Push({a}, i)
        /\ marker' = IF handlers[i] = {a} THEN MarkOnline(marker, Recipients(msgs[i].from), i)
                     ELSE marker
        /\ UNCHANGED <<msgs, streams, pull, batching, restarts, summarised, excused>>
  BY DEF Injected
<1>2. /\ handlers \in [Ids -> SUBSET Members] /\ marker \in [Members -> 0..Len(msgs)]
      /\ DOMAIN msgs = 1..Len(msgs) /\ Len(msgs) \in Nat
  BY DEF PushInv, DeliveryTypeOK
<1>3. a \in Members /\ i \in 1..Len(msgs)
  BY <1>2 DEF PushInv
<1>4. /\ timers' \subseteq [to : Members, msg : 1..Len(msgs)]
      /\ buffer' \in [Members -> SUBSET (1..Len(msgs))]
      /\ flushTimer' \in [Members -> BOOLEAN] /\ received' \in [Members -> SUBSET (1..Len(msgs))]
      /\ IF batching THEN timers' = {} ELSE buffer' = NoOne
  <2>1. {a} \in SUBSET Members /\ Len(msgs) <= Len(msgs)
    BY <1>2, <1>3
  <2>2. QED
    BY <1>1, <1>2, <1>3, <2>1, PushKeeps
<1>5. marker' \in [Members -> 0..Len(msgs)]
  <2>1. i \in 0..Len(msgs)
    BY <1>2, <1>3
  <2>2. QED
    BY <1>1, <1>2, <2>1 DEF MarkOnline
<1>6. /\ handlers' \in [Ids -> SUBSET Members]
      /\ \A k \in Ids : handlers'[k] # {} => k \in 1..Len(msgs)
  BY <1>1, <1>2 DEF PushInv
<1>7. DeliveryTypeOK'
  BY <1>1, <1>2, <1>4, <1>5, <1>6 DEF PushInv, DeliveryTypeOK
<1>8. QED
  BY <1>1, <1>6, <1>7 DEF PushInv

LEMMA ConnectTypes ==
  ASSUME PushInv, NEW a \in Members, Connect(a)
  PROVE  PushInv'
<1>1. /\ streams[a] < MaxStreams
      /\ streams' = [streams EXCEPT ![a] = @ + 1]
      /\ UNCHANGED <<msgs, handlers, pushVars, pull, batching, restarts>>
  BY DEF Connect
<1>2. /\ DOMAIN msgs = 1..Len(msgs) /\ Len(msgs) \in Nat
      /\ Unread(a) \subseteq 1..Len(msgs) /\ UnreadMessages(a) \subseteq Unread(a)
      /\ UnreadMentions(a) \subseteq Unread(a)
      /\ UnreadCount(a) # 0 => UnreadMessages(a) # {}
  BY UnreadRows
<1>3. /\ marker \in [Members -> 0..Len(msgs)] /\ received \in [Members -> SUBSET (1..Len(msgs))]
      /\ summarised \in [Members -> SUBSET (1..Len(msgs))]
      /\ excused \in [Members -> SUBSET (1..Len(msgs))]
  BY <1>2 DEF PushInv, DeliveryTypeOK
<1> DEFINE Reads ==
             /\ marker' \in [Members -> 0..Len(msgs)] /\ received' \in [Members -> SUBSET (1..Len(msgs))]
             /\ summarised' \in [Members -> SUBSET (1..Len(msgs))]
             /\ excused' \in [Members -> SUBSET (1..Len(msgs))]
<1>4. ASSUME Skip(a) PROVE Reads
  BY <1>2, <1>3, <1>4, HistoryTypes DEF Skip
<1>5. ASSUME UNCHANGED <<marker, historyVars>> PROVE Reads
  BY <1>3, <1>5 DEF historyVars
<1>6. ASSUME NEW left \in 1..MaxPushes, NEW first, UnreadCount(a) \in 1..SummaryThreshold,
             Replay(a, first, left)
      PROVE  Reads
  <2> DEFINE missed == UnreadMessages(a)
             urgent == {i \in missed : msgs[i].now /\ i >= first}
             sent   == Oldest(urgent, left)
             others == missed \ urgent
             rest   == IF batching /\ Cardinality(others) > 1 THEN others
                       ELSE Oldest(others, left - Cardinality(sent))
             last   == IF rest # {} THEN Max(rest) ELSE Max(sent)
  <2>1. /\ received' = [received EXCEPT ![a] = @ \cup sent \cup rest]
        /\ marker' = [marker EXCEPT ![a] = last]
        /\ excused' = [excused EXCEPT ![a] = @ \cup CutOff(a, left)]
        /\ summarised' = summarised
    BY <1>6 DEF Replay
  <2>2. missed # {} /\ missed \in SUBSET (1..Len(msgs)) /\ left \in Nat /\ left # 0
    <3>1. UnreadCount(a) # 0
      BY <1>6
    <3>2. QED
      BY <1>2, <3>1, <1>6, DeliveryAssumption
  <2>3. urgent \in SUBSET (1..Len(msgs)) /\ others \in SUBSET (1..Len(msgs)) /\ missed = urgent \cup others
    BY <2>2
  <2> HIDE DEF missed, urgent, others
  <2>4. sent \in SUBSET (1..Len(msgs)) /\ (urgent # {} => sent # {})
    BY <1>2, <2>2, <2>3, SomeTaken
  <2>5. rest \in SUBSET (1..Len(msgs))
    BY <2>3 DEF Oldest
  <2>6. rest # {} \/ sent # {}
    <3>1. SUFFICES ASSUME sent = {} PROVE rest # {}
      OBVIOUS
    <3>2. others # {} /\ left - Cardinality(sent) = left
      BY <2>2, <2>3, <2>4, <3>1, FS_EmptySet
    <3>3. Oldest(others, left) # {}
      BY <1>2, <2>2, <2>3, <3>2, SomeTaken
    <3>4. QED
      BY <3>2, <3>3
  <2> HIDE DEF sent, rest
  <2>7. last \in 1..Len(msgs)
    <3>1. rest # {} => Max(rest) \in rest
      BY <1>2, <2>5, MaxOfRows
    <3>2. sent # {} => Max(sent) \in sent
      BY <1>2, <2>4, MaxOfRows
    <3>3. QED
      BY <2>4, <2>5, <2>6, <3>1, <3>2
  <2>8. CutOff(a, left) \subseteq 1..Len(msgs)
    BY <1>2 DEF CutOff
  <2> HIDE DEF last
  <2>9. received' \in [Members -> SUBSET (1..Len(msgs))]
    <3>1. sent \cup rest \in SUBSET (1..Len(msgs)) /\ received' = [received EXCEPT ![a] = @ \cup (sent \cup rest)]
      BY <2>1, <2>4, <2>5
    <3>2. QED
      BY <1>3, <3>1, HistoryTypes
  <2>10. excused' \in [Members -> SUBSET (1..Len(msgs))]
    BY <1>3, <2>1, <2>8, HistoryTypes
  <2>11. marker' \in [Members -> 0..Len(msgs)]
    BY <1>2, <1>3, <2>1, <2>7
  <2>12. QED
    BY <1>3, <2>1, <2>9, <2>10, <2>11
<1>7. ASSUME NEW left \in 1..MaxPushes, Summarise(a, left)
      PROVE  Reads
  <2> DEFINE sent == Oldest(UnreadMentions(a), left)
  <2>1. /\ received' = [received EXCEPT ![a] = @ \cup sent]
        /\ summarised' = [summarised EXCEPT ![a] = @ \cup Unread(a)]
        /\ marker' = IF sent = {} THEN marker ELSE [marker EXCEPT ![a] = Max(sent)]
        /\ excused' = excused
    BY <1>7 DEF Summarise
  <2>2. sent \in SUBSET (1..Len(msgs))
    BY <1>2 DEF Oldest
  <2> HIDE DEF sent
  <2>3. sent # {} => Max(sent) \in 1..Len(msgs)
    BY <1>2, <2>2, MaxOfRows
  <2>4. /\ received' \in [Members -> SUBSET (1..Len(msgs))]
        /\ summarised' \in [Members -> SUBSET (1..Len(msgs))]
    BY <1>2, <1>3, <2>1, <2>2, HistoryTypes
  <2>5. marker' \in [Members -> 0..Len(msgs)]
    BY <1>2, <1>3, <2>1, <2>3
  <2>6. QED
    BY <1>3, <2>1, <2>4, <2>5
<1>8. Reads
  BY <1>4, <1>5, <1>6, <1>7 DEF Connect
<1>9. streams' \in [Members -> 0..MaxStreams]
  BY <1>1, DeliveryAssumption DEF PushInv, DeliveryTypeOK
<1> HIDE DEF Reads
<1>10. DeliveryTypeOK'
  BY <1>1, <1>2, <1>8, <1>9 DEF PushInv, DeliveryTypeOK, pushVars, Reads
<1>11. QED
  BY <1>1, <1>10 DEF PushInv

LEMMA InboxTypes ==
  ASSUME PushInv, NEW a \in Members, InboxGet(a) \/ InboxAck(a)
  PROVE  PushInv'
<1>1. /\ DOMAIN msgs = 1..Len(msgs) /\ Len(msgs) \in Nat
      /\ Unread(a) \subseteq 1..Len(msgs) /\ UnreadMessages(a) \subseteq Unread(a)
      /\ UnreadMentions(a) \subseteq Unread(a) /\ (UnreadCount(a) # 0 => Unread(a) # {})
  BY UnreadRows
<1>2. /\ marker \in [Members -> 0..Len(msgs)] /\ received \in [Members -> SUBSET (1..Len(msgs))]
      /\ summarised \in [Members -> SUBSET (1..Len(msgs))]
      /\ excused \in [Members -> SUBSET (1..Len(msgs))]
      /\ pull \in [Members -> [ack : 0..Len(msgs), cut : SUBSET (1..Len(msgs))]]
  BY <1>1 DEF PushInv, DeliveryTypeOK
<1>3. CASE InboxGet(a)
  <2> DEFINE quiet == UnreadCount(a) <= SummaryThreshold
             recent == IF DetailLimit < RecentLimit THEN DetailLimit ELSE RecentLimit
             listed == IF quiet THEN Newest(UnreadMessages(a), DetailLimit)
                      ELSE Newest(UnreadMentions(a), DetailLimit) \cup Newest(DOMAIN msgs, recent)
             cut == IF quiet THEN CutOff(a, DetailLimit) ELSE {}
             counted == IF quiet THEN {} ELSE Unread(a)
  <2>1. /\ UnreadCount(a) > 0
        /\ received' = [received EXCEPT ![a] = @ \cup listed]
        /\ summarised' = [summarised EXCEPT ![a] = @ \cup counted]
        /\ pull' = [pull EXCEPT ![a] = [ack |-> Max(Unread(a)), cut |-> cut]]
        /\ UNCHANGED <<msgs, marker, streams, handlers, pushVars, batching, restarts, excused>>
    BY <1>3 DEF InboxGet
  <2>2. listed \subseteq 1..Len(msgs) /\ cut \subseteq 1..Len(msgs) /\ counted \subseteq 1..Len(msgs)
    BY <1>1 DEF Newest, CutOff
  <2>3. Max(Unread(a)) \in 1..Len(msgs)
    <3>1. UnreadCount(a) # 0
      BY <2>1
    <3>2. QED
      BY <1>1, <3>1, MaxOfRows
  <2> HIDE DEF listed, cut, counted, quiet
  <2>4. /\ received' \in [Members -> SUBSET (1..Len(msgs))]
        /\ summarised' \in [Members -> SUBSET (1..Len(msgs))]
    BY <1>2, <2>1, <2>2, HistoryTypes
  <2>5. pull' \in [Members -> [ack : 0..Len(msgs), cut : SUBSET (1..Len(msgs))]]
    <3>1. [ack |-> Max(Unread(a)), cut |-> cut] \in [ack : 0..Len(msgs), cut : SUBSET (1..Len(msgs))]
      BY <1>1, <2>2, <2>3
    <3>2. QED
      BY <1>2, <2>1, <3>1
  <2>6. DeliveryTypeOK'
    BY <1>1, <2>1, <2>4, <2>5 DEF PushInv, DeliveryTypeOK, pushVars
  <2>7. QED
    BY <2>1, <2>6 DEF PushInv
<1>4. CASE InboxAck(a)
  <2>1. /\ marker' = [marker EXCEPT ![a] = pull[a].ack]
        /\ excused' = [excused EXCEPT ![a] = @ \cup pull[a].cut]
        /\ pull' = [pull EXCEPT ![a] = NoPull]
        /\ UNCHANGED <<msgs, streams, handlers, pushVars, batching, restarts, received, summarised>>
    BY <1>4 DEF InboxAck
  <2>2. NoPull \in [ack : 0..Len(msgs), cut : SUBSET (1..Len(msgs))]
    BY <1>1 DEF NoPull
  <2>3. pull[a].ack \in 0..Len(msgs) /\ pull[a].cut \in SUBSET (1..Len(msgs))
    BY <1>2
  <2>4. /\ marker' \in [Members -> 0..Len(msgs)] /\ excused' \in [Members -> SUBSET (1..Len(msgs))]
        /\ pull' \in [Members -> [ack : 0..Len(msgs), cut : SUBSET (1..Len(msgs))]]
    BY <1>2, <2>1, <2>2, <2>3, HistoryTypes
  <2>5. DeliveryTypeOK'
    BY <1>1, <2>1, <2>4 DEF PushInv, DeliveryTypeOK, pushVars
  <2>6. QED
    BY <2>1, <2>5 DEF PushInv
<1>5. QED
  BY <1>3, <1>4

LEMMA EndTypes ==
  ASSUME PushInv, (\E a \in Members : Disconnect(a)) \/ ServerRestart
  PROVE  PushInv'
<1>1. DOMAIN msgs = 1..Len(msgs) /\ Len(msgs) \in Nat
  BY DEF PushInv, DeliveryTypeOK
<1>2. \A a \in Members : Ahead(a) \subseteq DOMAIN msgs
  BY DEF Ahead
<1>3. excused \in [Members -> SUBSET DOMAIN msgs] /\ streams \in [Members -> 0..MaxStreams]
  BY DEF PushInv, DeliveryTypeOK
<1>4. ASSUME NEW a \in Members, Disconnect(a)
      PROVE  PushInv'
  <2>1. /\ streams[a] > 0 /\ streams' = [streams EXCEPT ![a] = @ - 1]
        /\ UNCHANGED <<msgs, marker, handlers, timers, pull, batching, restarts, received, summarised>>
    BY <1>4 DEF Disconnect
  <2>2. excused' \in [Members -> SUBSET DOMAIN msgs]
    <3>1. excused' = excused \/ excused' = [excused EXCEPT ![a] = @ \cup Ahead(a)]
      BY <1>4 DEF Disconnect
    <3>2. Ahead(a) \in SUBSET DOMAIN msgs
      BY <1>2
    <3>3. [excused EXCEPT ![a] = @ \cup Ahead(a)] \in [Members -> SUBSET DOMAIN msgs]
      BY <1>3, <3>2, HistoryTypes
    <3>4. QED
      BY <1>3, <3>1, <3>3
  <2>3. streams' \in [Members -> 0..MaxStreams]
    BY <1>3, <2>1, DeliveryAssumption
  <2>4. /\ buffer' \in [Members -> SUBSET DOMAIN msgs] /\ flushTimer' \in [Members -> BOOLEAN]
        /\ buffer = NoOne => buffer' = NoOne
    BY <1>4 DEF Disconnect, PushInv, DeliveryTypeOK, NoOne
  <2>5. DeliveryTypeOK'
    BY <2>1, <2>2, <2>3, <2>4 DEF PushInv, DeliveryTypeOK
  <2>6. QED
    BY <2>1, <2>5 DEF PushInv
<1>5. ASSUME ServerRestart
      PROVE  PushInv'
  <2>1. /\ restarts < MaxRestarts /\ restarts' = restarts + 1
        /\ streams' = [a \in Members |-> 0] /\ handlers' = [i \in Ids |-> {}]
        /\ timers' = {} /\ buffer' = NoOne /\ flushTimer' = [a \in Members |-> FALSE]
        /\ excused' = [a \in Members |-> excused[a] \cup Ahead(a)]
        /\ UNCHANGED <<batching, msgs, marker, pull, received, summarised>>
    BY <1>5 DEF ServerRestart
  <2>2. excused' \in [Members -> SUBSET DOMAIN msgs]
    BY <1>2, <1>3, <2>1
  <2>3. restarts' \in 0..MaxRestarts /\ streams' \in [Members -> 0..MaxStreams]
    BY <2>1, DeliveryAssumption DEF PushInv, DeliveryTypeOK
  <2>4. buffer' \in [Members -> SUBSET DOMAIN msgs]
    BY <2>1 DEF NoOne
  <2>5. DeliveryTypeOK'
    BY <2>1, <2>2, <2>3, <2>4 DEF PushInv, DeliveryTypeOK
  <2>6. QED
    BY <2>1, <2>5 DEF PushInv
<1>6. QED
  BY <1>4, <1>5

LEMMA TimerTypes ==
  ASSUME PushInv, (\E t \in timers : TimerFires(t)) \/ (\E a \in Members : FlushBatch(a))
  PROVE  PushInv'
<1>1. /\ timers \subseteq [to : Members, msg : DOMAIN msgs] /\ buffer \in [Members -> SUBSET DOMAIN msgs]
      /\ received \in [Members -> SUBSET DOMAIN msgs] /\ flushTimer \in [Members -> BOOLEAN]
      /\ IF batching THEN timers = {} ELSE buffer = NoOne
  BY DEF PushInv, DeliveryTypeOK
<1>2. ASSUME NEW t \in timers, TimerFires(t)
      PROVE  PushInv'
  <2>1. /\ timers' = timers \ {t}
        /\ received' = [a \in Members |->
             IF a \in online THEN received[a] \cup [b \in Members |-> IF b = t.to THEN {t.msg} ELSE {}][a]
             ELSE received[a]]
        /\ UNCHANGED <<msgs, marker, streams, handlers, buffer, flushTimer, pull, batching, restarts,
                       summarised, excused>>
    BY <1>2 DEF TimerFires, Carry
  <2>2. t.msg \in DOMAIN msgs
    BY <1>1
  <2>3. received' \in [Members -> SUBSET DOMAIN msgs]
    BY <1>1, <2>1, <2>2
  <2>4. timers' \subseteq [to : Members, msg : DOMAIN msgs] /\ IF batching THEN timers' = {} ELSE buffer' = NoOne
    BY <1>1, <2>1
  <2>5. DeliveryTypeOK'
    BY <2>1, <2>3, <2>4 DEF PushInv, DeliveryTypeOK
  <2>6. QED
    BY <2>1, <2>5 DEF PushInv
<1>3. ASSUME NEW a \in Members, FlushBatch(a)
      PROVE  PushInv'
  <2>1. /\ received' = [b \in Members |->
             IF b \in online THEN received[b] \cup [NoOne EXCEPT ![a] = buffer[a]][b] ELSE received[b]]
        /\ buffer' = [buffer EXCEPT ![a] = {}] /\ flushTimer' = [flushTimer EXCEPT ![a] = FALSE]
        /\ UNCHANGED <<msgs, marker, streams, handlers, timers, pull, batching, restarts,
                       summarised, excused>>
    BY <1>3 DEF FlushBatch, Carry
  <2>2. [NoOne EXCEPT ![a] = buffer[a]] \in [Members -> SUBSET DOMAIN msgs]
    BY <1>1 DEF NoOne
  <2>3. received' \in [Members -> SUBSET DOMAIN msgs]
    BY <1>1, <2>1, <2>2
  <2>4. /\ buffer' \in [Members -> SUBSET DOMAIN msgs] /\ flushTimer' \in [Members -> BOOLEAN]
        /\ buffer = NoOne => buffer' = NoOne
    BY <1>1, <2>1 DEF NoOne
  <2>5. DeliveryTypeOK'
    BY <1>1, <2>1, <2>3, <2>4 DEF PushInv, DeliveryTypeOK
  <2>6. QED
    BY <2>1, <2>5 DEF PushInv
<1>4. QED
  BY <1>2, <1>3

LEMMA PushNext == PushInv /\ [DeliveryNext]_deliveryVars => PushInv'
<1> SUFFICES ASSUME PushInv, [DeliveryNext]_deliveryVars PROVE PushInv'
  OBVIOUS
<1>1. CASE UNCHANGED deliveryVars
  BY <1>1 DEF deliveryVars, PushInv, DeliveryTypeOK
<1>2. CASE DeliveryNext
  BY <1>2, SendTypes, InjectedTypes, TimerTypes, ConnectTypes, EndTypes, InboxTypes, MembersAssumption
     DEF DeliveryNext, Sending, Scheduled
<1>3. QED
  BY <1>1, <1>2

\* A push that a step ends for an agent that stays connected is on the agent's stream.
LEMMA PushesEnd ==
  ASSUME PushInv, DeliveryNext, NEW a \in online, a \in online', NEW i \in Ids, InFlight(a, i)
  PROVE  InFlight(a, i)' \/ i \in received'[a]
<1>1. /\ a \in Members /\ streams[a] > 0 /\ DOMAIN msgs = 1..Len(msgs) /\ Len(msgs) \in Nat
      /\ handlers \in [Ids -> SUBSET Members] /\ buffer \in [Members -> SUBSET DOMAIN msgs]
  BY DEF online, PushInv, DeliveryTypeOK
<1>2. ASSUME NEW to \in SUBSET Members, NEW n \in Nat, Len(msgs) <= n, NEW j \in 1..n, Push(to, j),
             [to |-> a, msg |-> i] \in timers \/ i \in buffer[a] \/ (i = j /\ a \in to)
      PROVE  InFlight(a, i)' \/ i \in received'[a]
  BY <1>1, <1>2, PushKeeps DEF InFlight
<1>3. ASSUME NEW s \in Senders, NEW now \in BOOLEAN,
             NEW mentioned \in SUBSET (Recipients(s) \cap Mentionable), Send(s, now, mentioned)
      PROVE  InFlight(a, i)' \/ i \in received'[a]
  <2> DEFINE n == Len(msgs) + 1
             waiting == IF Direct THEN Recipients(s) ELSE mentioned
  <2>1. handlers' = [handlers EXCEPT ![n] = waiting] /\ Push(Recipients(s) \ waiting, n)
    BY <1>3 DEF Send
  <2>2. CASE a \in handlers[i]
    <3>1. i # n
      BY <1>1, <2>2 DEF PushInv
    <3>2. handlers'[i] = handlers[i]
      BY <1>1, <2>1, <3>1
    <3>3. QED
      BY <2>2, <3>2 DEF InFlight
  <2>3. CASE [to |-> a, msg |-> i] \in timers \/ i \in buffer[a]
    <3>1. n \in Nat /\ Len(msgs) <= n /\ n \in 1..n /\ Recipients(s) \ waiting \in SUBSET Members
      BY <1>1 DEF Recipients
    <3>2. QED
      BY <1>2, <2>1, <2>3, <3>1
  <2>4. QED
    BY <2>2, <2>3 DEF InFlight
<1>4. ASSUME NEW j \in Ids, Injected(j)
      PROVE  InFlight(a, i)' \/ i \in received'[a]
  <2>1. PICK b \in handlers[j] : handlers' = [handlers EXCEPT ![j] = @ \ {b}] /\ Push({b}, j)
    BY <1>4 DEF Injected
  <2>2. b \in Members /\ j \in 1..Len(msgs)
    BY <1>1, <2>1 DEF PushInv
  <2>3. CASE a \in handlers[i] /\ ~(i = j /\ a = b)
    <3>1. a \in handlers'[i]
      BY <1>1, <2>1, <2>3
    <3>2. QED
      BY <3>1 DEF InFlight
  <2>4. CASE [to |-> a, msg |-> i] \in timers \/ i \in buffer[a] \/ (i = j /\ a = b)
    <3>1. {b} \in SUBSET Members /\ Len(msgs) <= Len(msgs)
      BY <1>1, <2>2
    <3>2. QED
      BY <1>1, <1>2, <2>1, <2>2, <2>4, <3>1
  <2>5. QED
    BY <2>3, <2>4 DEF InFlight
<1>5. ASSUME NEW t \in timers, TimerFires(t)
      PROVE  InFlight(a, i)' \/ i \in received'[a]
  <2>1. CASE t = [to |-> a, msg |-> i]
    <3>1. t.to = a /\ t.msg = i
      BY <2>1
    <3>2. received'[a] = received[a] \cup {i}
      BY <1>1, <1>5, <3>1 DEF TimerFires, Carry
    <3>3. QED
      BY <3>2
  <2>2. CASE t # [to |-> a, msg |-> i]
    BY <1>5, <2>2 DEF TimerFires, InFlight
  <2>3. QED
    BY <2>1, <2>2
<1>6. ASSUME NEW b \in Members, FlushBatch(b)
      PROVE  InFlight(a, i)' \/ i \in received'[a]
  <2>1. CASE b = a
    <3>1. received'[a] = received[a] \cup buffer[a] /\ handlers' = handlers /\ timers' = timers
      BY <1>1, <1>6, <2>1 DEF FlushBatch, Carry, NoOne
    <3>2. QED
      BY <3>1 DEF InFlight
  <2>2. CASE b # a
    BY <1>6, <2>2 DEF FlushBatch, InFlight
  <2>3. QED
    BY <2>1, <2>2
<1>7. ASSUME NEW b \in Members, Connect(b)
      PROVE  InFlight(a, i)' \/ i \in received'[a]
  BY <1>7 DEF Connect, pushVars, InFlight
<1>8. ASSUME NEW b \in Members, Disconnect(b)
      PROVE  InFlight(a, i)' \/ i \in received'[a]
  <2>1. buffer'[a] = buffer[a]
    <3>1. streams' = [streams EXCEPT ![b] = @ - 1] /\ streams'[a] > 0
      BY <1>8 DEF Disconnect, online
    <3>2. streams \in [Members -> 0..MaxStreams] /\ MaxStreams \in Nat
      BY DeliveryAssumption DEF PushInv, DeliveryTypeOK
    <3>3. a # b \/ streams[b] # 1
      BY <1>1, <3>1, <3>2
    <3>4. CASE streams[b] # 1
      BY <1>8, <3>4 DEF Disconnect
    <3>5. CASE a # b
      <4>1. buffer' = [buffer EXCEPT ![b] = {}] \/ buffer' = buffer
        BY <1>8 DEF Disconnect
      <4>2. QED
        BY <1>1, <3>5, <4>1
    <3>6. QED
      BY <3>3, <3>4, <3>5
  <2>2. QED
    BY <1>8, <2>1 DEF Disconnect, InFlight
<1>9. ASSUME NEW b \in Pullers, InboxGet(b) \/ InboxAck(b)
      PROVE  InFlight(a, i)' \/ i \in received'[a]
  BY <1>9 DEF InboxGet, InboxAck, pushVars, InFlight
<1>10. ASSUME ServerRestart
       PROVE  InFlight(a, i)' \/ i \in received'[a]
  BY <1>1, <1>10 DEF ServerRestart, online
<1>11. QED
  BY <1>3, <1>4, <1>5, <1>6, <1>7, <1>8, <1>9, <1>10, MembersAssumption
     DEF DeliveryNext, Sending, Scheduled

\* A push in flight is not dropped while its recipient stays connected: whatever other
\* pushes, flushes and sends of any number of agents come between, it ends on the stream.
THEOREM PushesArrive == DeliverySpec => PushesNotDropped
<1>1. PushInv /\ [DeliveryNext]_deliveryVars =>
        [\A a \in online \cap online', i \in Ids :
           (InFlight(a, i) /\ ~InFlight(a, i)') => i \in received'[a]]_deliveryVars
  BY PushesEnd
<1>2. QED
  BY <1>1, PushInit, PushNext, PTL DEF DeliverySpec, PushesNotDropped

----------------------------------------------------------------------------
(* Delivery: the read markers *)

\* What an agent needs no message for: its own, what it was given or told of, what is on
\* the way to it while it is connected, and the exceptions.
Covered(a, i) ==
  \/ msgs[i].from = a
  \/ i \in received[a] \cup summarised[a] \cup excused[a]
  \/ a \in online /\ InFlight(a, i)

\* What lies behind the marker is covered; so is what an inbox answer names, unless it had
\* no room for it; and for an agent that is connected everything is, wherever its marker
\* may be moved to.
MarkedCovered == \A a \in Members, i \in DOMAIN msgs : i <= marker[a] => Covered(a, i)
PulledCovered ==
  \A a \in Members, i \in DOMAIN msgs : i <= pull[a].ack => Covered(a, i) \/ i \in pull[a].cut
OnlineCovered == \A a \in online, i \in DOMAIN msgs : Covered(a, i)

ReadInv == PushInv /\ MarkedCovered /\ PulledCovered /\ OnlineCovered

LEMMA ReadInit == DeliveryInit => ReadInv
<1> SUFFICES ASSUME DeliveryInit PROVE ReadInv
  OBVIOUS
<1>1. DOMAIN msgs = {}
  BY DEF DeliveryInit
<1>2. QED
  BY <1>1, PushInit DEF ReadInv, MarkedCovered, PulledCovered, OnlineCovered

\* No step takes a row, or anything from a history.
LEMMA HistoryGrows ==
  ASSUME PushInv, DeliveryNext, NEW a \in Members
  PROVE  /\ received[a] \subseteq received'[a]
         /\ summarised[a] \subseteq summarised'[a] /\ excused[a] \subseteq excused'[a]
         /\ \A i \in DOMAIN msgs : i \in DOMAIN msgs' /\ msgs'[i] = msgs[i]
<1> DEFINE Grows ==
             /\ received[a] \subseteq received'[a]
             /\ summarised[a] \subseteq summarised'[a] /\ excused[a] \subseteq excused'[a]
             /\ \A i \in DOMAIN msgs : i \in DOMAIN msgs' /\ msgs'[i] = msgs[i]
<1>1. /\ received \in [Members -> SUBSET DOMAIN msgs] /\ summarised \in [Members -> SUBSET DOMAIN msgs]
      /\ excused \in [Members -> SUBSET DOMAIN msgs]
      /\ DOMAIN msgs = 1..Len(msgs) /\ Len(msgs) \in Nat
      /\ handlers \in [Ids -> SUBSET Members]
  BY DEF PushInv, DeliveryTypeOK
<1>2. ASSUME NEW s \in Senders, NEW now \in BOOLEAN,
             NEW mentioned \in SUBSET (Recipients(s) \cap Mentionable), Send(s, now, mentioned)
      PROVE  Grows
  <2>1. \A i \in DOMAIN msgs : i \in DOMAIN msgs' /\ msgs'[i] = msgs[i]
    BY <1>2, RowAdded
  <2>2. summarised' = summarised /\ excused[a] \subseteq excused'[a]
    BY <1>1, <1>2 DEF Send
  <2>3. PICK to \in SUBSET Members : Push(to, Len(msgs) + 1)
    BY <1>2 DEF Send, Recipients
  <2>4. received[a] \subseteq received'[a]
    <3>1. Len(msgs) + 1 \in Nat /\ Len(msgs) <= Len(msgs) + 1 /\ Len(msgs) + 1 \in 1..(Len(msgs) + 1)
      BY <1>1
    <3>2. QED
      BY <2>3, <3>1, PushKeeps
  <2>5. QED
    BY <2>1, <2>2, <2>4
<1>3. ASSUME NEW j \in Ids, Injected(j)
      PROVE  Grows
  <2>1. PICK b \in handlers[j] : Push({b}, j)
    BY <1>3 DEF Injected
  <2>2. b \in Members /\ j \in 1..Len(msgs)
    BY <1>1, <2>1 DEF PushInv
  <2>3. received[a] \subseteq received'[a]
    <3>1. {b} \in SUBSET Members /\ Len(msgs) <= Len(msgs)
      BY <1>1, <2>2
    <3>2. QED
      BY <1>1, <2>1, <2>2, <3>1, PushKeeps
  <2>4. msgs' = msgs /\ summarised' = summarised /\ excused' = excused
    BY <1>3 DEF Injected
  <2>5. QED
    BY <2>3, <2>4
<1>4. ASSUME (\E t \in timers : TimerFires(t)) \/ (\E b \in Members : FlushBatch(b))
      PROVE  Grows
  BY <1>4 DEF TimerFires, FlushBatch, Carry
<1>5. ASSUME NEW b \in Members, Connect(b)
      PROVE  Grows
  <2>1. msgs' = msgs
    BY <1>5 DEF Connect
  <2>2. CASE Skip(b) \/ UNCHANGED <<marker, historyVars>>
    BY <1>1, <2>1, <2>2 DEF Skip, historyVars
  <2>3. ASSUME NEW first, NEW left, Replay(b, first, left) PROVE Grows
    BY <1>1, <2>1, <2>3 DEF Replay
  <2>4. ASSUME NEW left, Summarise(b, left) PROVE Grows
    BY <1>1, <2>1, <2>4 DEF Summarise
  <2>5. QED
    BY <1>5, <2>2, <2>3, <2>4 DEF Connect
<1>6. ASSUME NEW b \in Members, Disconnect(b)
      PROVE  Grows
  BY <1>1, <1>6 DEF Disconnect
<1>7. ASSUME NEW b \in Members, InboxGet(b)
      PROVE  Grows
  BY <1>1, <1>7 DEF InboxGet
<1>8. ASSUME NEW b \in Members, InboxAck(b)
      PROVE  Grows
  BY <1>1, <1>8 DEF InboxAck
<1>9. ASSUME ServerRestart
      PROVE  Grows
  BY <1>9 DEF ServerRestart
<1>10. QED
  BY <1>2, <1>3, <1>4, <1>5, <1>6, <1>7, <1>8, <1>9, MembersAssumption DEF DeliveryNext, Sending, Scheduled

\* What is covered stays so, as long as the agent does not lose its last stream.
LEMMA CoveredStays ==
  ASSUME PushInv, DeliveryNext, NEW a \in Members, a \in online => a \in online',
         NEW i \in DOMAIN msgs, Covered(a, i)
  PROVE  Covered(a, i)'
<1>1. i \in Ids
  <2>1. DOMAIN msgs = 1..Len(msgs) /\ Len(msgs) \in Nat /\ Len(msgs) <= MaxMsgs
    BY DEF PushInv, DeliveryTypeOK
  <2>2. QED
    BY <2>1, DeliveryAssumption DEF Ids
<1>2. CASE msgs[i].from = a \/ i \in received[a] \cup summarised[a] \cup excused[a]
  BY <1>2, HistoryGrows DEF Covered
<1>3. CASE a \in online /\ InFlight(a, i)
  BY <1>1, <1>3, PushesEnd DEF Covered
<1>4. QED
  BY <1>2, <1>3 DEF Covered

\* A step in which no stream opens and no row is added: markers move for agents that stay
\* connected only, and an agent that loses its last stream is excused what is ahead of it.
LEMMA StreamsEnd ==
  ASSUME ReadInv, DeliveryNext, online' \subseteq online, UNCHANGED <<msgs, pull>>,
         \A a \in Members : marker'[a] = marker[a] \/ a \in online',
         \A a \in online \ online' : Ahead(a) \subseteq excused'[a]
  PROVE  MarkedCovered' /\ PulledCovered' /\ OnlineCovered'
<1>1. PushInv
  BY DEF ReadInv
<1>2. ASSUME NEW a \in Members, a \in online => a \in online', NEW i \in DOMAIN msgs, Covered(a, i)
      PROVE  Covered(a, i)'
  BY <1>1, <1>2, CoveredStays
<1>3. OnlineCovered'
  BY <1>2 DEF ReadInv, OnlineCovered, online
<1>4. ASSUME NEW a \in Members, a \in online, a \notin online', NEW i \in DOMAIN msgs, Covered(a, i),
             i <= marker[a] \/ i <= pull[a].ack
      PROVE  Covered(a, i)'
  <2>1. CASE InFlight(a, i)
    BY <1>4, <2>1 DEF Ahead, Covered
  <2>2. CASE ~InFlight(a, i)
    BY <1>1, <1>4, <2>2, HistoryGrows DEF Covered
  <2>3. QED
    BY <2>1, <2>2
<1>5. MarkedCovered'
  <2>1. ASSUME NEW a \in Members, NEW i \in DOMAIN msgs, i <= marker'[a]
        PROVE  Covered(a, i)'
    <3>1. CASE a \in online'
      BY <1>3, <3>1 DEF OnlineCovered
    <3>2. CASE a \notin online'
      <4>1. i <= marker[a] /\ Covered(a, i)
        BY <2>1, <3>2 DEF ReadInv, MarkedCovered
      <4>2. QED
        BY <1>2, <1>4, <3>2, <4>1
    <3>3. QED
      BY <3>1, <3>2
  <2>2. QED
    BY <2>1 DEF MarkedCovered
<1>6. PulledCovered'
  <2>1. ASSUME NEW a \in Members, NEW i \in DOMAIN msgs, i <= pull[a].ack, i \notin pull[a].cut
        PROVE  Covered(a, i)'
    <3>1. Covered(a, i)
      BY <2>1 DEF ReadInv, PulledCovered
    <3>2. QED
      BY <1>2, <1>4, <2>1, <3>1
  <2>2. QED
    BY <2>1 DEF PulledCovered
<1>7. QED
  BY <1>3, <1>5, <1>6

LEMMA SendRead ==
  ASSUME ReadInv, NEW s \in Senders, NEW now \in BOOLEAN,
         NEW mentioned \in SUBSET (Recipients(s) \cap Mentionable), Send(s, now, mentioned), DeliveryNext
  PROVE  MarkedCovered' /\ PulledCovered' /\ OnlineCovered'
<1> PICK n : n = Len(msgs) + 1
  OBVIOUS
<1> DEFINE waiting == IF Direct THEN Recipients(s) ELSE mentioned
           plain == Recipients(s) \ waiting
<1>1. PushInv
  BY DEF ReadInv
<1>2. /\ s \in Members /\ Len(msgs) \in Nat /\ n \in Ids
      /\ DOMAIN msgs = 1..Len(msgs) /\ DOMAIN msgs' = 1..n
      /\ msgs'[n].from = s
  <2>1. /\ s \in Members /\ Len(msgs') = n /\ n <= MaxMsgs /\ Len(msgs) \in Nat
        /\ DOMAIN msgs = 1..Len(msgs) /\ DOMAIN msgs' = 1..n /\ msgs'[n].from = s
    BY <1>1, RowAdded
  <2>2. QED
    BY <2>1, DeliveryAssumption DEF Ids
<1>3. /\ handlers' = [handlers EXCEPT ![n] = waiting]
      /\ Push(plain, n)
      /\ marker' = IF waiting = {} THEN MarkOnline([marker EXCEPT ![s] = n], plain, n)
                   ELSE [marker EXCEPT ![s] = n]
      /\ excused' = IF s \in online THEN excused ELSE [excused EXCEPT ![s] = @ \cup Unread(s)]
      /\ UNCHANGED <<streams, pull, batching, restarts, summarised>>
  BY DEF Send
<1>4. /\ handlers \in [Ids -> SUBSET Members] /\ marker \in [Members -> 0..Len(msgs)]
      /\ excused \in [Members -> SUBSET DOMAIN msgs]
      /\ \A a \in Members : pull[a].ack \in 0..Len(msgs)
      /\ online \subseteq Members /\ online' = online
  BY <1>1, <1>3 DEF PushInv, DeliveryTypeOK, online
<1>5. ASSUME NEW a \in Members, NEW i \in 1..Len(msgs), Covered(a, i)
      PROVE  Covered(a, i)'
  BY <1>1, <1>2, <1>4, <1>5, CoveredStays
<1>6. ASSUME NEW a \in online
      PROVE  Covered(a, n)'
  <2>1. CASE a = s
    BY <1>2, <2>1 DEF Covered
  <2>2. CASE a \in waiting
    <3>1. a \in handlers'[n]
      BY <1>2, <1>3, <1>4, <2>2
    <3>2. QED
      BY <1>4, <1>6, <3>1 DEF Covered, InFlight
  <2>3. CASE a \in plain
    <3>1. n \in Nat /\ Len(msgs) <= n /\ n \in 1..n /\ plain \in SUBSET Members
      BY <1>2 DEF Recipients
    <3>2. n \in received'[a] \cup buffer'[a] \/ [to |-> a, msg |-> n] \in timers'
      BY <1>1, <1>3, <1>6, <2>3, <3>1, PushKeeps
    <3>3. QED
      BY <1>4, <1>6, <3>2 DEF Covered, InFlight
  <2>4. QED
    BY <1>4, <1>6, <2>1, <2>2, <2>3 DEF Recipients
<1> HIDE DEF waiting, plain
<1>7. \A i \in 1..n : i \in 1..Len(msgs) \/ i = n
  BY <1>2
<1>8. OnlineCovered'
  <2>1. ASSUME NEW a \in online, NEW i \in 1..n
        PROVE  Covered(a, i)'
    BY <1>2, <1>4, <1>5, <1>6, <1>7, <2>1 DEF ReadInv, OnlineCovered
  <2>2. QED
    BY <1>2, <1>4, <2>1 DEF OnlineCovered
<1>9. MarkedCovered'
  <2>1. ASSUME NEW a \in Members, NEW i \in 1..n, i <= marker'[a], a \notin online
        PROVE  Covered(a, i)'
    <3>1. CASE i = n
      <4>1. a = s
        <5>1. SUFFICES ASSUME a # s PROVE FALSE
          OBVIOUS
        <5>2. marker'[a] = marker[a]
          BY <1>3, <1>4, <2>1, <5>1 DEF MarkOnline
        <5>3. QED
          BY <1>2, <1>4, <2>1, <3>1, <5>2
      <4>2. QED
        BY <1>2, <3>1, <4>1 DEF Covered
    <3>2. CASE i \in 1..Len(msgs) /\ i <= marker[a]
      <4>1. Covered(a, i)
        BY <1>2, <3>2 DEF ReadInv, MarkedCovered
      <4>2. QED
        BY <1>5, <3>2, <4>1
    <3>3. CASE i \in 1..Len(msgs) /\ ~(i <= marker[a])
      <4>1. a = s
        <5>1. SUFFICES ASSUME a # s PROVE FALSE
          OBVIOUS
        <5>2. marker'[a] = marker[a]
          BY <1>3, <1>4, <2>1, <5>1 DEF MarkOnline
        <5>3. QED
          BY <2>1, <3>3, <5>2
      <4>2. i \in Unread(s)
        BY <1>1, <1>2, <3>3, <4>1, UnreadRows
      <4>3. i \in excused'[s]
        BY <1>2, <1>3, <1>4, <2>1, <4>1, <4>2
      <4>4. QED
        BY <4>1, <4>3 DEF Covered
    <3>4. QED
      BY <1>7, <3>1, <3>2, <3>3
  <2>2. QED
    BY <1>2, <1>4, <1>8, <2>1 DEF MarkedCovered, OnlineCovered
<1>10. PulledCovered'
  <2>1. ASSUME NEW a \in Members, NEW i \in 1..n, i <= pull[a].ack
        PROVE  Covered(a, i)' \/ i \in pull[a].cut
    <3>1. i \in 1..Len(msgs)
      BY <1>2, <1>4, <2>1
    <3>2. QED
      BY <1>2, <1>5, <2>1, <3>1 DEF ReadInv, PulledCovered
  <2>2. QED
    BY <1>2, <1>3, <2>1 DEF PulledCovered
<1>11. QED
  BY <1>8, <1>9, <1>10

LEMMA ConnectRead ==
  ASSUME ReadInv, NEW a \in Members, Connect(a), DeliveryNext
  PROVE  MarkedCovered' /\ PulledCovered' /\ OnlineCovered'
<1>1. PushInv
  BY DEF ReadInv
<1>2. /\ streams' = [streams EXCEPT ![a] = @ + 1]
      /\ UNCHANGED <<msgs, handlers, pushVars, pull, batching, restarts>>
  BY DEF Connect
<1>3. /\ DOMAIN msgs = 1..Len(msgs) /\ Len(msgs) \in Nat
      /\ Unread(a) \subseteq 1..Len(msgs) /\ IsFiniteSet(Unread(a))
      /\ \A i \in DOMAIN msgs : i \in Unread(a) <=> ~(i <= marker[a])
      /\ UnreadCount(a) = 0 => \A i \in Unread(a) : msgs[i].from = a
  BY <1>1, UnreadRows
<1>4. /\ streams \in [Members -> 0..MaxStreams] /\ marker \in [Members -> 0..Len(msgs)]
      /\ received \in [Members -> SUBSET DOMAIN msgs] /\ summarised \in [Members -> SUBSET DOMAIN msgs]
      /\ excused \in [Members -> SUBSET DOMAIN msgs]
  BY <1>1 DEF PushInv, DeliveryTypeOK
<1>5. /\ online \subseteq online' /\ \A b \in online' : b \in online \/ b = a
      /\ \A b \in Members : b # a => marker'[b] = marker[b]
  <2>1. online \subseteq online' /\ \A b \in online' : b \in online \/ b = a
    BY <1>2, <1>4, DeliveryAssumption DEF online
  <2>2. \A b \in Members : b # a => marker'[b] = marker[b]
    BY <1>4 DEF Connect, Skip, Replay, Summarise
  <2>3. QED
    BY <2>1, <2>2
<1>6. ASSUME NEW b \in Members, NEW i \in DOMAIN msgs, Covered(b, i)
      PROVE  Covered(b, i)'
  BY <1>1, <1>5, <1>6, CoveredStays
<1>7. ASSUME NEW i \in Unread(a)
      PROVE  Covered(a, i)'
  <2>1. i \in DOMAIN msgs
    BY <1>3
  <2>2. CASE Skip(a)
    BY <1>4, <2>2 DEF Skip, Covered
  <2>3. CASE UnreadCount(a) = 0
    BY <1>2, <1>3, <1>7, <2>3 DEF Covered
  <2>4. ASSUME NEW left \in 1..MaxPushes, NEW first, Replay(a, first, left)
        PROVE  Covered(a, i)'
    <3> DEFINE missed == UnreadMessages(a)
               urgent == {k \in missed : msgs[k].now /\ k >= first}
               sent   == Oldest(urgent, left)
               others == missed \ urgent
               rest   == IF batching /\ Cardinality(others) > 1 THEN others
                         ELSE Oldest(others, left - Cardinality(sent))
    <3>1. /\ received' = [received EXCEPT ![a] = @ \cup sent \cup rest]
          /\ excused' = [excused EXCEPT ![a] = @ \cup CutOff(a, left)]
      BY <2>4 DEF Replay
    <3>2. CASE Cardinality(Unread(a)) > left
      BY <1>4, <1>7, <3>1, <3>2 DEF CutOff, Covered
    <3>3. CASE ~(Cardinality(Unread(a)) > left)
      <4>1. /\ left \in Nat /\ Cardinality(Unread(a)) \in Nat /\ FetchLimit \in Nat
            /\ Cardinality(Unread(a)) <= left /\ Cardinality(Unread(a)) <= FetchLimit
            /\ Unread(a) \subseteq Nat
        BY <1>3, <3>3, FS_CardinalityType, DeliveryAssumption
      <4>2. missed = Unread(a)
        BY <1>3, <4>1, AllTaken DEF UnreadMessages
      <4>3. urgent \subseteq Unread(a) /\ others \subseteq Unread(a) /\ Unread(a) = urgent \cup others
            /\ others = Unread(a) \ urgent
        BY <4>2
      <4> HIDE DEF missed, urgent, others
      <4>4. /\ IsFiniteSet(urgent) /\ Cardinality(urgent) <= Cardinality(Unread(a))
            /\ IsFiniteSet(others) /\ Cardinality(others) \in Nat /\ Cardinality(urgent) \in Nat
        BY <1>3, <4>3, FS_Subset, FS_CardinalityType
      <4>5. sent = urgent
        <5>1. Cardinality(urgent) <= left /\ urgent \subseteq Nat
          BY <4>1, <4>3, <4>4
        <5>2. QED
          BY <4>1, <4>4, <5>1, AllTaken
      <4>6. rest = others
        <5>1. Cardinality(others) = Cardinality(Unread(a)) - Cardinality(urgent)
          <6>1. Unread(a) \cap urgent = urgent
            BY <4>3
          <6>2. Cardinality(Unread(a) \ urgent) =
                  Cardinality(Unread(a)) - Cardinality(Unread(a) \cap urgent)
            BY <1>3, FS_Difference
          <6>3. QED
            BY <4>3, <6>1, <6>2
        <5>2. Cardinality(others) <= left - Cardinality(urgent) /\ left - Cardinality(urgent) \in Nat
              /\ others \subseteq Nat
          BY <4>1, <4>3, <4>4, <5>1
        <5>3. Oldest(others, left - Cardinality(urgent)) = others
          BY <4>4, <5>2, AllTaken
        <5>4. QED
          BY <4>5, <5>3
      <4>7. i \in sent \/ i \in rest
        BY <1>7, <4>3, <4>5, <4>6
      <4> HIDE DEF sent, rest
      <4>8. i \in received'[a]
        BY <1>4, <3>1, <4>7
      <4>9. QED
        BY <4>8 DEF Covered
    <3>4. QED
      BY <3>2, <3>3
  <2>5. ASSUME NEW left \in 1..MaxPushes, Summarise(a, left)
        PROVE  Covered(a, i)'
    BY <1>4, <1>7, <2>5 DEF Summarise, Covered
  <2>6. QED
    BY <2>2, <2>3, <2>4, <2>5 DEF Connect
<1>8. \A i \in DOMAIN msgs : Covered(a, i)'
  BY <1>3, <1>6, <1>7 DEF ReadInv, MarkedCovered
<1>9. OnlineCovered'
  <2>1. \A b \in online', i \in DOMAIN msgs : Covered(b, i)'
    BY <1>5, <1>6, <1>8 DEF ReadInv, OnlineCovered, online
  <2>2. QED
    BY <1>2, <2>1 DEF OnlineCovered
<1>10. MarkedCovered'
  <2>1. \A b \in Members, i \in DOMAIN msgs : i <= marker'[b] => Covered(b, i)'
    BY <1>5, <1>6, <1>8 DEF ReadInv, MarkedCovered
  <2>2. QED
    BY <1>2, <2>1 DEF MarkedCovered
<1>11. PulledCovered'
  <2>1. \A b \in Members, i \in DOMAIN msgs : i <= pull[b].ack => Covered(b, i)' \/ i \in pull[b].cut
    BY <1>6 DEF ReadInv, PulledCovered
  <2>2. QED
    BY <1>2, <2>1 DEF PulledCovered
<1>12. QED
  BY <1>9, <1>10, <1>11

LEMMA InboxRead ==
  ASSUME ReadInv, NEW a \in Members, InboxGet(a) \/ InboxAck(a), DeliveryNext
  PROVE  MarkedCovered' /\ PulledCovered' /\ OnlineCovered'
<1>1. PushInv
  BY DEF ReadInv
<1>2. /\ DOMAIN msgs = 1..Len(msgs) /\ Len(msgs) \in Nat
      /\ Unread(a) \subseteq 1..Len(msgs) /\ IsFiniteSet(Unread(a))
      /\ \A i \in DOMAIN msgs : i \in Unread(a) <=> ~(i <= marker[a])
  BY <1>1, UnreadRows
<1>3. /\ marker \in [Members -> 0..Len(msgs)] /\ DOMAIN pull = Members
      /\ received \in [Members -> SUBSET DOMAIN msgs] /\ summarised \in [Members -> SUBSET DOMAIN msgs]
      /\ excused \in [Members -> SUBSET DOMAIN msgs]
  BY <1>1 DEF PushInv, DeliveryTypeOK
<1>4. msgs' = msgs /\ streams' = streams /\ online' = online
  BY DEF InboxGet, InboxAck, online
<1>5. ASSUME NEW b \in Members, NEW i \in DOMAIN msgs, Covered(b, i)
      PROVE  Covered(b, i)'
  BY <1>1, <1>4, <1>5, CoveredStays
<1>6. OnlineCovered'
  <2>1. \A b \in online, i \in DOMAIN msgs : Covered(b, i)'
    BY <1>5 DEF ReadInv, OnlineCovered, online
  <2>2. QED
    BY <1>4, <2>1 DEF OnlineCovered
<1>7. CASE InboxGet(a)
  <2> DEFINE quiet == UnreadCount(a) <= SummaryThreshold
             recent == IF DetailLimit < RecentLimit THEN DetailLimit ELSE RecentLimit
             listed == IF quiet THEN Newest(UnreadMessages(a), DetailLimit)
                      ELSE Newest(UnreadMentions(a), DetailLimit) \cup Newest(DOMAIN msgs, recent)
             cut == IF quiet THEN CutOff(a, DetailLimit) ELSE {}
             counted == IF quiet THEN {} ELSE Unread(a)
  <2>1. /\ received' = [received EXCEPT ![a] = @ \cup listed]
        /\ summarised' = [summarised EXCEPT ![a] = @ \cup counted]
        /\ pull' = [pull EXCEPT ![a] = [ack |-> Max(Unread(a)), cut |-> cut]]
        /\ marker' = marker
    BY <1>7 DEF InboxGet
  <2>2. ASSUME NEW i \in Unread(a)
        PROVE  i \in listed \/ i \in counted \/ i \in cut
    <3>1. CASE ~quiet
      BY <2>2, <3>1
    <3>2. CASE quiet /\ Cardinality(Unread(a)) > DetailLimit
      BY <2>2, <3>2 DEF CutOff
    <3>3. CASE quiet /\ ~(Cardinality(Unread(a)) > DetailLimit)
      <4>1. /\ DetailLimit \in Nat /\ Cardinality(Unread(a)) \in Nat /\ FetchLimit \in Nat
            /\ Cardinality(Unread(a)) <= DetailLimit /\ Cardinality(Unread(a)) <= FetchLimit
            /\ Unread(a) \subseteq Nat
        BY <1>2, <3>3, FS_CardinalityType, DeliveryAssumption
      <4>2. UnreadMessages(a) = Unread(a)
        BY <1>2, <4>1, AllTaken DEF UnreadMessages
      <4>3. Newest(Unread(a), DetailLimit) = Unread(a)
        BY <1>2, <4>1, AllTaken
      <4>4. QED
        BY <2>2, <3>3, <4>2, <4>3
    <3>4. QED
      BY <3>1, <3>2, <3>3
  <2> HIDE DEF quiet, recent, listed, cut, counted
  <2>3. ASSUME NEW i \in DOMAIN msgs
        PROVE  Covered(a, i)' \/ i \in pull'[a].cut
    <3>1. CASE i <= marker[a]
      BY <1>5, <3>1 DEF ReadInv, MarkedCovered
    <3>2. CASE i \in listed \/ i \in counted
      <4>1. i \in received'[a] \cup summarised'[a]
        BY <1>3, <2>1, <3>2
      <4>2. QED
        BY <4>1 DEF Covered
    <3>3. CASE i \in cut
      BY <1>3, <2>1, <3>3
    <3>4. QED
      BY <1>2, <2>2, <3>1, <3>2, <3>3
  <2>4. MarkedCovered'
    <3>1. \A b \in Members, i \in DOMAIN msgs : i <= marker[b] => Covered(b, i)'
      BY <1>5 DEF ReadInv, MarkedCovered
    <3>2. QED
      BY <1>4, <2>1, <3>1 DEF MarkedCovered
  <2>5. PulledCovered'
    <3>1. ASSUME NEW b \in Members, NEW i \in DOMAIN msgs, i <= pull'[b].ack
          PROVE  Covered(b, i)' \/ i \in pull'[b].cut
      <4>1. CASE b = a
        BY <2>3, <4>1
      <4>2. CASE b # a
        <5>1. pull'[b] = pull[b]
          BY <1>3, <2>1, <4>2
        <5>2. QED
          BY <1>5, <3>1, <5>1 DEF ReadInv, PulledCovered
      <4>3. QED
        BY <4>1, <4>2
    <3>2. QED
      BY <1>4, <3>1 DEF PulledCovered
  <2>6. QED
    BY <1>6, <2>4, <2>5
<1>8. CASE InboxAck(a)
  <2>1. /\ marker' = [marker EXCEPT ![a] = pull[a].ack]
        /\ excused' = [excused EXCEPT ![a] = @ \cup pull[a].cut]
        /\ pull' = [pull EXCEPT ![a] = NoPull]
    BY <1>8 DEF InboxAck
  <2>2. MarkedCovered'
    <3>1. ASSUME NEW b \in Members, NEW i \in DOMAIN msgs, i <= marker'[b]
          PROVE  Covered(b, i)'
      <4>1. CASE b # a
        <5>1. marker'[b] = marker[b]
          BY <1>3, <2>1, <4>1
        <5>2. QED
          BY <1>5, <3>1, <5>1 DEF ReadInv, MarkedCovered
      <4>2. CASE b = a
        <5>1. i <= pull[a].ack
          BY <1>3, <2>1, <3>1, <4>2
        <5>2. Covered(a, i) \/ i \in pull[a].cut
          BY <5>1 DEF ReadInv, PulledCovered
        <5>3. CASE i \in pull[a].cut
          BY <1>3, <2>1, <4>2, <5>3 DEF Covered
        <5>4. QED
          BY <1>5, <4>2, <5>2, <5>3
      <4>3. QED
        BY <4>1, <4>2
    <3>2. QED
      BY <1>4, <3>1 DEF MarkedCovered
  <2>3. PulledCovered'
    <3>1. ASSUME NEW b \in Members, NEW i \in DOMAIN msgs, i <= pull'[b].ack
          PROVE  Covered(b, i)' \/ i \in pull'[b].cut
      <4>1. b # a
        <5>1. SUFFICES ASSUME b = a PROVE FALSE
          OBVIOUS
        <5>2. pull'[b].ack = 0
          BY <1>3, <2>1, <5>1 DEF NoPull
        <5>3. QED
          BY <1>2, <3>1, <5>2
      <4>2. pull'[b] = pull[b]
        BY <1>3, <2>1, <4>1
      <4>3. QED
        BY <1>5, <3>1, <4>2 DEF ReadInv, PulledCovered
    <3>2. QED
      BY <1>4, <3>1 DEF PulledCovered
  <2>4. QED
    BY <1>6, <2>2, <2>3
<1>9. QED
  BY <1>7, <1>8

LEMMA ReadNext == ReadInv /\ [DeliveryNext]_deliveryVars => ReadInv'
<1> SUFFICES ASSUME ReadInv, [DeliveryNext]_deliveryVars PROVE ReadInv'
  OBVIOUS
<1>1. PushInv'
  BY PushNext DEF ReadInv
<1>2. CASE UNCHANGED deliveryVars
  BY <1>1, <1>2 DEF deliveryVars, ReadInv, MarkedCovered, PulledCovered, OnlineCovered, Covered, InFlight,
     online
<1>3. CASE DeliveryNext
  <2> DEFINE Keeps == MarkedCovered' /\ PulledCovered' /\ OnlineCovered'
  <2>1. ASSUME NEW i \in Ids, Injected(i) PROVE Keeps
    <3>1. streams' = streams /\ msgs' = msgs /\ pull' = pull
      BY <2>1 DEF Injected
    <3>2. online' = online
      BY <3>1 DEF online
    <3>3. \A a \in Members : marker'[a] = marker[a] \/ a \in online
      BY <2>1 DEF Injected, MarkOnline, ReadInv, PushInv, DeliveryTypeOK
    <3>4. QED
      BY <1>3, <3>1, <3>2, <3>3, StreamsEnd
  <2>2. ASSUME (\E t \in timers : TimerFires(t)) \/ (\E a \in Members : FlushBatch(a)) PROVE Keeps
    <3>1. streams' = streams /\ msgs' = msgs /\ pull' = pull /\ marker' = marker
      BY <2>2 DEF TimerFires, FlushBatch
    <3>2. online' = online
      BY <3>1 DEF online
    <3>3. QED
      BY <1>3, <3>1, <3>2, StreamsEnd
  <2>3. ASSUME NEW a \in Members, Disconnect(a) PROVE Keeps
    <3>1. /\ streams[a] > 0 /\ streams' = [streams EXCEPT ![a] = @ - 1]
          /\ msgs' = msgs /\ pull' = pull /\ marker' = marker
      BY <2>3 DEF Disconnect
    <3>2. streams \in [Members -> 0..MaxStreams] /\ excused \in [Members -> SUBSET DOMAIN msgs]
      BY DEF ReadInv, PushInv, DeliveryTypeOK
    <3>3. online' \subseteq online
      BY <3>1, <3>2, DeliveryAssumption DEF online
    <3>4. \A b \in online \ online' : b = a /\ streams[a] = 1
      BY <3>1, <3>2, DeliveryAssumption DEF online
    <3>5. \A b \in online \ online' : Ahead(b) \subseteq excused'[b]
      BY <2>3, <3>2, <3>4 DEF Disconnect
    <3>6. QED
      BY <1>3, <3>1, <3>3, <3>5, StreamsEnd
  <2>4. ASSUME ServerRestart PROVE Keeps
    <3>1. msgs' = msgs /\ pull' = pull /\ marker' = marker
      BY <2>4 DEF ServerRestart
    <3>2. online' \subseteq online /\ \A a \in online : Ahead(a) \subseteq excused'[a]
      BY <2>4 DEF ServerRestart, online
    <3>3. QED
      BY <1>3, <3>1, <3>2, StreamsEnd
  <2>5. Keeps
    BY <1>3, <2>1, <2>2, <2>3, <2>4, SendRead, ConnectRead, InboxRead, MembersAssumption
       DEF DeliveryNext, Sending, Scheduled
  <2>6. QED
    BY <1>1, <2>5 DEF ReadInv
<1>4. QED
  BY <1>2, <1>3

\* Nothing is marked read that its reader was not given, with the three exceptions that
\* excused records: for any channel, dm or group, however sends, replays, inbox answers,
\* streams and restarts overlap, and whatever the limits are.
THEOREM ReadsAreReceived == DeliverySpec => []ReadMeansReceived
<1>1. ReadInv => ReadMeansReceived
  BY DEF ReadInv, MarkedCovered, Covered, ReadMeansReceived
<1>2. QED
  BY <1>1, ReadInit, ReadNext, PTL DEF DeliverySpec

\* Markers, inbox answers, timers, buffers and histories name rows that exist.
THEOREM DeliveryTypes == DeliverySpec => []DeliveryTypeOK
<1>1. PushInv => DeliveryTypeOK
  BY DEF PushInv
<1>2. QED
  BY <1>1, PushInit, PushNext, PTL DEF DeliverySpec
=============================================================================
