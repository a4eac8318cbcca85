--------------------------- MODULE CredentialLease ---------------------------
(***************************************************************************)
(* Leases of the shared credential (credential-lease.mjs,                  *)
(* auth-token-utils.mjs): short-lived tokens that each buy one request,    *)
(* the limits on minting and on leasing, the lock with which a driver      *)
(* keeps an agent to itself, the revocation that resets an agent, and a    *)
(* restart of the server, which keeps the tables and loses the maps.       *)
(*                                                                         *)
(* The code compares nothing but the age of an entry with a constant, so   *)
(* the state holds ages in place of times and an age stops at the largest  *)
(* constant it is compared with.  No bound on time is needed.              *)
(*                                                                         *)
(* Every handler is synchronous from its first check to its last write     *)
(* (its awaits resolve before another request is read).                    *)
(***************************************************************************)
EXTENDS Integers, Sequences, FiniteSets

CONSTANTS
  Agents,
  Drivers,                     \* drivers that lock agents, by owner_pid
  Tokens,                      \* bound: tokens that are not forgotten yet
  MaxStarts,                   \* bound: leases of starts in a window
  PathA,                       \* agents whose strategy is path_a
  TOKEN_TTL_MS,
  JTI_EVICTION_MS,
  AGGREGATE_MINT_WINDOW_MS, AGGREGATE_MINT_LIMIT,
  RATE_WINDOW_MS, RATE_MAX,
  BUSY_STALE_MS

ASSUME LimitsAssumption ==
  /\ {TOKEN_TTL_MS, JTI_EVICTION_MS, AGGREGATE_MINT_WINDOW_MS,
      AGGREGATE_MINT_LIMIT, RATE_WINDOW_MS, RATE_MAX, BUSY_STALE_MS}
       \subseteq Nat \ {0}
  /\ TOKEN_TTL_MS <= JTI_EVICTION_MS
  /\ AGGREGATE_MINT_WINDOW_MS <= JTI_EVICTION_MS
ASSUME StartsAssumption == MaxStarts \in Nat
ASSUME PathAAssumption == PathA \subseteq Agents
ASSUME NamesAssumption == "none" \notin Agents /\ "none" \notin Drivers

VARIABLES
  \* tokens, as their holders have them
  tokenOf,    \* the agent a token names, or "none" for one nobody has
  age,        \* its age
  \* the memory of the server
  usedJtis,   \* tokens already used: age of the entry
  mintLog,    \* _mintTimestamps, oldest first
  \* tables
  rate,       \* credential_lease_rate: age of the window, count, blocked
  busy,       \* path_a_busy_agents: owner and age of the last heartbeat
  store,      \* the token store has an access token
  \* drivers
  holds,      \* what a driver believes of an agent: "no", "yes", or "revoked"
  live,       \* drivers that have not crashed
  \* history
  uses,       \* requests a token bought in this life of the server
  mine,       \* tokens minted in this life of the server
  leased,     \* ages of the leases an agent asked for since its last revocation
  started     \* ages of the leases that its starts took

tokenVars == <<tokenOf, age, usedJtis, uses, mine>>
lockVars == <<busy, holds, live>>
leases == <<leased, started>>
vars == <<tokenVars, mintLog, rate, leases, lockVars, store>>

\* An agent without a row in a table: the ages are past every limit.
NoLock == [owner |-> "none", age |-> BUSY_STALE_MS]
NoRate == [age |-> RATE_WINDOW_MS + 1, count |-> 0, blocked |-> FALSE]
TokenCap == JTI_EVICTION_MS

Init ==
  /\ tokenOf = [t \in Tokens |-> "none"] /\ age = [t \in Tokens |-> TokenCap]
  /\ usedJtis = <<>> /\ mintLog = <<>>
  /\ rate = [a \in Agents |-> NoRate] /\ busy = [a \in Agents |-> NoLock]
  /\ store = TRUE
  /\ holds = [d \in Drivers |-> [a \in Agents |-> "no"]] /\ live = Drivers
  /\ uses = [t \in Tokens |-> 0] /\ mine = {}
  /\ leased = [a \in Agents |-> <<>>] /\ started = [a \in Agents |-> <<>>]

Without(f, x) == [y \in DOMAIN f \ {x} |-> f[y]]
With(f, x, v) == [y \in DOMAIN f \union {x} |-> IF y = x THEN v ELSE f[y]]

-----------------------------------------------------------------------------
(* Tokens                                                                  *)

\* Mutant: the window of the limit is pruned one tick early.
PassedEarly(ages, k, w) ==
  (\A i \in 1..k : ages[i] >= w - 1) /\ (k < Len(ages) => ages[k + 1] < w - 1)

\* The first k ages, which are the oldest, have passed the window, the next has not.
Passed(ages, k, w) ==
  (\A i \in 1..k : ages[i] >= w) /\ (k < Len(ages) => ages[k + 1] < w)

Recent(ages, w) ==
  LET k == CHOOSE k \in 0..Len(ages) : Passed(ages, k, w)
  IN SubSeq(ages, k + 1, Len(ages))

Pruned == Recent(mintLog, AGGREGATE_MINT_WINDOW_MS)

\* A token that nobody can use any more gives its name to a new one.
Forgotten(t) == age[t] = TokenCap /\ t \notin DOMAIN usedJtis

Mint(t, a) ==
  /\ Forgotten(t)
  /\ Len(Pruned) < AGGREGATE_MINT_LIMIT
  /\ mintLog' = Append(Pruned, 0)
  /\ tokenOf' = [tokenOf EXCEPT ![t] = a] /\ age' = [age EXCEPT ![t] = 0]
  /\ uses' = [uses EXCEPT ![t] = 0] /\ mine' = mine \union {t}
  /\ UNCHANGED <<usedJtis, rate, leases, lockVars, store>>

\* Mutant: entries are swept while their tokens are still valid.
SweepEarly ==
  \E t \in DOMAIN usedJtis :
    /\ usedJtis[t] >= TOKEN_TTL_MS - 1
    /\ usedJtis' = Without(usedJtis, t)
    /\ UNCHANGED <<tokenOf, age, uses, mine, mintLog, rate, leases, lockVars, store>>

\* The sweeper runs once a minute.
Sweep ==
  \E t \in DOMAIN usedJtis :
    /\ usedJtis[t] >= JTI_EVICTION_MS
    /\ usedJtis' = Without(usedJtis, t)
    /\ UNCHANGED <<tokenOf, age, uses, mine, mintLog, rate, leases, lockVars, store>>

Valid(t, a) == tokenOf[t] = a /\ age[t] < TOKEN_TTL_MS /\ t \notin DOMAIN usedJtis

\* Checking a token uses it up, whatever becomes of the request.
Verify(t, a) ==
  /\ Valid(t, a)
  /\ usedJtis' = With(usedJtis, t, 0)
  /\ uses' = [uses EXCEPT ![t] = @ + 1]
  /\ UNCHANGED <<tokenOf, age, mine, mintLog>>

-----------------------------------------------------------------------------
(* A lease                                                                 *)

Fresh(a) == rate[a].age >= RATE_WINDOW_MS
Full(a) == rate[a].blocked \/ (~Fresh(a) /\ rate[a].count >= RATE_MAX)

\* Mutant: an old window keeps the time it began.
BumpedInPlace(a) ==
  CASE rate[a] = NoRate -> [age |-> 0, count |-> 1, blocked |-> FALSE]
    [] Fresh(a) /\ rate[a] # NoRate -> [rate[a] EXCEPT !.count = 1]
    [] OTHER -> [rate[a] EXCEPT !.count = @ + 1]

\* checkAndBumpRate.
Bumped(a) ==
  IF Fresh(a) THEN [age |-> 0, count |-> 1, blocked |-> FALSE]
              ELSE [rate[a] EXCEPT !.count = @ + 1]

\* Without a reason the limit is not reached.
NoReason(t, a) == Verify(t, a) /\ UNCHANGED <<rate, leases, lockVars, store>>

Refuse(t, a) ==
  /\ Verify(t, a)
  /\ Full(a)
  /\ rate' = [rate EXCEPT ![a].blocked = TRUE]
  /\ UNCHANGED <<leases, lockVars, store>>

\* The request counts before the store is asked.
Lease(t, a) ==
  /\ Verify(t, a)
  /\ ~Full(a)
  /\ rate' = [rate EXCEPT ![a] = Bumped(a)]
  /\ leased' = IF a \in PathA /\ store
                 THEN [leased EXCEPT ![a] = Append(@, 0)] ELSE leased
  /\ UNCHANGED <<started, lockVars, store>>

\* startAgent calls leaseTokenForAgent itself: no token, and no count.
StartLease(a) ==
  /\ a \in PathA /\ store
  /\ Len(started[a]) < MaxStarts
  /\ started' = [started EXCEPT ![a] = Append(@, 0)]
  /\ UNCHANGED <<tokenVars, mintLog, rate, leased, lockVars, store>>

StoreChanges ==
  store' = ~store /\ UNCHANGED <<tokenVars, mintLog, rate, leases, lockVars>>

-----------------------------------------------------------------------------
(* The lock                                                                *)

\* The insert fails on the primary key while there is any row, stale or not;
\* the statement that reclaims a stale row is never reached.
Acquire(d, a) ==
  /\ d \in live /\ holds[d][a] = "no"
  /\ busy[a] = NoLock
  /\ busy' = [busy EXCEPT ![a] = [owner |-> d, age |-> 0]]
  /\ holds' = [holds EXCEPT ![d][a] = "yes"]
  /\ UNCHANGED <<tokenVars, mintLog, rate, leases, live, store>>

\* Mutant: a release frees the agent whoever holds it.
OwnsAny(d, a) == busy[a] # NoLock

Owns(d, a) == busy[a].owner = d

Heartbeat(d, a) ==
  /\ d \in live /\ holds[d][a] # "no"
  /\ IF Owns(d, a)
       THEN busy' = [busy EXCEPT ![a].age = 0] /\ UNCHANGED holds
       ELSE holds' = [holds EXCEPT ![d][a] = "no"] /\ UNCHANGED busy
  /\ UNCHANGED <<tokenVars, mintLog, rate, leases, live, store>>

Release(d, a) ==
  /\ d \in live /\ holds[d][a] # "no"
  /\ busy' = IF Owns(d, a) THEN [busy EXCEPT ![a] = NoLock] ELSE busy
  /\ holds' = [holds EXCEPT ![d][a] = "no"]
  /\ UNCHANGED <<tokenVars, mintLog, rate, leases, live, store>>

DriverCrash(d) ==
  /\ d \in live
  /\ live' = live \ {d}
  /\ holds' = [holds EXCEPT ![d] = [a \in Agents |-> "no"]]
  /\ UNCHANGED <<tokenVars, mintLog, rate, leases, busy, store>>

\* handleLeaseRevokeHttp, with a token of the agent; the driver that loses the
\* agent learns of it from its next heartbeat.
Revoke(t, a) ==
  /\ Verify(t, a)
  /\ rate' = [rate EXCEPT ![a] = IF @ = NoRate THEN @
                                 ELSE [age |-> 0, count |-> 0, blocked |-> FALSE]]
  /\ busy' = [busy EXCEPT ![a] = NoLock]
  /\ holds' = [d \in Drivers |->
       [holds[d] EXCEPT ![a] = IF @ = "yes" THEN "revoked" ELSE @]]
  /\ leased' = [leased EXCEPT ![a] = <<>>] /\ started' = [started EXCEPT ![a] = <<>>]
  /\ UNCHANGED <<live, store>>

-----------------------------------------------------------------------------
(* Time, restart                                                           *)

Older(x, cap) == IF x < cap THEN x + 1 ELSE x
OlderSeq(s, cap) == [i \in DOMAIN s |-> Older(s[i], cap)]

InWindow(ages) == Recent(ages, RATE_WINDOW_MS)

Tick ==
  /\ age' = [t \in Tokens |-> Older(age[t], TokenCap)]
  /\ usedJtis' = [t \in DOMAIN usedJtis |-> Older(usedJtis[t], JTI_EVICTION_MS)]
  /\ mintLog' = OlderSeq(mintLog, AGGREGATE_MINT_WINDOW_MS)
  /\ rate' = [a \in Agents |-> [rate[a] EXCEPT !.age = Older(@, RATE_WINDOW_MS)]]
  /\ busy' = [a \in Agents |-> [busy[a] EXCEPT !.age = Older(@, BUSY_STALE_MS)]]
  /\ leased' = [a \in Agents |-> InWindow(OlderSeq(leased[a], RATE_WINDOW_MS))]
  /\ started' = [a \in Agents |-> InWindow(OlderSeq(started[a], RATE_WINDOW_MS))]
  /\ UNCHANGED <<tokenOf, uses, mine, holds, live, store>>

Restart ==
  /\ usedJtis' = <<>> /\ mintLog' = <<>>
  /\ uses' = [t \in Tokens |-> 0] /\ mine' = {}
  /\ UNCHANGED <<tokenOf, age, rate, leases, lockVars, store>>

Request ==
  \E t \in Tokens, a \in Agents :
    NoReason(t, a) \/ Refuse(t, a) \/ Lease(t, a) \/ Revoke(t, a)

Next ==
  \/ \E t \in Tokens, a \in Agents : Mint(t, a)
  \/ Request
  \/ \E d \in Drivers, a \in Agents : Acquire(d, a) \/ Heartbeat(d, a) \/ Release(d, a)
  \/ \E a \in Agents : StartLease(a)
  \/ \E d \in Drivers : DriverCrash(d)
  \/ Sweep \/ StoreChanges \/ Restart \/ Tick

Spec == Init /\ [][Next]_vars

\* The clock runs, and a driver without the agent keeps asking for it.
FairSpec ==
  /\ Spec
  /\ WF_vars(Tick)
  /\ \A d \in Drivers, a \in Agents : WF_vars(Acquire(d, a))

-----------------------------------------------------------------------------
(* Properties                                                              *)

\* The types of the tables, the maps and the tokens.
TypeOK ==
  /\ tokenOf \in [Tokens -> Agents \union {"none"}]
  /\ age \in [Tokens -> 0..TokenCap]
  /\ DOMAIN usedJtis \subseteq Tokens
  /\ \A t \in DOMAIN usedJtis : usedJtis[t] \in 0..JTI_EVICTION_MS
  /\ mintLog \in Seq(0..AGGREGATE_MINT_WINDOW_MS)
  /\ rate \in [Agents ->
       [age : 0..RATE_WINDOW_MS + 1, count : 0..RATE_MAX, blocked : BOOLEAN]]
  /\ busy \in [Agents ->
       [owner : Drivers \union {"none"}, age : 0..BUSY_STALE_MS]]
  /\ holds \in [Drivers -> [Agents -> {"no", "yes", "revoked"}]]
  /\ live \subseteq Drivers /\ store \in BOOLEAN
  /\ uses \in [Tokens -> Nat] /\ mine \subseteq Tokens
  /\ leased \in [Agents -> Seq(0..RATE_WINDOW_MS)]
  /\ started \in [Agents -> Seq(0..RATE_WINDOW_MS)]

\* A token buys one request in the life of a server: it has expired by the time
\* the sweeper forgets that it was used.
TokenUsedOnce == \A t \in Tokens : uses[t] <= 1

\* In every window one server mints no more tokens than the limit, whenever the
\* window begins and however the requests fall.
MintsApart ==
  Cardinality({t \in mine : age[t] < AGGREGATE_MINT_WINDOW_MS}) <= AGGREGATE_MINT_LIMIT

\* Between two revocations no window of time sees more than twice the limit of
\* leases that an agent asked for (GET /api/credentials/lease/:name): the table counts in
\* windows that follow one another, and keeps counting across restarts of the
\* server.  The leases of starts are outside the limit.
LeasesApart == \A a \in Agents : Len(leased[a]) <= 2 * RATE_MAX

\* The same of all leases of the table.  TLC refutes it: starts are not counted.
AllLeasesApart == \A a \in Agents : Len(leased[a]) + Len(started[a]) <= 2 * RATE_MAX

\* A driver that was given an agent, and has not released it, crashed or lost it
\* to a revocation, owns its row: no call of another driver, however late, and
\* no restart of the server takes it away.
LockKept ==
  \A d \in Drivers, a \in Agents : holds[d][a] = "yes" => Owns(d, a)

\* The lock of a driver that crashed is reclaimed: some driver that still runs
\* gets the agent (docs: a lock whose heartbeat is older than 30 seconds can be
\* reclaimed).
StaleLockReclaimed ==
  \A a \in Agents :
    (busy[a] # NoLock /\ busy[a].owner \notin live /\ live # {})
      ~> (live = {} \/ busy[a] = NoLock \/ busy[a].owner \in live)
=============================================================================
