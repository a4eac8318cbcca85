-------------------------- MODULE CredentialManager --------------------------
(***************************************************************************)
(* The OAuth credentials the server keeps for its agents                   *)
(* (credential-manager.mjs): the token store with its rotation_seq, the    *)
(* refresh under a lock file with its retries, the login, the distribution *)
(* to the agents' credential files and the collection of newer tokens from *)
(* them, and a restart of the server in the middle of it.                  *)
(*                                                                         *)
(* Access tokens are numbered in the order they are issued, which is the   *)
(* order of their expiresAt.  A refresh token is named by the access token *)
(* it was issued with and the login it stems from.  The OAuth server may   *)
(* or may not rotate a refresh token when it is used; a rotated one is     *)
(* dead.                                                                   *)
(***************************************************************************)
EXTENDS Integers, FiniteSets

CONSTANTS
  Agents,         \* agent directories, in the order readdir lists them: 1..Agents
  PathA,          \* agents with auth_strategy path_a: no refresh token for them
  ApiKey,         \* agents with auth_mode api_key: no credentials for them
  MaxCalls,       \* bound: calls of refreshOAuthToken under way at once
  MAX_RETRIES,    \* failures in a row that raise the alert
  MaxHours,       \* bound: times hours pass with nothing to do
  MaxSelf,        \* bound: refreshes an agent makes on its own
  MaxLogins,      \* bound: logins
  MaxFaults       \* bound: exchanges that fail for a passing reason, entries of a
                  \* distribution that fail, and restarts

ASSUME AgentsAssumption ==
  /\ Agents \in Nat \ {0}
  /\ PathA \subseteq 1..Agents /\ ApiKey \subseteq 1..Agents /\ PathA \cap ApiKey = {}
ASSUME BoundsAssumption ==
  /\ {MAX_RETRIES, MaxCalls} \subseteq Nat \ {0}
  /\ {MaxHours, MaxSelf, MaxLogins, MaxFaults} \subseteq Nat

Free == 0       \* no lock file; else the call that holds it, or
Dead == -1      \* the lock file of a server that has ended,
Stale == -2     \* that lock file once it is older than LOCK_STALE_MS

Calls == 1..MaxCalls

None == [id |-> 0, login |-> 0]      \* refreshToken: null
Refresh == [id : Nat, login : 0..MaxLogins]
Empty == [at |-> 0, rt |-> None]     \* {}

VARIABLES
  store,     \* TOKEN_FILE: access token, refresh token, rotation_seq
  file,      \* the agents' .credentials.json
  lock,      \* LOCK_FILE
  call,      \* each call of refreshOAuthToken
  round,     \* the distribution: its next agent and the credentials it carries
  status,    \* refreshStatus
  failures,  \* consecutiveFailures, as far as it is compared
  retry,     \* retryTimeout is set
  \* the OAuth server and the clock
  issued,    \* tokens issued
  valid,     \* refresh tokens it accepts
  old,       \* tokens up to this one were issued hours ago
  expiring,  \* tokens up to this one expire within REFRESH_BUFFER
  \* history and bounds
  logins, hours, selves, faults,
  overtaken, \* the latest login was completed while an exchange was under way
  setBack,   \* since the last refresh or login, an older token was merged into the store
  replaced,  \* refresh tokens whose successor the server has stored
  reused,    \* one of these was presented again while the store was not set back
  unchecked, \* agents whose file was last written without a look at what they may have
  behind     \* agents that a merge or a failed write since the last distribution began
             \* may have left with an older token than the store's

serverVars == <<store, file, lock, call, round, status, failures, retry>>
oauthVars == <<issued, valid, old, expiring>>
counters == <<logins, hours, selves, faults>>
outcome == <<unchecked, behind>>
history == <<counters, overtaken, setBack, replaced, reused, outcome>>
vars == <<serverVars, oauthVars, history>>

Quiet == [step |-> "idle", seq |-> 0, rt |-> None, at |-> 0, new |-> Empty]
Still == [next |-> 0, at |-> 0, rt |-> None]
First(creds) == [next |-> 1, at |-> creds.at, rt |-> creds.rt]

\* A server that has just called init with stored credentials: the distribution has
\* begun, the refresh timer runs.
Init ==
  /\ store = [at |-> 1, rt |-> [id |-> 1, login |-> 0], seq |-> 0]
  /\ file = [a \in 1..Agents |-> Empty]
  /\ lock = Free
  /\ call = [c \in Calls |-> Quiet]
  /\ round = First(store)
  /\ status = "never" /\ failures = 0 /\ retry = FALSE
  /\ issued = 1 /\ valid = {[id |-> 1, login |-> 0]} /\ old = 1 /\ expiring = 0
  /\ logins = 0 /\ hours = 0 /\ selves = 0 /\ faults = 0
  /\ overtaken = FALSE /\ setBack = FALSE /\ replaced = {} /\ reused = FALSE
  /\ unchecked = {} /\ behind = {}

----------------------------------------------------------------------------
(* Distribution *)

\* distributeToAgents begins with what the store holds then.  Between its entries it
\* waits for nothing but a module that is loaded, so that no timer, answer or request
\* comes in between; what the agents' programs do does, and so does the check that
\* startRefreshTimer has begun just before.
Distribute(creds) == round' = First(creds) /\ behind' = {}

\* Mutant: the refresh token of the agent's file comes along.
MergeWhole(at) ==
  LET rts == {file[a].rt : a \in {b \in 1..Agents : file[b].at = at}}
  IN [at |-> at, rt |-> IF rts = {} THEN store.rt ELSE CHOOSE rt \in rts : TRUE,
      seq |-> store.seq + 1]

\* An agent's newer access token goes to the store; its refresh token does not.
Merge(at) == [at |-> at, rt |-> store.rt, seq |-> store.seq + 1]

\* Nothing compares it with what the store holds by now.
Collected(at) == store' = Merge(at) /\ setBack' = (setBack \/ at < store.at)

\* Mutant: nothing is taken away for path_a.
PayloadSame(a, found) == [at |-> round.at, rt |-> round.rt]

\* What is written to agent a, whose row has been found or not.
Payload(a, found) == [at |-> round.at, rt |-> IF found /\ a \in PathA THEN None ELSE round.rt]

Advance(creds) ==
  round' = IF round.next = Agents THEN Still
           ELSE [next |-> round.next + 1, at |-> creds.at, rt |-> creds.rt]

\* Agent a's file is replaced.
Write(a, creds, found) ==
  /\ file' = [file EXCEPT ![a] = creds]
  /\ unchecked' = IF found THEN unchecked \ {a} ELSE unchecked \cup {a}
  /\ Advance(round)
  /\ UNCHANGED <<store, setBack, behind>>

EntryFails == faults < MaxFaults /\ faults' = faults + 1

\* One entry of the loop of distributeToAgents.  A newer token of the agent is merged
\* into the store and carried on, anything else is overwritten.  Without its row (a
\* failed lookup is logged or ignored) an agent counts as an ordinary one; a file that
\* cannot be read or parsed counts as older; a failed write is passed over.
DistributeOne ==
  LET a == round.next IN
  /\ a # 0
  /\ \/ \E found, read \in BOOLEAN :
          /\ IF found /\ read THEN UNCHANGED faults ELSE EntryFails
          /\ \/ /\ a \in ApiKey /\ found
                /\ Write(a, Empty, found)
             \/ /\ ~(a \in ApiKey /\ found) /\ read /\ file[a].at > round.at
                /\ Collected(file[a].at)
                /\ Advance(store')
                /\ behind' = behind \cup 1..(a - 1)
                /\ UNCHANGED <<file, unchecked>>
             \/ /\ ~(a \in ApiKey /\ found) /\ (read => file[a].at <= round.at)
                /\ Write(a, Payload(a, found), found)
     \/ /\ EntryFails
        /\ Advance(round)
        /\ behind' = behind \cup {a}
        /\ UNCHANGED <<store, setBack, file, unchecked>>
  /\ UNCHANGED <<lock, call, status, failures, retry, oauthVars, logins, hours, selves,
                 overtaken, replaced, reused>>

----------------------------------------------------------------------------
(* Refresh *)

Expiring(at) == at <= expiring

\* The newest access token among the agents' files.
Best == LET ats == {file[a].at : a \in 1..Agents} \cup {0}
        IN CHOOSE at \in ats : \A other \in ats : other <= at

\* refreshOAuthToken up to its first await (calls are told apart by the lowest free
\* number): a token that is about to expire is
\* refreshed under the lock, for another one the agents' files are looked at.
Begin(c) ==
  /\ call[c] = Quiet /\ \A d \in 1..(c - 1) : call[d] # Quiet
  /\ status # "requires_login"
  /\ \/ /\ Expiring(store.at)
        /\ call' = [call EXCEPT ![c] =
             [Quiet EXCEPT !.step = "locking", !.seq = store.seq, !.rt = store.rt]]
     \/ /\ ~Expiring(store.at) /\ Best > store.at
        /\ call' = [call EXCEPT ![c] = [Quiet EXCEPT !.step = "collecting", !.at = Best]]

\* The refresh timer, the check that starts it, and POST /api/auth/refresh.
TimerFires(c) ==
  /\ Begin(c)
  /\ UNCHANGED <<store, file, lock, round, status, failures, retry, oauthVars, history>>

\* The retry; it may find nothing to do.
RetryFires(c) ==
  /\ round = Still
  /\ retry /\ call[c] = Quiet
  /\ retry' = FALSE
  /\ \/ Begin(c)
     \/ /\ status = "requires_login" \/ (~Expiring(store.at) /\ Best <= store.at)
        /\ UNCHANGED call
  /\ UNCHANGED <<store, file, lock, round, status, failures, oauthVars, history>>

Lockable == lock \in {Free, Stale}

\* acquireLock gives up: the refresh is retried later, the collection is not.
LockTimeout(c) ==
  /\ round = Still
  /\ call[c].step \in {"locking", "collecting"} /\ ~Lockable
  /\ call' = [call EXCEPT ![c] = Quiet]
  /\ retry' = (retry \/ call[c].step = "locking")
  /\ UNCHANGED <<store, file, lock, round, status, failures, oauthVars, history>>

\* The refresh token of the call has a successor that the server has stored, and no merge
\* has put an older one over it.
Spent(c) == call[c].rt \in replaced /\ ~setBack

\* Mutant: no second look at the store under the lock.
AcquireOnly(c) ==
  /\ call[c].step = "locking" /\ Lockable
  /\ lock' = c
  /\ call' = [call EXCEPT ![c].step = "exchanging"]
  /\ reused' = (reused \/ Spent(c))
  /\ UNCHANGED <<store, file, round, status, failures, retry, oauthVars, counters, overtaken, setBack, replaced, outcome>>

\* The lock is taken and the store read again: another call may have refreshed it.
\* Otherwise the refresh token read before the lock goes to the OAuth server.
Acquire(c) ==
  /\ call[c].step = "locking" /\ Lockable
  /\ \/ /\ ~Expiring(store.at)
        /\ lock' = Free
        /\ call' = [call EXCEPT ![c] = Quiet]
        /\ failures' = 0 /\ status' = "ok"
        /\ UNCHANGED reused
     \/ /\ Expiring(store.at)
        /\ lock' = c
        /\ call' = [call EXCEPT ![c].step = "exchanging"]
        /\ reused' = (reused \/ Spent(c))
        /\ UNCHANGED <<failures, status>>
  /\ UNCHANGED <<store, file, round, retry, oauthVars, counters, overtaken, setBack, replaced, outcome>>

\* collectAgentTokens under the lock: what was the newest token before the wait is
\* merged into what the store holds now.
Collect(c) ==
  /\ call[c].step = "collecting" /\ Lockable
  /\ Collected(call[c].at)
  /\ behind' = 1..Agents
  /\ lock' = Free
  /\ call' = [call EXCEPT ![c] = Quiet]
  /\ UNCHANGED <<file, round, status, failures, retry, oauthVars, counters, overtaken, replaced, reused,
                 unchecked>>

----------------------------------------------------------------------------
(* The OAuth server *)

\* It issues an access token for a refresh token it accepts, and may rotate that.
Issue(rt, new) ==
  /\ rt \in valid
  /\ issued' = issued + 1
  /\ new = [at |-> issued + 1, rt |-> new.rt]
  /\ \/ new.rt = rt /\ UNCHANGED valid
     \/ /\ new.rt = [id |-> issued + 1, login |-> rt.login]
        /\ valid' = (valid \ {rt}) \cup {new.rt}

Answers(rt) == [at : {issued + 1}, rt : {rt, [id |-> issued + 1, login |-> rt.login]}]

Reply(c, step, new) == call' = [call EXCEPT ![c].step = step, ![c].new = new]

\* The exchange of call c: it succeeds, is refused for good, or fails for a passing
\* reason, before or after the server has acted on it.
Exchange(c) ==
  /\ call[c].step = "exchanging"
  /\ \/ \E new \in Answers(call[c].rt) :
          /\ Issue(call[c].rt, new)
          /\ \/ Reply(c, "ok", new) /\ UNCHANGED faults
             \/ faults < MaxFaults /\ faults' = faults + 1 /\ Reply(c, "failing", Empty)
     \/ /\ call[c].rt \notin valid
        /\ Reply(c, "refused", Empty)
        /\ UNCHANGED <<issued, valid, faults>>
     \/ /\ faults < MaxFaults /\ faults' = faults + 1
        /\ Reply(c, "failing", Empty)
        /\ UNCHANGED <<issued, valid>>
  /\ UNCHANGED <<store, file, lock, round, status, failures, retry, old, expiring,
                 logins, hours, selves, overtaken, setBack, replaced, reused, outcome>>

\* Claude Code in an agent's terminal refreshes the token of its own file.
SelfRefresh(a) ==
  /\ selves < MaxSelf /\ selves' = selves + 1
  /\ file[a].rt # None /\ Expiring(file[a].at)
  /\ \E new \in Answers(file[a].rt) :
       /\ Issue(file[a].rt, new)
       /\ file' = [file EXCEPT ![a] = new]
  /\ UNCHANGED <<store, lock, call, round, status, failures, retry, old, expiring,
                 logins, hours, faults, overtaken, setBack, replaced, reused, outcome>>

----------------------------------------------------------------------------
(* The answer *)

\* Mutant: the lock is not released.
FinishHolding(c) == call' = [call EXCEPT ![c] = Quiet] /\ UNCHANGED lock

Finish(c) == call' = [call EXCEPT ![c] = Quiet] /\ lock' = Free

\* The compare of the compare-and-swap.
Unchanged(c) == store.seq = call[c].seq

\* Mutant: the new token is stored, and not distributed.
RefreshedQuietly(c) ==
  /\ call[c].step = "ok" /\ round = Still
  /\ failures' = 0 /\ status' = "ok" /\ retry' = FALSE
  /\ store' = [at |-> call[c].new.at, rt |-> call[c].new.rt, seq |-> call[c].seq + 1]
  /\ replaced' = replaced \cup ({call[c].rt} \ {call[c].new.rt})
  /\ setBack' = FALSE
  /\ behind' = {}
  /\ Finish(c)
  /\ UNCHANGED <<file, round, oauthVars, counters, overtaken, reused, unchecked>>

\* A new token that another writer has overtaken is dropped; any other is stored
\* and distributed.
Refreshed(c) ==
  /\ call[c].step = "ok" /\ round = Still
  /\ failures' = 0 /\ status' = "ok"
  /\ \/ /\ ~Unchanged(c)
        /\ UNCHANGED <<store, round, retry, replaced, setBack, behind>>
     \/ /\ Unchanged(c)
        /\ store' = [at |-> call[c].new.at, rt |-> call[c].new.rt, seq |-> call[c].seq + 1]
        /\ retry' = FALSE
        /\ Distribute(store')
        /\ replaced' = replaced \cup ({call[c].rt} \ {call[c].new.rt})
        /\ setBack' = FALSE
  /\ Finish(c)
  /\ UNCHANGED <<file, oauthVars, counters, overtaken, reused, unchecked>>

CountFailure == failures' = IF failures < MAX_RETRIES THEN failures + 1 ELSE failures

\* Mutant: every failure counts as permanent.
FailedForGood(c) ==
  /\ CountFailure /\ round = Still
  /\ call[c].step \in {"refused", "failing"}
  /\ status' = "requires_login" /\ retry' = FALSE
  /\ Finish(c)
  /\ UNCHANGED <<store, file, round, oauthVars, history>>

\* A permanent failure ends the retries until the next login or restart, a passing
\* one schedules a retry.
RefreshFailed(c) ==
  /\ CountFailure /\ round = Still
  /\ \/ /\ call[c].step = "refused"
        /\ status' = "requires_login" /\ retry' = FALSE
     \/ /\ call[c].step = "failing"
        /\ status' = IF failures' >= MAX_RETRIES THEN "failed" ELSE "retrying"
        /\ retry' = TRUE
  /\ Finish(c)
  /\ UNCHANGED <<store, file, round, oauthVars, history>>

----------------------------------------------------------------------------
(* Login, time, restarts *)

UnderWay(c) == call[c].step \in {"locking", "exchanging", "ok", "refused", "failing"}

\* completeLogin: the store is written anew, whatever it holds.
Login ==
  /\ round = Still
  /\ logins < MaxLogins /\ logins' = logins + 1
  /\ issued' = issued + 1
  /\ LET rt == [id |-> issued + 1, login |-> logins + 1] IN
     /\ valid' = valid \cup {rt}
     /\ store' = [at |-> issued + 1, rt |-> rt, seq |-> 0]
  /\ failures' = 0 /\ status' = "ok"
  /\ Distribute(store')
  /\ overtaken' = \E c \in Calls : UnderWay(c)
  /\ setBack' = FALSE
  /\ UNCHANGED <<file, lock, call, retry, old, expiring,
                 hours, selves, faults, replaced, reused, unchecked>>

\* Nothing is under way and the timer finds nothing to do.
Settled ==
  /\ \A c \in Calls : call[c] = Quiet
  /\ round = Still
  /\ \/ status = "requires_login"
     \/ ~Expiring(store.at) /\ Best <= store.at

\* Calls take seconds and tokens live for hours: a token is old when the server has
\* been idle since it was issued.
HoursPass ==
  /\ hours < MaxHours /\ hours' = hours + 1
  /\ Settled /\ old # issued
  /\ old' = issued
  /\ UNCHANGED <<serverVars, issued, valid, expiring,
                 logins, selves, faults, overtaken, setBack, replaced, reused, outcome>>

\* An old token comes within REFRESH_BUFFER of its end.
Expire ==
  /\ expiring' \in (expiring + 1)..old
  /\ UNCHANGED <<serverVars, issued, valid, old, history>>

\* The lock file of a server that has ended comes of age.
LockAges ==
  /\ lock = Dead /\ lock' = Stale
  /\ UNCHANGED <<store, file, call, round, status, failures, retry, oauthVars, history>>

\* The server ends at any point and is started again: init distributes.
Restart ==
  /\ faults < MaxFaults /\ faults' = faults + 1
  /\ lock' = IF lock \in Calls THEN Dead ELSE lock
  /\ call' = [c \in Calls |-> Quiet]
  /\ Distribute(store)
  /\ status' = "never" /\ failures' = 0 /\ retry' = FALSE
  /\ UNCHANGED <<store, file, oauthVars, logins, hours, selves,
                 overtaken, setBack, replaced, reused, unchecked>>

Next ==
  \/ DistributeOne
  \/ \E c \in Calls : TimerFires(c) \/ RetryFires(c) \/ LockTimeout(c) \/ Acquire(c) \/ Collect(c)
  \/ \E c \in Calls : Exchange(c) \/ Refreshed(c) \/ RefreshFailed(c)
  \/ \E a \in 1..Agents : SelfRefresh(a)
  \/ Login \/ HoursPass \/ Expire \/ LockAges \/ Restart

\* The timer fires every five minutes, timeouts bound the waits and the exchange.
Fairness ==
  /\ WF_vars(DistributeOne)
  /\ \A c \in Calls : WF_vars(TimerFires(c)) /\ WF_vars(LockTimeout(c) \/ Acquire(c) \/ Collect(c))
  /\ \A c \in Calls : WF_vars(Exchange(c)) /\ WF_vars(Refreshed(c) \/ RefreshFailed(c))
  /\ WF_vars(LockAges)

Spec == Init /\ [][Next]_vars /\ Fairness

----------------------------------------------------------------------------
(* Properties *)

Tokens == [at : Nat, rt : Refresh]
Steps == {"idle", "locking", "collecting", "exchanging", "ok", "refused", "failing"}

\* Every variable has its type.
TypeOK ==
  /\ store \in [at : Nat \ {0}, rt : Refresh, seq : Nat]
  /\ file \in [1..Agents -> Tokens]
  /\ lock \in Calls \cup {Free, Dead, Stale}
  /\ call \in [Calls -> [step : Steps, seq : Nat, rt : Refresh, at : Nat, new : Tokens]]
  /\ round \in [next : 0..Agents, at : Nat, rt : Refresh]
  /\ status \in {"never", "ok", "retrying", "failed", "requires_login"}
  /\ failures \in 0..MAX_RETRIES /\ retry \in BOOLEAN
  /\ issued \in Nat \ {0} /\ valid \subseteq Refresh
  /\ old \in 0..issued /\ expiring \in 0..old
  /\ logins \in 0..MaxLogins /\ hours \in 0..MaxHours /\ selves \in 0..MaxSelf
  /\ faults \in 0..MaxFaults
  /\ overtaken \in BOOLEAN /\ setBack \in BOOLEAN /\ replaced \subseteq Refresh /\ reused \in BOOLEAN
  /\ unchecked \subseteq 1..Agents /\ behind \subseteq 1..Agents

\* However the timer, the retry, POST /api/auth/refresh and their waits for the lock
\* overlap, the server never presents a refresh token again whose successor it has
\* stored: the token each call read before it waited is still the one of the store,
\* or the second look under the lock ends the call.  Only a merge deceives that look,
\* until the next refresh: it may put an old token of an agent over the one a refresh
\* has just stored.
NoTokenSpentTwice == ~reused

\* The server asks for a login only when the refresh token it holds is dead, unless
\* a login was completed under the exchange that was refused, or a merge has deceived
\* the second look since the last refresh.
LoginReallyRequired ==
  status = "requires_login" /\ ~overtaken /\ ~setBack => store.rt \notin valid

\* Whatever is collected from agents, some of which are given no refresh token, the
\* store never loses its refresh token.  A path_a agent's file holds one, and an
\* api_key agent's file anything, only if the lookup failed when that file was last
\* written: a failed lookup hands the refresh token out, and the next distribution
\* that overwrites the file takes it back.
RefreshTokensInPlace ==
  /\ store.rt # None
  /\ \A a \in PathA \ unchecked : file[a].rt = None
  /\ \A a \in ApiKey \ unchecked : file[a] = Empty

\* A distribution that has ended, over restarts in the middle of earlier ones, leaves no
\* agent with an older token than the store's.  Left behind are only agents whose file
\* could not be written, those a running distribution had passed when it merged a newer
\* token, and all once collectAgentTokens has merged one, which distributes nothing.
NoneLeftBehind ==
  round = Still => \A a \in (1..Agents) \ (ApiKey \cup behind) : file[a].at >= store.at

\* A file would not go back to an older token: refuted, as a file that cannot be read is
\* overwritten.
FilesNeverGoBack == [][\A a \in (1..Agents) \ ApiKey : file'[a].at >= file[a].at]_vars

\* A login that no exchange was under way for is not undone by what the server does
\* with tokens of earlier sessions.
LoginKept == ~overtaken => store.rt.login = logins

\* credential-manager.mjs:346: the second reading of the store tells a refresh that
\* another writer has been there in the meantime, and its result is not written.
LoginNotUndone == store.rt.login = logins

\* A stored token that is about to expire is replaced in the end, or a login asked for.
RefreshedInTheEnd == Expiring(store.at) ~> (~Expiring(store.at) \/ status = "requires_login")

=============================================================================
