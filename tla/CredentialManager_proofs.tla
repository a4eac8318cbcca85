---------------------- MODULE CredentialManager_proofs ----------------------
(***************************************************************************)
(* Theorems about CredentialManager for every set of agents and every      *)
(* bound.  The invariant has seven parts beside the types: how tokens are  *)
(* ordered by their issue (TokenOrder), that the lock names its holder     *)
(* (LockHeld), what a call that waits for it may rely on (SpentTokens,     *)
(* DeadTokens), where refresh tokens are (PlaceInv), which login they stem *)
(* from (LoginInv), and which agents a distribution has served (Served).   *)
(***************************************************************************)
EXTENDS CredentialManager, WellFoundedInduction, TLAPS

\* Calls that have passed the lock and not finished.
Holding(c) == call[c].step \in {"exchanging", "ok", "refused", "failing"}

\* Nothing is newer than the last token issued, and an answer under way is newer than
\* every token that is hours old.
TokenOrder ==
  /\ store.at <= issued /\ store.rt.id <= issued
  /\ \A a \in 1..Agents : file[a].at <= issued
  /\ round.at <= issued
  /\ \A c \in Calls : /\ call[c].at <= issued /\ call[c].rt.id <= issued
                      /\ call[c].new.at <= issued /\ call[c].new.rt.id <= issued
                      /\ call[c].step = "ok" => call[c].new.at > old
                      /\ call[c].step = "collecting" => call[c].at > 0
  /\ \A rt \in replaced : rt.id <= issued

\* The lock file names the one call that is past the wait for it.
LockHeld == \A c \in Calls : Holding(c) => lock = c

\* A token whose successor is stored is dead, it is not in the store nor on its way to
\* it, and unless a merge has set the store back, a call that still waits with it will
\* find a token in the store that does not expire before the call ends.
SpentTokens ==
  /\ ~reused
  /\ store.rt \notin replaced /\ replaced \cap valid = {}
  /\ \A c \in Calls :
       call[c].step = "ok" =>
         /\ call[c].new.rt \notin replaced
         /\ call[c].new.rt = call[c].rt \/ call[c].rt \notin valid
  /\ ~setBack => \A c \in Calls :
                   call[c].step = "locking" /\ call[c].rt \in replaced => store.at > old

SpentInv == TypeOK /\ TokenOrder /\ LockHeld /\ SpentTokens

\* Without a login in between as well, a call presents the token of the store.
DeadTokens ==
  /\ \A c \in Calls : call[c].step = "refused" => call[c].rt \notin valid
  /\ ~overtaken /\ ~setBack =>
       /\ \A c \in Calls :
            /\ call[c].step = "locking" => call[c].rt = store.rt \/ store.at > old
            /\ Holding(c) => call[c].rt = store.rt
       /\ status = "requires_login" => store.rt \notin valid

\* The refresh tokens under way are tokens.
PlaceInv ==
  /\ RefreshTokensInPlace
  /\ \A c \in Calls :
       /\ UnderWay(c) => call[c].rt # None
       /\ call[c].step = "ok" => call[c].new.rt # None

\* What is under way stems from the latest login, unless that overtook it.
LoginInv ==
  /\ LoginKept
  /\ \A c \in Calls :
       /\ UnderWay(c) /\ ~overtaken => call[c].rt.login = logins
       /\ call[c].step = "ok" => call[c].new.rt.login = call[c].rt.login

\* The entries a distribution has passed have no older token than the store, unless
\* they are marked, and it carries the token of the store, unless all are marked.
Passed(a) == round.next = 0 \/ a < round.next

Served ==
  /\ round.next # 0 => round.at = store.at \/ behind = 1..Agents
  /\ \A a \in (1..Agents) \ (ApiKey \cup behind) : Passed(a) => file[a].at >= store.at

IInv == SpentInv /\ DeadTokens /\ PlaceInv /\ LoginInv /\ Served

----------------------------------------------------------------------------
(* Types *)

CallType == [step : Steps, seq : Nat, rt : Refresh, at : Nat, new : Tokens]
RoundType == [next : 0..Agents, at : Nat, rt : Refresh]
StoreType == [at : Nat \ {0}, rt : Refresh, seq : Nat]

LEMMA BoundTypes ==
  /\ Agents \in Nat /\ Agents > 0 /\ MAX_RETRIES \in Nat /\ MAX_RETRIES > 0
  /\ MaxCalls \in Nat
  /\ MaxHours \in Nat /\ MaxSelf \in Nat /\ MaxLogins \in Nat /\ MaxFaults \in Nat
BY AgentsAssumption, BoundsAssumption

LEMMA ValueTypes ==
  /\ None \in Refresh /\ None.id = 0
  /\ Empty \in Tokens /\ Empty.at = 0 /\ Empty.rt = None
  /\ Quiet \in CallType
  /\ Quiet.step = "idle" /\ Quiet.rt = None /\ Quiet.at = 0 /\ Quiet.new = Empty
  /\ Still \in RoundType /\ Still.at = 0 /\ Still.next = 0
BY BoundTypes
   DEF None, Refresh, Empty, Tokens, Quiet, CallType, Steps, Still, RoundType

\* Best is the newest token of the agents' files, or 0.
LEMMA BestFacts ==
  ASSUME NEW n \in Nat, file \in [1..Agents -> Tokens], \A a \in 1..Agents : file[a].at <= n
  PROVE  Best \in 0..n
<1> DEFINE ats == {file[a].at : a \in 1..Agents} \cup {0}
           gaps == {n - at : at \in ats}
<1>1. ats \subseteq 0..n
  BY DEF Tokens
<1>2. gaps \in SUBSET Nat /\ gaps # {}
  BY <1>1
<1>3. PICK gap \in gaps : \A other \in gaps : gap <= other
  <2>1. gaps \subseteq Nat /\ gaps # {}
    BY <1>2
  <2> HIDE DEF gaps
  <2>2. PICK gap \in gaps : \A other \in gaps : ~(<<other, gap>> \in OpToRel(<, Nat))
    BY <2>1, NatLessThanWellFounded, WFMin, ZenonT(30)
  <2>3. ASSUME NEW other \in gaps PROVE gap <= other
    <3>1. ~(other < gap) /\ other \in Nat /\ gap \in Nat
      BY <2>1, <2>2 DEF OpToRel
    <3>2. QED
      BY <3>1
  <2>4. QED
    BY <2>3
<1>4. PICK at \in ats : gap = n - at
  BY <1>3
<1>5. \A other \in ats : other <= at
  <2> SUFFICES ASSUME NEW other \in ats PROVE other <= at
    OBVIOUS
  <2>1. n - other \in gaps
    OBVIOUS
  <2>2. n - at <= n - other
    BY <1>3, <1>4, <2>1
  <2>3. QED
    BY <1>1, <2>2
<1>6. Best \in ats
  BY <1>4, <1>5 DEF Best
<1>7. QED
  BY <1>1, <1>6

\* What the OAuth server does with a refresh token.
LEMMA IssueFacts ==
  ASSUME TypeOK, NEW rt \in Refresh, NEW new \in Answers(rt), Issue(rt, new)
  PROVE  /\ new \in Tokens /\ new.at = issued + 1
         /\ rt \in valid
         /\ new.rt.login = rt.login
         /\ new.rt = rt \/ (new.rt.id = issued + 1 /\ (rt.id <= issued => rt \notin valid'))
         /\ issued' = issued + 1
         /\ valid' \subseteq Refresh
         /\ \A x \in valid' : x \in valid \/ x.id = issued + 1
<1>1. /\ issued \in Nat /\ valid \subseteq Refresh
      /\ [id |-> issued + 1, login |-> rt.login] \in Refresh
  BY DEF TypeOK, Refresh
<1>2. /\ new \in Tokens /\ new.at = issued + 1
      /\ new.rt = rt \/ new.rt = [id |-> issued + 1, login |-> rt.login]
  BY <1>1 DEF Answers, Tokens
<1>3. /\ rt \in valid /\ issued' = issued + 1
      /\ \/ new.rt = rt /\ valid' = valid
         \/ /\ new.rt = [id |-> issued + 1, login |-> rt.login]
            /\ valid' = (valid \ {rt}) \cup {[id |-> issued + 1, login |-> rt.login]}
  BY <1>2 DEF Issue
<1>4. rt.id <= issued => rt # [id |-> issued + 1, login |-> rt.login]
  BY <1>1 DEF Refresh
<1>5. QED
  BY <1>1, <1>2, <1>3, <1>4

LEMMA TypesInit == Init => TypeOK
<1> SUFFICES ASSUME Init PROVE TypeOK
  OBVIOUS
<1> USE BoundTypes, ValueTypes
<1>1. [id |-> 1, login |-> 0] \in Refresh
  BY DEF Refresh
<1>2. First(store) \in RoundType
  BY <1>1 DEF Init, RoundType, First
<1>3. round \in RoundType
  BY <1>2 DEF Init
<1>4. call \in [Calls -> CallType]
  BY DEF Init
<1>5. store \in StoreType
  BY <1>1 DEF Init, StoreType
<1>6. file \in [1..Agents -> Tokens] /\ valid \subseteq Refresh
  BY <1>1 DEF Init
<1>7. lock \in Calls \cup {Free, Dead, Stale}
  BY DEF Init
<1>8. /\ status \in {"never", "ok", "retrying", "failed", "requires_login"}
  BY DEF Init
<1>9. failures \in 0..MAX_RETRIES
  BY DEF Init
<1>10. retry \in BOOLEAN
  BY DEF Init
<1>11. /\ issued \in Nat \ {0} /\ old \in 0..issued /\ expiring \in 0..old
  BY DEF Init
<1>12. /\ logins \in 0..MaxLogins /\ hours \in 0..MaxHours /\ selves \in 0..MaxSelf
      /\ faults \in 0..MaxFaults
  BY DEF Init
<1>13. /\ overtaken \in BOOLEAN /\ setBack \in BOOLEAN
       /\ replaced \subseteq Refresh /\ reused \in BOOLEAN
       /\ unchecked \subseteq 1..Agents /\ behind \subseteq 1..Agents
  BY DEF Init
<1>14. QED
  BY <1>3, <1>4, <1>5, <1>6, <1>7, <1>8, <1>9, <1>10, <1>11, <1>12, <1>13
     DEF TypeOK, RoundType, CallType, StoreType

\* TypeOK by the names of its sets.
Types ==
  /\ store \in StoreType /\ file \in [1..Agents -> Tokens]
  /\ lock \in Calls \cup {Free, Dead, Stale}
  /\ call \in [Calls -> CallType] /\ round \in RoundType
  /\ status \in {"never", "ok", "retrying", "failed", "requires_login"}
  /\ failures \in 0..MAX_RETRIES /\ retry \in BOOLEAN
  /\ issued \in Nat \ {0} /\ valid \subseteq Refresh
  /\ old \in 0..issued /\ expiring \in 0..old
  /\ logins \in 0..MaxLogins /\ hours \in 0..MaxHours /\ selves \in 0..MaxSelf
  /\ faults \in 0..MaxFaults
  /\ overtaken \in BOOLEAN /\ setBack \in BOOLEAN
  /\ replaced \subseteq Refresh /\ reused \in BOOLEAN
  /\ unchecked \subseteq 1..Agents /\ behind \subseteq 1..Agents

LEMMA TypeParts == (TypeOK <=> Types) /\ (TypeOK' <=> Types')
BY DEF TypeOK, Types, StoreType, CallType, RoundType

\* The next entry of a distribution, and a new distribution.
LEMMA RoundTypes ==
  ASSUME TypeOK, NEW creds, creds.at \in Nat, creds.rt \in Refresh,
         (round.next # 0 /\ Advance(creds)) \/ Distribute(creds)
  PROVE  round' \in RoundType
<1>1. round \in RoundType
  BY DEF TypeOK, RoundType
<1>2. CASE round.next # 0 /\ Advance(creds)
  <2>1. round.next # Agents => [next |-> round.next + 1, at |-> creds.at, rt |-> creds.rt] \in RoundType
    BY <1>1, <1>2, BoundTypes DEF RoundType
  <2>2. QED
    BY <1>2, <2>1, ValueTypes DEF Advance
<1>3. CASE Distribute(creds)
  <2>1. First(creds) \in RoundType
    BY BoundTypes DEF First, RoundType
  <2>2. QED
    BY <1>3, <2>1 DEF Distribute
<1>4. QED
  BY <1>2, <1>3

\* An entry of a distribution: its agent's file is replaced, or a newer token in it
\* merged, or the write fails.
Content(a, found) == IF a \in ApiKey /\ found THEN Empty ELSE Payload(a, found)

Entry(a) ==
  \/ \E found \in BOOLEAN : Write(a, Content(a, found), found)
  \/ /\ file[a].at > round.at /\ Collected(file[a].at) /\ Advance(store')
     /\ behind' = behind \cup 1..(a - 1) /\ UNCHANGED <<file, unchecked>>
  \/ /\ Advance(round) /\ behind' = behind \cup {a}
     /\ UNCHANGED <<store, setBack, file, unchecked>>

LEMMA EntrySteps ==
  ASSUME TypeOK, DistributeOne
  PROVE  /\ round.next \in 1..Agents /\ Entry(round.next)
         /\ round.at \in Nat /\ round.rt \in Refresh /\ file[round.next].at \in Nat
         /\ \A found \in BOOLEAN : Content(round.next, found) \in Tokens
         /\ faults' \in 0..MaxFaults
         /\ UNCHANGED <<lock, call, status, failures, retry, issued, valid, old, expiring,
                        logins, hours, selves, overtaken, replaced, reused>>
<1> DEFINE a == round.next
<1>1. /\ a \in 1..Agents /\ round.at \in Nat /\ round.rt \in Refresh
      /\ file[a] \in Tokens /\ faults \in 0..MaxFaults
  BY BoundTypes DEF TypeOK, DistributeOne
<1>2. file[a].at \in Nat /\ \A found \in BOOLEAN : Content(a, found) \in Tokens
  BY <1>1, ValueTypes DEF Content, Payload, Tokens
<1>3. faults' \in 0..MaxFaults
  BY <1>1, BoundTypes DEF DistributeOne, EntryFails
<1>4. Entry(a)
  <2>1. CASE Advance(round) /\ behind' = behind \cup {a}
             /\ UNCHANGED <<store, setBack, file, unchecked>>
    BY <2>1 DEF Entry
  <2>2. ASSUME NEW found \in BOOLEAN,
               \/ a \in ApiKey /\ found /\ Write(a, Empty, found)
               \/ ~(a \in ApiKey /\ found) /\ Write(a, Payload(a, found), found)
        PROVE  Entry(a)
    <3>1. Write(a, Content(a, found), found)
      BY <2>2 DEF Content
    <3>2. QED
      BY <3>1 DEF Entry
  <2>3. CASE /\ file[a].at > round.at /\ Collected(file[a].at) /\ Advance(store')
             /\ behind' = behind \cup 1..(a - 1) /\ UNCHANGED <<file, unchecked>>
    BY <2>3 DEF Entry
  <2>4. QED
    BY <2>1, <2>2, <2>3 DEF DistributeOne
<1>5. QED
  BY <1>1, <1>2, <1>3, <1>4 DEF DistributeOne, oauthVars

LEMMA MergeType ==
  ASSUME TypeOK, NEW at \in Nat, at > 0
  PROVE  Merge(at) \in StoreType /\ Merge(at).at = at /\ Merge(at).rt = store.rt
BY DEF TypeOK, Merge, StoreType

\* A call goes on to its next step, ends, or has its answer.
LEMMA CallTypes ==
  ASSUME TypeOK, NEW c \in Calls, NEW step \in Steps, NEW new \in Tokens, NEW at \in Nat,
         \/ call' = [call EXCEPT ![c] = Quiet]
         \/ call' = [call EXCEPT ![c].step = step]
         \/ Reply(c, step, new)
         \/ call' = [call EXCEPT ![c] =
               [Quiet EXCEPT !.step = "locking", !.seq = store.seq, !.rt = store.rt]]
         \/ call' = [call EXCEPT ![c] = [Quiet EXCEPT !.step = "collecting", !.at = at]]
  PROVE  call' \in [Calls -> CallType]
<1>1. call \in [Calls -> CallType] /\ store \in StoreType
  BY TypeParts DEF Types
<1>2. /\ [Quiet EXCEPT !.step = "locking", !.seq = store.seq, !.rt = store.rt] \in CallType
      /\ [Quiet EXCEPT !.step = "collecting", !.at = at] \in CallType
  BY <1>1, ValueTypes DEF CallType, StoreType, Steps
<1>3. CASE call' = [call EXCEPT ![c] = Quiet]
  BY <1>1, <1>3, ValueTypes
<1>4. CASE call' = [call EXCEPT ![c].step = step] \/ Reply(c, step, new)
  BY <1>1, <1>4 DEF CallType, Reply
<1>5. CASE call' = [call EXCEPT ![c] =
             [Quiet EXCEPT !.step = "locking", !.seq = store.seq, !.rt = store.rt]]
  BY <1>1, <1>2, <1>5
<1>6. CASE call' = [call EXCEPT ![c] = [Quiet EXCEPT !.step = "collecting", !.at = at]]
  BY <1>1, <1>2, <1>6
<1>7. QED
  BY <1>3, <1>4, <1>5, <1>6

\* The call that begins has read the store, or seen a newer token in an agent's file.
LEMMA BeginFacts ==
  ASSUME TypeOK, TokenOrder, NEW c \in Calls, Begin(c)
  PROVE  /\ call[c] = Quiet /\ status # "requires_login"
         /\ \/ call' = [call EXCEPT ![c] =
                  [Quiet EXCEPT !.step = "locking", !.seq = store.seq, !.rt = store.rt]]
            \/ \E at \in 1..issued :
                 call' = [call EXCEPT ![c] = [Quiet EXCEPT !.step = "collecting", !.at = at]]
<1>1. Best \in 0..issued
  BY BestFacts DEF TypeOK, TokenOrder
<1>2. Best > store.at => Best \in 1..issued
  BY <1>1 DEF TypeOK
<1>3. QED
  BY <1>2 DEF Begin

LEMMA TypesNext == TypeOK /\ TokenOrder /\ [Next]_vars => TypeOK'
<1> SUFFICES ASSUME TypeOK, TokenOrder, [Next]_vars PROVE TypeOK'
  OBVIOUS
<1> USE ValueTypes DEF oauthVars, counters, history, outcome, serverVars
<1>1. CASE DistributeOne
  <2> DEFINE a == round.next
  <2>1. /\ a # 0 /\ a \in 1..Agents
        /\ round.at \in Nat /\ round.rt \in Refresh /\ file[a].at \in Nat
        /\ \A found \in BOOLEAN : Content(a, found) \in Tokens
        /\ Entry(a)
    BY <1>1, EntrySteps
  <2> HIDE DEF a
  <2>2. CASE \E found \in BOOLEAN : Write(a, Content(a, found), found)
    <3>1. PICK found \in BOOLEAN : Write(a, Content(a, found), found)
      BY <2>2
    <3>2. round' \in RoundType
      BY <2>1, <3>1, RoundTypes DEF Write, a
    <3>3. /\ file' \in [1..Agents -> Tokens] /\ UNCHANGED <<store, setBack>>
          /\ unchecked' \subseteq 1..Agents /\ behind' \subseteq 1..Agents
      BY <2>1, <3>1, TypeParts DEF Types, Write
    <3>4. QED
      BY <1>1, <3>2, <3>3, EntrySteps, TypeParts DEF Types
  <2>3. CASE /\ file[a].at > round.at /\ Collected(file[a].at) /\ Advance(store')
             /\ behind' = behind \cup 1..(a - 1) /\ UNCHANGED <<file, unchecked>>
    <3>1. store' \in StoreType /\ setBack' \in BOOLEAN
      BY <2>1, <2>3, MergeType DEF Collected, TypeOK
    <3>2. round' \in RoundType
      BY <2>1, <2>3, <3>1, RoundTypes DEF StoreType, a
    <3>3. behind' \subseteq 1..Agents
      BY <2>1, <2>3, BoundTypes, TypeParts DEF Types
    <3>4. QED
      BY <1>1, <2>3, <3>1, <3>2, <3>3, EntrySteps, TypeParts DEF Types
  <2>4. CASE /\ Advance(round) /\ behind' = behind \cup {a}
             /\ UNCHANGED <<store, setBack, file, unchecked>>
    <3>1. round' \in RoundType
      BY <2>1, <2>4, RoundTypes DEF a
    <3>2. QED
      BY <1>1, <2>1, <2>4, <3>1, EntrySteps, TypeParts DEF Types
  <2>5. QED
    BY <2>1, <2>2, <2>3, <2>4 DEF Entry
<1>2. ASSUME NEW c \in Calls, Begin(c) PROVE call' \in [Calls -> CallType]
  <2>1. CASE \E at \in 1..issued :
               call' = [call EXCEPT ![c] = [Quiet EXCEPT !.step = "collecting", !.at = at]]
    <3>1. PICK at \in 1..issued :
            call' = [call EXCEPT ![c] = [Quiet EXCEPT !.step = "collecting", !.at = at]]
      BY <2>1
    <3>2. at \in Nat
      OBVIOUS
    <3>3. QED
      BY <3>1, <3>2, CallTypes DEF Steps
  <2>2. CASE call' = [call EXCEPT ![c] =
               [Quiet EXCEPT !.step = "locking", !.seq = store.seq, !.rt = store.rt]]
    BY <2>2, CallTypes DEF Steps
  <2>3. QED
    BY <1>2, <2>1, <2>2, BeginFacts
<1>3. ASSUME NEW c \in Calls, TimerFires(c) \/ RetryFires(c) PROVE TypeOK'
  <2>1. call' \in [Calls -> CallType]
    BY <1>2, <1>3, TypeParts DEF Types, TimerFires, RetryFires
  <2>2. retry' \in BOOLEAN
    BY <1>3, TypeParts DEF Types, TimerFires, RetryFires
  <2>3. QED
    BY <1>3, <2>1, <2>2, TypeParts DEF Types, TimerFires, RetryFires
<1>4. ASSUME NEW c \in Calls, LockTimeout(c) PROVE TypeOK'
  <2>1. call' \in [Calls -> CallType] /\ retry' \in BOOLEAN
    BY <1>4, TypeParts DEF Types, LockTimeout
  <2>2. QED
    BY <1>4, <2>1, TypeParts DEF Types, LockTimeout
<1>5. ASSUME NEW c \in Calls, Acquire(c) PROVE TypeOK'
  <2>1. call' \in [Calls -> CallType]
    BY <1>5, CallTypes DEF Acquire, Steps
  <2>2. /\ lock' \in Calls \cup {Free, Dead, Stale} /\ reused' \in BOOLEAN
    BY <1>5, TypeParts DEF Types, Acquire
  <2>3. /\ failures' \in 0..MAX_RETRIES
        /\ status' \in {"never", "ok", "retrying", "failed", "requires_login"}
    BY <1>5, TypeParts, BoundTypes DEF Types, Acquire
  <2>4. QED
    BY <1>5, <2>1, <2>2, <2>3, TypeParts DEF Types, Acquire
<1>6. ASSUME NEW c \in Calls, Collect(c) PROVE TypeOK'
  <2>1. call' \in [Calls -> CallType]
    BY <1>6, TypeParts DEF Types, Collect
  <2>2. call[c].at \in Nat /\ call[c].at > 0
    BY <1>6 DEF Collect, TokenOrder, TypeOK
  <2>3. /\ store' \in StoreType /\ setBack' \in BOOLEAN
        /\ lock' \in Calls \cup {Free, Dead, Stale} /\ behind' \subseteq 1..Agents
    BY <1>6, <2>2, MergeType, TypeParts DEF Types, Collect, Collected
  <2>4. QED
    BY <1>6, <2>1, <2>3, TypeParts DEF Types, Collect
<1>7. ASSUME NEW c \in Calls, Exchange(c) PROVE TypeOK'
  <2>1. call[c].rt \in Refresh /\ issued \in Nat
    BY DEF TypeOK
  <2>2. /\ \/ \E new \in Tokens, step \in Steps : Reply(c, step, new)
           \/ \E step \in Steps : Reply(c, step, Empty)
        /\ issued' \in {issued, issued + 1} /\ valid' \subseteq Refresh
        /\ faults' \in 0..MaxFaults
    <3>1. CASE \E new \in Answers(call[c].rt) :
                 /\ Issue(call[c].rt, new)
                 /\ \/ Reply(c, "ok", new) /\ UNCHANGED faults
                    \/ faults < MaxFaults /\ faults' = faults + 1 /\ Reply(c, "failing", Empty)
      <4>1. PICK new \in Answers(call[c].rt) :
              /\ Issue(call[c].rt, new)
              /\ \/ Reply(c, "ok", new) /\ UNCHANGED faults
                 \/ faults < MaxFaults /\ faults' = faults + 1 /\ Reply(c, "failing", Empty)
        BY <3>1
      <4>2. new \in Tokens /\ issued' = issued + 1 /\ valid' \subseteq Refresh
        BY <2>1, <4>1, IssueFacts
      <4>3. faults' \in 0..MaxFaults
        BY <4>1, BoundTypes, TypeParts DEF Types
      <4>4. QED
        BY <4>1, <4>2, <4>3 DEF Steps
    <3>2. CASE Reply(c, "refused", Empty) /\ UNCHANGED <<issued, valid, faults>>
      BY <3>2, TypeParts DEF Types, Steps
    <3>3. CASE faults < MaxFaults /\ faults' = faults + 1 /\ Reply(c, "failing", Empty)
               /\ UNCHANGED <<issued, valid>>
      BY <3>3, BoundTypes, TypeParts DEF Types, Steps
    <3>4. QED
      BY <1>7, <3>1, <3>2, <3>3 DEF Exchange
  <2>3. call' \in [Calls -> CallType]
    BY <2>2, CallTypes
  <2>4. issued' \in Nat \ {0} /\ old' \in 0..issued' /\ expiring' \in 0..old'
    BY <1>7, <2>2, TypeParts DEF Types, Exchange
  <2>5. QED
    BY <1>7, <2>2, <2>3, <2>4, TypeParts DEF Types, Exchange
<1>8. ASSUME NEW c \in Calls, Refreshed(c) PROVE TypeOK'
  <2>1. call' \in [Calls -> CallType]
    BY <1>8, TypeParts DEF Types, Refreshed, Finish
  <2>2. CASE ~Unchanged(c)
    BY <1>8, <2>1, <2>2, BoundTypes, TypeParts DEF Types, Refreshed, Finish
  <2>3. CASE Unchanged(c)
    <3>1. /\ call[c].new.at \in Nat /\ call[c].new.at > 0
          /\ call[c].new.rt \in Refresh /\ call[c].seq + 1 \in Nat /\ call[c].rt \in Refresh
      BY <1>8 DEF Refreshed, TypeOK, Tokens, TokenOrder
    <3>2. /\ store' = [at |-> call[c].new.at, rt |-> call[c].new.rt, seq |-> call[c].seq + 1]
          /\ Distribute(store') /\ retry' = FALSE /\ setBack' = FALSE
          /\ replaced' = replaced \cup ({call[c].rt} \ {call[c].new.rt})
      BY <1>8, <2>3 DEF Refreshed
    <3>3. store' \in StoreType /\ replaced' \subseteq Refresh
      BY <3>1, <3>2, TypeParts DEF Types, StoreType
    <3>4. round' \in RoundType /\ behind' = {}
      BY <3>2, <3>3, RoundTypes DEF StoreType, Distribute
    <3>5. failures' \in 0..MAX_RETRIES /\ status' = "ok" /\ lock' = Free
      BY <1>8, BoundTypes DEF Refreshed, Finish
    <3>6. QED
      BY <1>8, <2>1, <3>2, <3>3, <3>4, <3>5, TypeParts DEF Types, Refreshed, Finish
  <2>4. QED
    BY <2>2, <2>3
<1>9. ASSUME NEW c \in Calls, RefreshFailed(c) PROVE TypeOK'
  <2>1. call' \in [Calls -> CallType] /\ failures' \in 0..MAX_RETRIES
    BY <1>9, BoundTypes, TypeParts DEF Types, RefreshFailed, Finish, CountFailure
  <2>2. /\ status' \in {"never", "ok", "retrying", "failed", "requires_login"}
        /\ retry' \in BOOLEAN
    BY <1>9 DEF RefreshFailed
  <2>3. QED
    BY <1>9, <2>1, <2>2, TypeParts DEF Types, RefreshFailed, Finish
<1>10. ASSUME NEW a \in 1..Agents, SelfRefresh(a) PROVE TypeOK'
  <2>1. file[a].rt \in Refresh
    BY DEF TypeOK, Tokens
  <2>2. PICK new \in Answers(file[a].rt) :
          Issue(file[a].rt, new) /\ file' = [file EXCEPT ![a] = new]
    BY <1>10 DEF SelfRefresh
  <2>3. new \in Tokens /\ issued' = issued + 1 /\ valid' \subseteq Refresh
    BY <2>1, <2>2, IssueFacts
  <2>4. file' \in [1..Agents -> Tokens]
    BY <2>2, <2>3, TypeParts DEF Types
  <2>5. issued' \in Nat \ {0} /\ old' \in 0..issued' /\ expiring' \in 0..old'
    BY <1>10, <2>3, TypeParts DEF Types, SelfRefresh
  <2>6. selves' \in 0..MaxSelf
    BY <1>10, BoundTypes, TypeParts DEF Types, SelfRefresh
  <2>7. QED
    BY <1>10, <2>3, <2>4, <2>5, <2>6, TypeParts DEF Types, SelfRefresh
<1>11. CASE Login
  <2>1. logins' = logins + 1 /\ logins' \in 0..MaxLogins
    BY <1>11, BoundTypes, TypeParts DEF Types, Login
  <2>2. [id |-> issued + 1, login |-> logins + 1] \in Refresh
    BY <2>1, TypeParts DEF Types, Refresh
  <2>3. store' \in StoreType /\ valid' \subseteq Refresh
    BY <1>11, <2>2, TypeParts DEF Types, Login, StoreType
  <2>4. round' \in RoundType /\ behind' = {}
    BY <1>11, <2>3, RoundTypes DEF Login, StoreType, Distribute
  <2>5. issued' \in Nat \ {0} /\ old' \in 0..issued' /\ expiring' \in 0..old'
    BY <1>11, TypeParts DEF Types, Login
  <2>6. /\ overtaken' \in BOOLEAN /\ setBack' = FALSE
        /\ failures' \in 0..MAX_RETRIES /\ status' = "ok"
    BY <1>11, BoundTypes DEF Login
  <2>7. QED
    BY <1>11, <2>1, <2>3, <2>4, <2>5, <2>6, TypeParts DEF Types, Login
<1>12. CASE HoursPass
  BY <1>12, BoundTypes, TypeParts DEF Types, HoursPass
<1>13. CASE Expire
  BY <1>13, TypeParts DEF Types, Expire
<1>14. CASE LockAges
  BY <1>14, TypeParts DEF Types, LockAges
<1>15. CASE Restart
  <2>1. store.at \in Nat /\ store.rt \in Refresh
    BY TypeParts DEF Types, StoreType
  <2>2. round' \in RoundType /\ behind' = {}
    BY <1>15, <2>1, RoundTypes DEF Restart, Distribute
  <2>3. call' \in [Calls -> CallType]
    BY <1>15 DEF Restart
  <2>4. /\ lock' \in Calls \cup {Free, Dead, Stale}
        /\ failures' \in 0..MAX_RETRIES /\ faults' \in 0..MaxFaults
    BY <1>15, BoundTypes, TypeParts DEF Types, Restart
  <2>5. QED
    BY <1>15, <2>2, <2>3, <2>4, TypeParts DEF Types, Restart
<1>16. CASE UNCHANGED vars
  BY <1>16, TypeParts DEF Types, vars
<1>17. QED
  BY <1>1, <1>3, <1>4, <1>5, <1>6, <1>7, <1>8, <1>9, <1>10, <1>11, <1>12, <1>13, <1>14, <1>15, <1>16
     DEF Next

----------------------------------------------------------------------------
(* Tokens in the order of their issue *)

LEMMA OrderInit == Init => TokenOrder
BY ValueTypes DEF Init, TokenOrder, First

\* The credentials a distribution begins or goes on with are no newer than the last
\* token issued.
LEMMA RoundsOrdered ==
  ASSUME TypeOK, NEW n \in Nat, NEW creds, creds.at <= n, Advance(creds) \/ Distribute(creds)
  PROVE  round'.at <= n
BY ValueTypes DEF Advance, Distribute, First

\* What TokenOrder says of one call.
CallOrdered(q, i, o) ==
  /\ q.at <= i /\ q.rt.id <= i /\ q.new.at <= i /\ q.new.rt.id <= i
  /\ q.step = "ok" => q.new.at > o
  /\ q.step = "collecting" => q.at > 0

LEMMA OrderParts ==
  LET Parts == /\ store.at <= issued /\ store.rt.id <= issued
               /\ \A a \in 1..Agents : file[a].at <= issued
               /\ round.at <= issued
               /\ \A c \in Calls : CallOrdered(call[c], issued, old)
               /\ \A rt \in replaced : rt.id <= issued
  IN (TokenOrder <=> Parts) /\ (TokenOrder' <=> Parts')
BY DEF TokenOrder, CallOrdered

LEMMA QuietOrdered == issued \in Nat => CallOrdered(Quiet, issued, old)
BY ValueTypes DEF CallOrdered

LEMMA OrderNext == TypeOK /\ TokenOrder /\ [Next]_vars => TokenOrder'
<1> SUFFICES ASSUME TypeOK, TokenOrder, [Next]_vars PROVE TokenOrder'
  OBVIOUS
<1> USE DEF oauthVars, counters, history, outcome, serverVars
<1>1. /\ store \in StoreType /\ call \in [Calls -> CallType] /\ file \in [1..Agents -> Tokens]
      /\ issued \in Nat /\ old \in 0..issued /\ replaced \subseteq Refresh
      /\ round \in RoundType
  BY TypeParts DEF Types
<1>2. CASE DistributeOne
  <2> DEFINE a == round.next
  <2>1. UNCHANGED <<issued, call, old, replaced>> /\ a \in 1..Agents /\ Entry(a)
    BY <1>2, EntrySteps
  <2>2. /\ round.at <= issued /\ file[a].at <= issued
        /\ \A found \in BOOLEAN : Content(a, found).at <= issued
    BY <1>1, <2>1, ValueTypes DEF TokenOrder, Content, Payload
  <2> HIDE DEF a
  <2>3. \/ /\ UNCHANGED store /\ Advance(round)
           /\ file' = file \/ \E creds : file' = [file EXCEPT ![a] = creds] /\ creds.at <= issued
        \/ store' = Merge(file[a].at) /\ Advance(store') /\ file' = file
    BY <2>1, <2>2 DEF Entry, Write, Collected
  <2>4. store'.at <= issued /\ store'.rt = store.rt
    BY <2>2, <2>3 DEF Merge, TokenOrder
  <2>5. \A b \in 1..Agents : file'[b].at <= issued
    BY <1>1, <2>3 DEF TokenOrder
  <2>6. round'.at <= issued
    BY <1>1, <2>2, <2>3, <2>4, RoundsOrdered
  <2>7. QED
    BY <2>1, <2>4, <2>5, <2>6, OrderParts DEF TokenOrder
<1>3. ASSUME NEW c \in Calls, Begin(c) PROVE \A d \in Calls : CallOrdered(call'[d], issued, old)
  <2>1. \A d \in Calls \ {c} : call'[d] = call[d]
    BY <1>1, <1>3, BeginFacts
  <2>2. \/ call'[c] = [Quiet EXCEPT !.step = "locking", !.seq = store.seq, !.rt = store.rt]
        \/ \E at \in 1..issued : call'[c] = [Quiet EXCEPT !.step = "collecting", !.at = at]
    BY <1>1, <1>3, BeginFacts
  <2>3. CASE call'[c] = [Quiet EXCEPT !.step = "locking", !.seq = store.seq, !.rt = store.rt]
    <3>1. /\ call'[c].step = "locking" /\ call'[c].rt = store.rt /\ call'[c].at = 0
          /\ call'[c].new = Empty
      BY <2>3, ValueTypes DEF CallType, Quiet
    <3>2. store.rt.id <= issued
      BY DEF TokenOrder
    <3>3. QED
      BY <1>1, <2>1, <3>1, <3>2, ValueTypes, OrderParts DEF CallOrdered
  <2>4. CASE \E at \in 1..issued : call'[c] = [Quiet EXCEPT !.step = "collecting", !.at = at]
    <3>1. /\ call'[c].step = "collecting" /\ call'[c].rt = None /\ call'[c].at \in 1..issued
          /\ call'[c].new = Empty
      BY <2>4, ValueTypes DEF CallType, Quiet
    <3>2. QED
      BY <1>1, <2>1, <3>1, ValueTypes, OrderParts DEF CallOrdered
  <2>5. QED
    BY <2>2, <2>3, <2>4
<1>4. ASSUME NEW c \in Calls, TimerFires(c) \/ RetryFires(c) PROVE TokenOrder'
  <2>1. \A d \in Calls : CallOrdered(call'[d], issued, old)
    BY <1>3, <1>4, OrderParts DEF TimerFires, RetryFires
  <2>2. QED
    BY <1>4, <2>1, OrderParts DEF TimerFires, RetryFires
<1>5. ASSUME NEW c \in Calls,
             \/ call' = [call EXCEPT ![c] = Quiet]
             \/ \E step \in Steps \ {"ok", "collecting"} : call' = [call EXCEPT ![c].step = step]
      PROVE  \A d \in Calls : CallOrdered(call'[d], issued, old)
  <2>1. \A d \in Calls \ {c} : call'[d] = call[d]
    BY <1>1, <1>5
  <2>2. CallOrdered(call'[c], issued, old)
    BY <1>1, <1>5, QuietOrdered, OrderParts DEF CallOrdered, CallType
  <2>3. QED
    BY <2>1, <2>2, OrderParts
<1>6. ASSUME NEW c \in Calls, LockTimeout(c) \/ Acquire(c) \/ RefreshFailed(c) PROVE TokenOrder'
  <2>1. \A d \in Calls : CallOrdered(call'[d], issued, old)
    BY <1>5, <1>6 DEF LockTimeout, Acquire, RefreshFailed, Finish, Steps
  <2>2. QED
    BY <1>6, <2>1, OrderParts DEF LockTimeout, Acquire, RefreshFailed
<1>7. ASSUME NEW c \in Calls, Collect(c) PROVE TokenOrder'
  <2>1. \A d \in Calls : CallOrdered(call'[d], issued, old)
    BY <1>5, <1>7 DEF Collect, Steps
  <2>2. store'.at <= issued /\ store'.rt = store.rt
    BY <1>7 DEF Collect, Collected, Merge, TokenOrder
  <2>3. QED
    BY <1>7, <2>1, <2>2, OrderParts DEF Collect
<1>8. ASSUME issued' = issued + 1, old' = old,
             \A d \in Calls : call'[d] = call[d] \/ CallOrdered(call'[d], issued', old)
      PROVE  \A d \in Calls : CallOrdered(call'[d], issued', old')
  <2> SUFFICES ASSUME NEW d \in Calls, call'[d] = call[d] PROVE CallOrdered(call'[d], issued', old')
    BY <1>8
  <2>1. CallOrdered(call[d], issued, old) /\ call[d] \in CallType
    BY <1>1, OrderParts
  <2>2. QED
    BY <1>1, <1>8, <2>1 DEF CallOrdered, CallType, Refresh, Tokens
<1>9. ASSUME issued' = issued + 1, UNCHANGED <<store, round, replaced, old>>,
             \A d \in Calls : CallOrdered(call'[d], issued', old'),
             \A a \in 1..Agents : file'[a] = file[a] \/ file'[a].at <= issued'
      PROVE  TokenOrder'
  <2>1. store.at <= issued' /\ store.rt.id <= issued'
    BY <1>1, <1>9 DEF TokenOrder, StoreType, Refresh
  <2>2. \A a \in 1..Agents : file'[a].at <= issued'
    BY <1>1, <1>9 DEF TokenOrder, Tokens
  <2>3. round.at <= issued'
    BY <1>1, <1>9 DEF TokenOrder, RoundType
  <2>4. \A rt \in replaced : rt.id <= issued'
    BY <1>1, <1>9 DEF TokenOrder, Refresh
  <2>5. QED
    BY <1>9, <2>1, <2>2, <2>3, <2>4, OrderParts
<1>10. ASSUME NEW c \in Calls, Exchange(c) PROVE TokenOrder'
  <2>1. call[c].rt \in Refresh /\ call[c].rt.id <= issued /\ CallOrdered(call[c], issued, old)
    BY <1>1, OrderParts DEF CallType, CallOrdered
  <2>2. UNCHANGED <<store, round, file, replaced, old>>
    BY <1>10 DEF Exchange
  <2>3. CASE \E new \in Answers(call[c].rt) :
               Issue(call[c].rt, new) /\ (Reply(c, "ok", new) \/ Reply(c, "failing", Empty))
    <3>1. PICK new \in Answers(call[c].rt) :
            Issue(call[c].rt, new) /\ (Reply(c, "ok", new) \/ Reply(c, "failing", Empty))
      BY <2>3
    <3>2. /\ new.at = issued + 1 /\ issued' = issued + 1
          /\ new.rt = call[c].rt \/ new.rt.id = issued + 1
      BY <2>1, <3>1, IssueFacts
    <3>3. \A d \in Calls \ {c} : call'[d] = call[d]
      BY <1>1, <3>1 DEF Reply
    <3>4. /\ \/ call'[c].step = "ok" /\ call'[c].new = new
             \/ call'[c].step = "failing" /\ call'[c].new = Empty
          /\ call'[c].at = call[c].at /\ call'[c].rt = call[c].rt
      BY <1>1, <3>1 DEF Reply, CallType
    <3>5. call[c].at <= issued + 1 /\ call[c].rt.id <= issued + 1 /\ issued + 1 > old
      BY <1>1, <2>1 DEF CallOrdered, CallType, Refresh
    <3>6. CallOrdered(call'[c], issued', old)
      BY <1>1, <2>1, <3>2, <3>4, <3>5, ValueTypes DEF CallOrdered
    <3>7. QED
      BY <1>8, <1>9, <2>2, <3>2, <3>3, <3>6
  <2>4. CASE /\ Reply(c, "refused", Empty) \/ Reply(c, "failing", Empty)
             /\ UNCHANGED issued
    <3>1. \A d \in Calls \ {c} : call'[d] = call[d]
      BY <1>1, <2>4 DEF Reply
    <3>2. /\ call'[c].step \in {"refused", "failing"} /\ call'[c].new = Empty
          /\ call'[c].at = call[c].at /\ call'[c].rt = call[c].rt
      BY <1>1, <2>4 DEF Reply, CallType
    <3>3. CallOrdered(call'[c], issued, old)
      BY <1>1, <2>1, <3>2, ValueTypes DEF CallOrdered
    <3>4. QED
      BY <2>2, <2>4, <3>1, <3>3, OrderParts
  <2>5. QED
    BY <1>10, <2>3, <2>4 DEF Exchange
<1>11. ASSUME NEW c \in Calls, Refreshed(c) PROVE TokenOrder'
  <2>1. \A d \in Calls : CallOrdered(call'[d], issued, old)
    BY <1>5, <1>11 DEF Refreshed, Finish, Steps
  <2>2. call[c].new.at <= issued /\ call[c].new.rt.id <= issued /\ call[c].rt.id <= issued
    BY DEF TokenOrder
  <2>3. UNCHANGED <<file, issued, old>>
    BY <1>11 DEF Refreshed
  <2>4. CASE ~Unchanged(c)
    BY <1>11, <2>1, <2>3, <2>4, OrderParts DEF Refreshed
  <2>5. CASE Unchanged(c)
    <3>1. /\ store' = [at |-> call[c].new.at, rt |-> call[c].new.rt, seq |-> call[c].seq + 1]
          /\ Distribute(store')
          /\ replaced' = replaced \cup ({call[c].rt} \ {call[c].new.rt})
      BY <1>11, <2>5 DEF Refreshed
    <3>2. round'.at <= issued
      BY <1>1, <2>2, <3>1, RoundsOrdered
    <3>3. QED
      BY <2>1, <2>2, <2>3, <3>1, <3>2, OrderParts
  <2>6. QED
    BY <2>4, <2>5
<1>12. ASSUME NEW a \in 1..Agents, SelfRefresh(a) PROVE TokenOrder'
  <2>1. PICK new \in Answers(file[a].rt) :
          Issue(file[a].rt, new) /\ file' = [file EXCEPT ![a] = new]
    BY <1>12 DEF SelfRefresh
  <2>2. new.at = issued + 1 /\ issued' = issued + 1
    BY <1>1, <2>1, IssueFacts DEF Tokens
  <2>3. UNCHANGED <<store, round, replaced, old, call>>
    BY <1>12 DEF SelfRefresh
  <2>4. \A b \in 1..Agents : file'[b] = file[b] \/ file'[b].at <= issued'
    BY <1>1, <2>1, <2>2
  <2>5. QED
    BY <1>8, <1>9, <2>2, <2>3, <2>4
<1>13. CASE Login
  <2>1. /\ store'.at = issued + 1 /\ store'.rt.id = issued + 1 /\ Distribute(store')
        /\ issued' = issued + 1 /\ UNCHANGED <<file, call, old, replaced>>
    BY <1>13 DEF Login
  <2>2. issued' \in Nat /\ issued <= issued' /\ store'.at <= issued'
    BY <1>1, <2>1
  <2>3. round'.at <= issued'
    BY <2>1, <2>2, RoundsOrdered
  <2>4. \A d \in Calls : CallOrdered(call'[d], issued', old')
    BY <1>8, <2>1
  <2>5. \A a \in 1..Agents : file[a].at <= issued'
    BY <1>1, <2>1 DEF TokenOrder, Tokens
  <2>6. \A rt \in replaced : rt.id <= issued'
    BY <1>1, <2>1 DEF TokenOrder, Refresh
  <2>7. QED
    BY <1>1, <2>1, <2>3, <2>4, <2>5, <2>6, OrderParts
<1>14. CASE HoursPass
  <2>1. /\ \A c \in Calls : call[c] = Quiet
        /\ UNCHANGED <<store, file, round, call, issued, replaced>>
    BY <1>14 DEF HoursPass, Settled
  <2>2. \A c \in Calls : CallOrdered(call'[c], issued', old')
    BY <1>1, <2>1, ValueTypes DEF CallOrdered
  <2>3. QED
    BY <2>1, <2>2, OrderParts
<1>15. CASE Restart
  <2>1. /\ UNCHANGED <<store, file, issued, old, replaced>>
        /\ \A c \in Calls : call'[c] = Quiet
        /\ round'.at = store.at
    BY <1>15, ValueTypes DEF Restart, Distribute, First
  <2>2. \A c \in Calls : CallOrdered(call'[c], issued, old)
    BY <1>1, <2>1, QuietOrdered
  <2>3. QED
    BY <1>1, <2>1, <2>2, OrderParts
<1>16. ASSUME UNCHANGED <<store, file, round, call, issued, old, replaced>> PROVE TokenOrder'
  BY <1>16 DEF TokenOrder
<1>17. CASE Expire \/ LockAges \/ UNCHANGED vars
  BY <1>16, <1>17 DEF Expire, LockAges, vars
<1>18. QED
  BY <1>2, <1>4, <1>6, <1>7, <1>10, <1>11, <1>12, <1>13, <1>14, <1>15, <1>17 DEF Next

----------------------------------------------------------------------------
(* What the steps of a call change *)

Others(c) == \A d \in Calls \ {c} : call'[d] = call[d]
Ends(c) == Others(c) /\ call'[c].step = "idle"

\* A call begins with the token of the store, or to collect.
Begun(c) ==
  /\ Others(c)
  /\ \/ call'[c] = call[c]
     \/ call'[c].step = "collecting"
     \/ call'[c].step = "locking" /\ call'[c].rt = store.rt

LEMMA BeginSteps ==
  ASSUME TypeOK, TokenOrder, NEW c \in Calls, TimerFires(c) \/ RetryFires(c)
  PROVE  Begun(c)
<1>1. call \in [Calls -> CallType]
  BY TypeParts DEF Types
<1>2. CASE Begin(c)
  <2>1. CASE call' = [call EXCEPT ![c] =
               [Quiet EXCEPT !.step = "locking", !.seq = store.seq, !.rt = store.rt]]
    BY <1>1, <2>1, ValueTypes DEF Begun, Others, CallType, Quiet
  <2>2. CASE \E at \in 1..issued :
               call' = [call EXCEPT ![c] = [Quiet EXCEPT !.step = "collecting", !.at = at]]
    BY <1>1, <2>2, ValueTypes DEF Begun, Others, CallType, Quiet
  <2>3. QED
    BY <1>2, <2>1, <2>2, BeginFacts
<1>3. CASE call' = call
  BY <1>3 DEF Begun, Others
<1>4. QED
  BY <1>2, <1>3 DEF TimerFires, RetryFires

LEMMA EndSteps ==
  ASSUME TypeOK, NEW c \in Calls,
         LockTimeout(c) \/ Collect(c) \/ Refreshed(c) \/ RefreshFailed(c)
  PROVE  Ends(c)
<1>1. call \in [Calls -> CallType]
  BY TypeParts DEF Types
<1>2. call' = [call EXCEPT ![c] = Quiet]
  BY DEF LockTimeout, Collect, Refreshed, RefreshFailed, Finish
<1>3. QED
  BY <1>1, <1>2, ValueTypes DEF Ends, Others

LEMMA AcquireSteps ==
  ASSUME TypeOK, NEW c \in Calls, Acquire(c)
  PROVE  \/ Ends(c) /\ UNCHANGED reused /\ status' = "ok"
         \/ /\ Others(c) /\ call'[c].step = "exchanging" /\ call'[c].rt = call[c].rt
            /\ store.at <= old /\ lock' = c /\ UNCHANGED status
            /\ reused' = (reused \/ Spent(c))
<1>1. call \in [Calls -> CallType] /\ store \in StoreType /\ old \in Nat /\ expiring \in 0..old
  BY TypeParts DEF Types
<1>2. CASE ~Expiring(store.at)
  <2>1. call' = [call EXCEPT ![c] = Quiet] /\ UNCHANGED reused /\ status' = "ok"
    BY <1>2 DEF Acquire
  <2>2. QED
    BY <1>1, <2>1, ValueTypes DEF Ends, Others
<1>3. CASE Expiring(store.at)
  <2>1. /\ call' = [call EXCEPT ![c].step = "exchanging"] /\ lock' = c /\ UNCHANGED status
        /\ reused' = (reused \/ Spent(c))
    BY <1>3 DEF Acquire
  <2>2. store.at <= old
    BY <1>1, <1>3 DEF Expiring, StoreType
  <2>3. Others(c) /\ call'[c].step = "exchanging" /\ call'[c].rt = call[c].rt
    BY <1>1, <2>1 DEF Others, CallType
  <2>4. QED
    BY <2>1, <2>2, <2>3
<1>4. QED
  BY <1>2, <1>3

\* A token the OAuth server accepts after a step it accepted before, or it is new.
NewlyValid == \A rt \in valid' : rt \in valid \/ rt.id = issued + 1

LEMMA ExchangeSteps ==
  ASSUME TypeOK, TokenOrder, NEW c \in Calls, Exchange(c)
  PROVE  /\ Others(c) /\ call'[c].rt = call[c].rt /\ NewlyValid
         /\ call'[c].step \in {"ok", "refused", "failing"}
         /\ call'[c].step = "refused" => call[c].rt \notin valid /\ UNCHANGED valid
         /\ call'[c].step = "ok" =>
              /\ call[c].rt \in valid /\ call'[c].new.rt.login = call[c].rt.login
              /\ \/ call'[c].new.rt = call[c].rt
                 \/ call'[c].new.rt.id = issued + 1 /\ call[c].rt \notin valid'
<1>1. call \in [Calls -> CallType] /\ call[c].rt \in Refresh /\ call[c].rt.id <= issued
  BY TypeParts DEF Types, CallType, TokenOrder
<1>2. ASSUME NEW step \in Steps, NEW new, Reply(c, step, new)
      PROVE  /\ Others(c) /\ call'[c].rt = call[c].rt /\ call'[c].step = step
             /\ call'[c].new = new
  BY <1>1, <1>2 DEF Reply, Others, CallType
<1>3. CASE \E new \in Answers(call[c].rt) :
             Issue(call[c].rt, new) /\ (Reply(c, "ok", new) \/ Reply(c, "failing", Empty))
  <2>1. PICK new \in Answers(call[c].rt) :
          Issue(call[c].rt, new) /\ (Reply(c, "ok", new) \/ Reply(c, "failing", Empty))
    BY <1>3
  <2>2. /\ call[c].rt \in valid /\ new.rt.login = call[c].rt.login
        /\ \/ new.rt = call[c].rt
           \/ new.rt.id = issued + 1 /\ call[c].rt \notin valid'
        /\ NewlyValid
    BY <1>1, <2>1, IssueFacts DEF NewlyValid
  <2>3. /\ Others(c) /\ call'[c].rt = call[c].rt
        /\ \/ call'[c].step = "ok" /\ call'[c].new = new
           \/ call'[c].step = "failing"
    BY <1>2, <2>1 DEF Steps
  <2>4. QED
    BY <2>2, <2>3
<1>4. CASE call[c].rt \notin valid /\ Reply(c, "refused", Empty) /\ UNCHANGED valid
  <2>1. Others(c) /\ call'[c].rt = call[c].rt /\ call'[c].step = "refused"
    BY <1>2, <1>4 DEF Steps
  <2>2. QED
    BY <1>4, <2>1 DEF NewlyValid
<1>5. CASE Reply(c, "failing", Empty) /\ UNCHANGED valid
  <2>1. Others(c) /\ call'[c].rt = call[c].rt /\ call'[c].step = "failing"
    BY <1>2, <1>5 DEF Steps
  <2>2. QED
    BY <1>5, <2>1 DEF NewlyValid
<1>6. QED
  BY <1>3, <1>4, <1>5 DEF Exchange

LEMMA SelfSteps ==
  ASSUME TypeOK, NEW a \in 1..Agents, SelfRefresh(a)
  PROVE  /\ NewlyValid /\ file[a].rt # None
         /\ \E new \in Tokens : new.at = issued + 1 /\ file' = [file EXCEPT ![a] = new]
         /\ UNCHANGED <<store, lock, call, round, status, old, expiring, logins,
                        overtaken, setBack, replaced, reused, unchecked, behind>>
<1>1. file[a].rt \in Refresh
  BY DEF TypeOK, Tokens
<1>2. PICK new \in Answers(file[a].rt) :
        Issue(file[a].rt, new) /\ file' = [file EXCEPT ![a] = new]
  BY DEF SelfRefresh
<1>3. NewlyValid /\ new \in Tokens /\ new.at = issued + 1
  BY <1>1, <1>2, IssueFacts DEF NewlyValid
<1>4. QED
  BY <1>2, <1>3 DEF SelfRefresh, outcome

\* A merge leaves the store its refresh token, and lowers its age only openly.
LEMMA MergeSteps ==
  ASSUME TypeOK, TokenOrder,
         DistributeOne \/ (\E c \in Calls : Collect(c))
  PROVE  /\ store'.rt = store.rt
         /\ ~setBack' => ~setBack /\ store'.at >= store.at
<1>1. store \in StoreType
  BY TypeParts DEF Types
<1>2. CASE UNCHANGED <<store, setBack>>
  BY <1>1, <1>2 DEF StoreType
<1>3. ASSUME NEW at \in Nat, Collected(at)
      PROVE  /\ store'.rt = store.rt
             /\ ~setBack' => ~setBack /\ store'.at >= store.at
  <2>1. store' = Merge(at) /\ (~setBack' => ~setBack /\ ~(at < store.at))
    BY <1>3 DEF Collected
  <2>2. store'.rt = store.rt /\ store'.at = at
    BY <2>1 DEF Merge
  <2>3. ~(at < store.at) => at >= store.at
    BY <1>1 DEF StoreType
  <2>4. QED
    BY <2>1, <2>2, <2>3
<1>4. ASSUME DistributeOne, ~UNCHANGED <<store, setBack>> PROVE \E at \in Nat : Collected(at)
  BY <1>4, EntrySteps DEF Entry, Write
<1>5. ASSUME NEW c \in Calls, Collect(c) PROVE \E at \in Nat : Collected(at)
  <2>1. call[c].at \in Nat
    BY DEF TypeOK
  <2>2. QED
    BY <1>5, <2>1 DEF Collect
<1>6. QED
  BY <1>2, <1>3, <1>4, <1>5

----------------------------------------------------------------------------
(* The lock *)

LEMMA LockNext == TypeOK /\ TokenOrder /\ LockHeld /\ [Next]_vars => LockHeld'
<1> SUFFICES ASSUME TypeOK, TokenOrder, LockHeld, [Next]_vars PROVE LockHeld'
  OBVIOUS
<1> USE DEF oauthVars, counters, history, outcome, serverVars
<1>1. ASSUME UNCHANGED lock, \A d \in Calls : Holding(d)' => Holding(d) PROVE LockHeld'
  BY <1>1 DEF LockHeld
<1>2. ASSUME \A d \in Calls : ~Holding(d)' PROVE LockHeld'
  BY <1>2 DEF LockHeld
<1>3. ASSUME Lockable \/ lock = Dead, NEW d \in Calls PROVE ~Holding(d)
  BY <1>3, BoundTypes DEF LockHeld, Lockable, Calls, Free, Stale, Dead
<1>4. CASE DistributeOne
  BY <1>1, <1>4, EntrySteps DEF Holding
<1>5. ASSUME NEW c \in Calls, TimerFires(c) \/ RetryFires(c) PROVE LockHeld'
  <2>1. Begun(c) /\ UNCHANGED lock
    BY <1>5, BeginSteps DEF TimerFires, RetryFires
  <2>2. QED
    BY <1>1, <2>1 DEF Begun, Others, Holding
<1>6. ASSUME NEW c \in Calls, LockTimeout(c) PROVE LockHeld'
  <2>1. Ends(c) /\ UNCHANGED lock
    BY <1>6, EndSteps DEF LockTimeout
  <2>2. QED
    BY <1>1, <2>1 DEF Ends, Others, Holding
<1>7. ASSUME NEW c \in Calls, Acquire(c) PROVE LockHeld'
  <2>1. \A d \in Calls : ~Holding(d)
    BY <1>3, <1>7 DEF Acquire
  <2>2. CASE Ends(c)
    BY <1>2, <2>1, <2>2 DEF Ends, Others, Holding
  <2>3. CASE Others(c) /\ lock' = c
    BY <2>1, <2>3 DEF Others, Holding, LockHeld
  <2>4. QED
    BY <1>7, <2>2, <2>3, AcquireSteps
<1>8. ASSUME NEW c \in Calls, Collect(c) PROVE LockHeld'
  <2>1. (\A d \in Calls : ~Holding(d)) /\ Ends(c)
    BY <1>3, <1>8, EndSteps DEF Collect
  <2>2. QED
    BY <1>2, <2>1 DEF Ends, Others, Holding
<1>9. ASSUME NEW c \in Calls, Exchange(c) PROVE LockHeld'
  <2>1. Others(c) /\ Holding(c) /\ UNCHANGED lock
    BY <1>9, ExchangeSteps DEF Exchange, Holding
  <2>2. QED
    BY <1>1, <2>1 DEF Others, Holding
<1>10. ASSUME NEW c \in Calls, Refreshed(c) \/ RefreshFailed(c) PROVE LockHeld'
  <2>1. Holding(c) /\ Ends(c)
    BY <1>10, EndSteps DEF Holding, Refreshed, RefreshFailed
  <2>2. \A d \in Calls \ {c} : ~Holding(d)
    BY <2>1 DEF LockHeld
  <2>3. QED
    BY <1>2, <2>1, <2>2 DEF Ends, Others, Holding
<1>11. ASSUME NEW a \in 1..Agents, SelfRefresh(a) PROVE LockHeld'
  BY <1>1, <1>11, SelfSteps DEF Holding
<1>12. CASE Login \/ HoursPass \/ Expire \/ UNCHANGED vars
  BY <1>1, <1>12 DEF Login, HoursPass, Expire, vars, Holding
<1>13. CASE LockAges
  BY <1>2, <1>3, <1>13 DEF LockAges, Holding
<1>14. CASE Restart
  BY <1>2, <1>14, ValueTypes DEF Restart, Holding
<1>15. QED
  BY <1>4, <1>5, <1>6, <1>7, <1>8, <1>9, <1>10, <1>11, <1>12, <1>13, <1>14 DEF Next

----------------------------------------------------------------------------
(* No refresh token is presented twice *)

\* Tokens issued later are neither held by calls nor replaced.
LEMMA DeadStaysDead ==
  ASSUME TypeOK, TokenOrder, NewlyValid
  PROVE  /\ \A c \in Calls : call[c].rt \notin valid => call[c].rt \notin valid'
         /\ store.rt \notin valid => store.rt \notin valid'
         /\ replaced \cap valid = {} => replaced \cap valid' = {}
<1>1. store.rt.id \in Nat /\ store.rt.id <= issued /\ issued \in Nat
  BY TypeParts DEF Types, StoreType, Refresh, TokenOrder
<1>2. ASSUME NEW c \in Calls PROVE call[c].rt.id # issued + 1
  <2>1. call[c].rt.id \in Nat /\ call[c].rt.id <= issued
    BY TypeParts DEF Types, CallType, Refresh, TokenOrder
  <2>2. QED
    BY <1>1, <2>1
<1>3. store.rt.id # issued + 1
  BY <1>1
<1>4. ASSUME NEW rt \in replaced PROVE rt.id # issued + 1
  <2>1. rt.id \in Nat /\ rt.id <= issued
    BY TypeParts DEF Types, Refresh, TokenOrder
  <2>2. QED
    BY <1>1, <2>1
<1>5. QED
  BY <1>2, <1>3, <1>4 DEF NewlyValid

\* What SpentTokens says of one call: of its answer, and of its wait.
NewAnswer(q, R, V) ==
  q.step = "ok" => q.new.rt \notin R /\ (q.new.rt = q.rt \/ q.rt \notin V)
WillSee(q, R, at, o) == q.step = "locking" /\ q.rt \in R => at > o

LEMMA SpentParts ==
  LET Parts == /\ ~reused
               /\ store.rt \notin replaced /\ replaced \cap valid = {}
               /\ \A c \in Calls : NewAnswer(call[c], replaced, valid)
               /\ ~setBack => \A c \in Calls : WillSee(call[c], replaced, store.at, old)
  IN (SpentTokens <=> Parts) /\ (SpentTokens' <=> Parts')
BY DEF SpentTokens, NewAnswer, WillSee

\* A step that leaves the refresh token of the store in place.
LEMMA SpentFrame ==
  ASSUME TypeOK, TypeOK', TokenOrder, SpentTokens, NewlyValid,
         ~reused', UNCHANGED <<replaced, old>>,
         store'.rt = store.rt, ~setBack' => ~setBack /\ store'.at >= store.at,
         \A d \in Calls : \/ call'[d] = call[d]
                          \/ call'[d].step \in {"idle", "collecting"}
                          \/ call'[d].step = "locking" /\ call'[d].rt = store.rt
                          \/ call'[d].step # "locking" /\ NewAnswer(call'[d], replaced, valid')
  PROVE  SpentTokens'
<1>1. store.rt \notin replaced /\ replaced \cap valid' = {}
  BY SpentParts, DeadStaysDead
<1>2. store.at \in Nat /\ store'.at \in Nat /\ old \in Nat
  BY TypeParts DEF Types, StoreType
<1>3. ASSUME NEW d \in Calls PROVE NewAnswer(call'[d], replaced, valid')
  BY <1>1, SpentParts, DeadStaysDead DEF NewAnswer
<1>4. ASSUME ~setBack', NEW d \in Calls PROVE WillSee(call'[d], replaced, store'.at, old)
  <2>1. store.at > old => store'.at > old
    BY <1>2, <1>4
  <2>2. WillSee(call[d], replaced, store.at, old)
    BY <1>4, SpentParts
  <2>3. QED
    BY <1>1, <2>1, <2>2 DEF WillSee
<1>5. QED
  BY <1>1, <1>3, <1>4, SpentParts

LEMMA SpentNext ==
  TypeOK /\ TypeOK' /\ TokenOrder /\ LockHeld /\ SpentTokens /\ [Next]_vars => SpentTokens'
<1> SUFFICES ASSUME TypeOK, TypeOK', TokenOrder, LockHeld, SpentTokens, [Next]_vars
             PROVE  SpentTokens'
  OBVIOUS
<1> USE DEF oauthVars, counters, history, outcome, serverVars
<1>1. /\ store \in StoreType /\ store.at \in Nat /\ issued \in Nat /\ old \in 0..issued
      /\ ~reused
  BY TypeParts, SpentParts DEF Types, StoreType
<1>2. \A rt \in replaced : rt.id # issued + 1
  <2>1. ASSUME NEW rt \in replaced PROVE rt.id # issued + 1
    <3>1. rt.id \in Nat /\ rt.id <= issued
      BY TypeParts DEF Types, Refresh, TokenOrder
    <3>2. QED
      BY <1>1, <3>1
  <2>2. QED
    BY <2>1
<1>3. store.at >= store.at
  BY <1>1
<1>4. ASSUME UNCHANGED valid PROVE NewlyValid
  BY <1>4 DEF NewlyValid
<1>5. ASSUME NEW c \in Calls, Begun(c) \/ Ends(c),
             UNCHANGED <<store, setBack, reused, replaced, old, valid>>
      PROVE  SpentTokens'
  <2>1. ~reused' /\ NewlyValid
    BY <1>1, <1>4, <1>5
  <2>2. QED
    BY <1>3, <1>5, <2>1, SpentFrame DEF Others, Begun, Ends
<1>6. ASSUME UNCHANGED <<store, call, setBack, reused, replaced, old>>, NewlyValid
      PROVE  SpentTokens'
  <2>1. ~reused'
    BY <1>1, <1>6
  <2>2. QED
    BY <1>3, <1>6, <2>1, SpentFrame
<1>7. CASE DistributeOne
  <2>1. UNCHANGED <<call, replaced, old>> /\ NewlyValid /\ ~reused'
    BY <1>1, <1>4, <1>7, EntrySteps
  <2>2. QED
    BY <1>7, <2>1, MergeSteps, SpentFrame
<1>8. ASSUME NEW c \in Calls, TimerFires(c) \/ RetryFires(c) PROVE SpentTokens'
  <2>1. Begun(c) /\ UNCHANGED <<store, setBack, reused, replaced, old, valid>>
    BY <1>8, BeginSteps DEF TimerFires, RetryFires
  <2>2. QED
    BY <1>5, <2>1
<1>9. ASSUME NEW c \in Calls,
             LockTimeout(c) \/ RefreshFailed(c) \/ (Refreshed(c) /\ ~Unchanged(c))
      PROVE  SpentTokens'
  <2>1. Ends(c) /\ UNCHANGED <<store, setBack, reused, replaced, old, valid>>
    BY <1>9, EndSteps DEF LockTimeout, RefreshFailed, Refreshed
  <2>2. QED
    BY <1>5, <2>1
<1>10. ASSUME NEW c \in Calls, Acquire(c) PROVE SpentTokens'
  <2>1. UNCHANGED <<store, setBack, replaced, old, valid>> /\ call[c].step = "locking"
    BY <1>10 DEF Acquire
  <2>2. CASE Ends(c) /\ UNCHANGED reused
    BY <1>5, <2>1, <2>2
  <2>3. CASE /\ Others(c) /\ call'[c].step = "exchanging"
             /\ store.at <= old /\ reused' = (reused \/ Spent(c))
    <3>1. ~(store.at > old)
      BY <1>1, <2>3
    <3>2. ~Spent(c)
      BY <2>1, <3>1, SpentParts DEF WillSee, Spent
    <3>3. ~reused' /\ NewAnswer(call'[c], replaced, valid')
      BY <1>1, <2>3, <3>2 DEF NewAnswer
    <3>4. QED
      BY <1>3, <1>4, <2>1, <2>3, <3>3, SpentFrame DEF Others
  <2>4. QED
    BY <1>10, <2>2, <2>3, AcquireSteps
<1>11. ASSUME NEW c \in Calls, Collect(c) PROVE SpentTokens'
  <2>1. Ends(c) /\ UNCHANGED <<replaced, old>> /\ NewlyValid /\ ~reused'
    BY <1>1, <1>4, <1>11, EndSteps DEF Collect
  <2>2. QED
    BY <1>11, <2>1, MergeSteps, SpentFrame DEF Ends, Others
<1>12. ASSUME NEW c \in Calls, Exchange(c) PROVE SpentTokens'
  <2>1. UNCHANGED <<store, setBack, replaced, old>> /\ ~reused'
    BY <1>1, <1>12 DEF Exchange
  <2>2. NewAnswer(call'[c], replaced, valid')
    <3>1. call[c].rt \in valid => call[c].rt \notin replaced
      BY SpentParts
    <3>2. QED
      BY <1>2, <1>12, <3>1, ExchangeSteps DEF NewAnswer
  <2>3. QED
    BY <1>3, <1>12, <2>1, <2>2, ExchangeSteps, SpentFrame DEF Others
<1>13. ASSUME NEW c \in Calls, Refreshed(c), Unchanged(c) PROVE SpentTokens'
  <2>1. /\ store'.at = call[c].new.at /\ store'.rt = call[c].new.rt
        /\ replaced' = replaced \cup ({call[c].rt} \ {call[c].new.rt})
        /\ UNCHANGED <<reused, old, valid>> /\ call[c].step = "ok"
    BY <1>13 DEF Refreshed
  <2>2. store'.at > old
    BY <2>1 DEF TokenOrder
  <2>3. Ends(c) /\ \A d \in Calls \ {c} : ~Holding(d)
    BY <1>13, <2>1, EndSteps DEF LockHeld, Holding
  <2>4. store'.rt \notin replaced' /\ replaced' \cap valid = {}
    BY <2>1, SpentParts DEF NewAnswer
  <2>5. \A d \in Calls : call'[d].step # "ok"
    BY <2>3 DEF Ends, Others, Holding
  <2>6. QED
    BY <1>1, <2>1, <2>2, <2>4, <2>5, SpentParts DEF NewAnswer, WillSee
<1>14. ASSUME NEW c \in Calls, Refreshed(c) \/ RefreshFailed(c) PROVE SpentTokens'
  BY <1>9, <1>13, <1>14
<1>15. ASSUME NEW a \in 1..Agents, SelfRefresh(a) PROVE SpentTokens'
  BY <1>6, <1>15, SelfSteps
<1>16. CASE Login
  <2>1. /\ store'.at = issued + 1 /\ store'.rt.id = issued + 1
        /\ UNCHANGED <<call, replaced, old>> /\ ~reused'
        /\ \A rt \in valid' : rt \in valid \/ rt.id = issued + 1
    BY <1>1, <1>16 DEF Login
  <2>2. store'.at > old /\ store'.rt \notin replaced
    BY <1>1, <1>2, <2>1
  <2>3. NewlyValid
    BY <2>1 DEF NewlyValid
  <2>4. replaced \cap valid' = {} /\ \A d \in Calls : NewAnswer(call[d], replaced, valid')
    BY <2>3, SpentParts, DeadStaysDead DEF NewAnswer
  <2>5. QED
    BY <2>1, <2>2, <2>4, SpentParts DEF WillSee
<1>17. ASSUME \A c \in Calls : call'[c] = Quiet, UNCHANGED <<store, setBack, reused, replaced, valid>>
       PROVE  SpentTokens'
  <2>1. \A c \in Calls : /\ NewAnswer(call'[c], replaced, valid)
                         /\ WillSee(call'[c], replaced, store.at, old')
    BY <1>17, ValueTypes DEF NewAnswer, WillSee
  <2>2. QED
    BY <1>1, <1>17, <2>1, SpentParts
<1>18. CASE HoursPass \/ Restart
  BY <1>17, <1>18 DEF HoursPass, Settled, Restart
<1>19. CASE Expire \/ LockAges \/ UNCHANGED vars
  BY <1>4, <1>6, <1>19 DEF Expire, LockAges, vars
<1>20. QED
  BY <1>7, <1>8, <1>10, <1>11, <1>12, <1>14, <1>9, <1>15, <1>16, <1>18, <1>19 DEF Next

----------------------------------------------------------------------------
(* Logins are asked for only when the token is dead *)

\* What DeadTokens says of one call: always, and while the store is what calls have
\* read or newer.
DeadCall(q, V) == q.step = "refused" => q.rt \notin V
SameToken(q, rt, at, o) ==
  /\ q.step = "locking" => q.rt = rt \/ at > o
  /\ q.step \in {"exchanging", "ok", "refused", "failing"} => q.rt = rt

LEMMA DeadParts ==
  LET Parts == /\ \A c \in Calls : DeadCall(call[c], valid)
               /\ ~overtaken /\ ~setBack =>
                    /\ \A c \in Calls : SameToken(call[c], store.rt, store.at, old)
                    /\ status = "requires_login" => store.rt \notin valid
  IN (DeadTokens <=> Parts) /\ (DeadTokens' <=> Parts')
BY DEF DeadTokens, DeadCall, SameToken, Holding

\* A step that leaves the refresh token of the store in place.
LEMMA DeadFrame ==
  ASSUME TypeOK, TypeOK', TokenOrder, DeadTokens, NewlyValid, UNCHANGED <<overtaken, old>>,
         store'.rt = store.rt, ~setBack' => ~setBack /\ store'.at >= store.at,
         status' = "requires_login" => status = "requires_login",
         \A d \in Calls : \/ call'[d] = call[d]
                          \/ call'[d].step \in {"idle", "collecting"}
                          \/ call'[d].step = "locking" /\ call'[d].rt = store.rt
                          \/ /\ call'[d].step = "refused" => call'[d].rt \notin valid'
                             /\ call'[d].step # "locking"
                             /\ ~overtaken /\ ~setBack => call'[d].rt = store.rt
  PROVE  DeadTokens'
<1>1. store.at \in Nat /\ store'.at \in Nat /\ old \in Nat
  BY TypeParts DEF Types, StoreType
<1>2. \A d \in Calls : DeadCall(call'[d], valid')
  BY DeadStaysDead, DeadParts DEF DeadCall
<1>3. ASSUME ~overtaken', ~setBack', NEW d \in Calls
      PROVE  SameToken(call'[d], store.rt, store'.at, old)
  <2>1. ~overtaken /\ ~setBack /\ store'.at >= store.at
    BY <1>3
  <2>2. SameToken(call[d], store.rt, store.at, old)
    BY <2>1, DeadParts
  <2>3. store.at > old => store'.at > old
    BY <1>1, <2>1
  <2>4. QED
    BY <2>1, <2>2, <2>3 DEF SameToken
<1>4. ASSUME ~overtaken', ~setBack', status' = "requires_login" PROVE store'.rt \notin valid'
  <2>1. store.rt \notin valid
    BY <1>4, DeadParts
  <2>2. QED
    BY <2>1, DeadStaysDead
<1>5. QED
  BY <1>2, <1>3, <1>4, DeadParts

LEMMA DeadNext ==
  TypeOK /\ TypeOK' /\ TokenOrder /\ LockHeld /\ DeadTokens /\ [Next]_vars => DeadTokens'
<1> SUFFICES ASSUME TypeOK, TypeOK', TokenOrder, LockHeld, DeadTokens, [Next]_vars
             PROVE  DeadTokens'
  OBVIOUS
<1> USE DEF oauthVars, counters, history, outcome, serverVars
<1>1. /\ store \in StoreType /\ store' \in StoreType /\ store.at \in Nat
      /\ issued \in Nat /\ old \in 0..issued
  BY TypeParts DEF Types, StoreType
<1>2. store.at >= store.at
  BY <1>1
<1>3. ASSUME UNCHANGED valid PROVE NewlyValid
  BY <1>3 DEF NewlyValid
<1>4. ASSUME NEW c \in Calls, Begun(c) \/ Ends(c),
             UNCHANGED <<store, setBack, overtaken, old, valid>>,
             status' = "requires_login" => status = "requires_login"
      PROVE  DeadTokens'
  BY <1>2, <1>3, <1>4, DeadFrame DEF Others, Begun, Ends
<1>5. ASSUME UNCHANGED <<store, call, setBack, overtaken, old, status>>, NewlyValid
      PROVE  DeadTokens'
  BY <1>2, <1>5, DeadFrame
<1>6. CASE DistributeOne
  <2>1. UNCHANGED <<call, overtaken, old, valid, status>>
    BY <1>6, EntrySteps
  <2>2. QED
    BY <1>3, <1>6, <2>1, MergeSteps, DeadFrame
<1>7. ASSUME NEW c \in Calls, TimerFires(c) \/ RetryFires(c) PROVE DeadTokens'
  <2>1. Begun(c) /\ UNCHANGED <<store, setBack, overtaken, old, valid, status>>
    BY <1>7, BeginSteps DEF TimerFires, RetryFires
  <2>2. QED
    BY <1>4, <2>1
<1>8. ASSUME NEW c \in Calls, LockTimeout(c) \/ (Refreshed(c) /\ ~Unchanged(c))
      PROVE  DeadTokens'
  <2>1. Ends(c) /\ UNCHANGED <<store, setBack, overtaken, old, valid>>
    BY <1>8, EndSteps DEF LockTimeout, Refreshed
  <2>2. status' = "requires_login" => status = "requires_login"
    BY <1>8 DEF LockTimeout, Refreshed
  <2>3. QED
    BY <1>4, <2>1, <2>2
<1>9. ASSUME NEW c \in Calls, Acquire(c) PROVE DeadTokens'
  <2>1. UNCHANGED <<store, setBack, overtaken, old, valid>> /\ call[c].step = "locking"
    BY <1>9 DEF Acquire
  <2>2. CASE Ends(c) /\ status' = "ok"
    BY <1>4, <2>1, <2>2
  <2>3. CASE /\ Others(c) /\ call'[c].step = "exchanging" /\ call'[c].rt = call[c].rt
             /\ store.at <= old /\ UNCHANGED status
    <3>1. ~(store.at > old)
      BY <1>1, <2>3
    <3>2. ~overtaken /\ ~setBack => call[c].rt = store.rt
      BY <2>1, <3>1, DeadParts DEF SameToken
    <3>3. QED
      BY <1>2, <1>3, <2>1, <2>3, <3>2, DeadFrame DEF Others
  <2>4. QED
    BY <1>9, <2>2, <2>3, AcquireSteps
<1>10. ASSUME NEW c \in Calls, Collect(c) PROVE DeadTokens'
  <2>1. Ends(c) /\ UNCHANGED <<overtaken, old, valid, status>>
    BY <1>10, EndSteps DEF Collect
  <2>2. QED
    BY <1>3, <1>10, <2>1, MergeSteps, DeadFrame DEF Ends, Others
<1>11. ASSUME NEW c \in Calls, Exchange(c) PROVE DeadTokens'
  <2>1. UNCHANGED <<store, setBack, overtaken, old, status>> /\ call[c].step = "exchanging"
    BY <1>11 DEF Exchange
  <2>2. ~overtaken /\ ~setBack => call[c].rt = store.rt
    BY <2>1, DeadParts DEF SameToken
  <2>3. /\ Others(c) /\ call'[c].rt = call[c].rt /\ call'[c].step # "locking" /\ NewlyValid
        /\ call'[c].step = "refused" => call'[c].rt \notin valid'
    BY <1>11, ExchangeSteps
  <2>4. QED
    BY <1>2, <2>1, <2>2, <2>3, DeadFrame DEF Others
<1>12. ASSUME NEW c \in Calls, Refreshed(c), Unchanged(c) PROVE DeadTokens'
  <2>1. /\ store'.at = call[c].new.at /\ status' = "ok"
        /\ UNCHANGED <<valid, old>> /\ call[c].step = "ok"
    BY <1>12 DEF Refreshed
  <2>2. store'.at > old
    BY <2>1 DEF TokenOrder
  <2>3. Ends(c) /\ \A d \in Calls \ {c} : ~Holding(d)
    BY <1>12, <2>1, EndSteps DEF LockHeld, Holding
  <2>4. \A d \in Calls : call'[d].step \notin {"exchanging", "ok", "refused", "failing"}
    BY <2>3 DEF Ends, Others, Holding
  <2>5. QED
    BY <2>1, <2>2, <2>4, DeadParts DEF DeadCall, SameToken
<1>13. ASSUME NEW c \in Calls, RefreshFailed(c) PROVE DeadTokens'
  <2>1. Ends(c) /\ UNCHANGED <<store, setBack, overtaken, old, valid>>
    BY <1>13, EndSteps DEF RefreshFailed
  <2>2. CASE call[c].step = "failing"
    <3>1. status' # "requires_login"
      BY <1>13, <2>2 DEF RefreshFailed
    <3>2. QED
      BY <1>4, <2>1, <3>1
  <2>3. CASE call[c].step = "refused"
    <3>1. ~overtaken /\ ~setBack => store.rt \notin valid
      BY <2>3, DeadParts DEF DeadCall, SameToken
    <3>2. \A d \in Calls : DeadCall(call'[d], valid)
      BY <2>1, DeadParts DEF Ends, Others, DeadCall
    <3>3. ~overtaken /\ ~setBack => \A d \in Calls : SameToken(call'[d], store.rt, store.at, old)
      BY <2>1, DeadParts DEF Ends, Others, SameToken
    <3>4. QED
      BY <2>1, <3>1, <3>2, <3>3, DeadParts
  <2>4. QED
    BY <1>13, <2>2, <2>3 DEF RefreshFailed
<1>14. ASSUME NEW a \in 1..Agents, SelfRefresh(a) PROVE DeadTokens'
  BY <1>5, <1>14, SelfSteps
<1>15. CASE Login
  <2>1. /\ UNCHANGED call /\ status' = "ok"
        /\ overtaken' = \E c \in Calls : UnderWay(c)
        /\ \A rt \in valid' : rt \in valid \/ rt.id = issued + 1
    BY <1>15 DEF Login
  <2>2. \A c \in Calls : DeadCall(call'[c], valid')
    BY <2>1, DeadStaysDead, DeadParts DEF DeadCall, NewlyValid
  <2>3. ~overtaken' => \A c \in Calls : SameToken(call'[c], store'.rt, store'.at, old')
    BY <2>1 DEF SameToken, UnderWay
  <2>4. QED
    BY <2>1, <2>2, <2>3, DeadParts
<1>16. ASSUME \A c \in Calls : call'[c] = Quiet, UNCHANGED <<store, setBack, overtaken, valid>>,
              status' = "requires_login" => status = "requires_login"
       PROVE  DeadTokens'
  <2>1. \A c \in Calls : DeadCall(call'[c], valid') /\ SameToken(call'[c], store.rt, store.at, old')
    BY <1>16, ValueTypes DEF DeadCall, SameToken
  <2>2. QED
    BY <1>16, <2>1, DeadParts
<1>17. CASE HoursPass \/ Restart
  BY <1>16, <1>17 DEF HoursPass, Settled, Restart
<1>18. CASE Expire \/ LockAges \/ UNCHANGED vars
  BY <1>3, <1>5, <1>18 DEF Expire, LockAges, vars
<1>19. ASSUME NEW c \in Calls, Refreshed(c) PROVE DeadTokens'
  BY <1>8, <1>12, <1>19
<1>20. QED
  BY <1>6, <1>7, <1>8, <1>9, <1>10, <1>11, <1>13, <1>14, <1>15, <1>17, <1>18, <1>19 DEF Next

----------------------------------------------------------------------------
(* Where refresh tokens are, and which login they stem from *)

PlaceCall(q) ==
  /\ q.step \in {"locking", "exchanging", "ok", "refused", "failing"} => q.rt # None
  /\ q.step = "ok" => q.new.rt # None

LEMMA PlaceParts ==
  LET Parts == /\ store.rt # None
               /\ \A a \in PathA \ unchecked : file[a].rt = None
               /\ \A a \in ApiKey \ unchecked : file[a] = Empty
               /\ \A c \in Calls : PlaceCall(call[c])
  IN (PlaceInv <=> Parts) /\ (PlaceInv' <=> Parts')
BY DEF PlaceInv, RefreshTokensInPlace, PlaceCall, UnderWay

LEMMA PlaceNext == TypeOK /\ TokenOrder /\ PlaceInv /\ [Next]_vars => PlaceInv'
<1> SUFFICES ASSUME TypeOK, TokenOrder, PlaceInv, [Next]_vars PROVE PlaceInv'
  OBVIOUS
<1> USE DEF oauthVars, counters, history, outcome, serverVars
<1>1. /\ issued \in Nat /\ file \in [1..Agents -> Tokens]
      /\ PathA \subseteq 1..Agents /\ ApiKey \subseteq 1..Agents /\ PathA \cap ApiKey = {}
  BY TypeParts, AgentsAssumption DEF Types
<1>2. \A rt : rt.id = issued + 1 => rt # None
  BY <1>1, ValueTypes
<1>3. ASSUME UNCHANGED <<file, unchecked>>, store'.rt = store.rt,
             \A d \in Calls : \/ call'[d] = call[d]
                              \/ call'[d].step \in {"idle", "collecting"}
                              \/ call'[d].step = "locking" /\ call'[d].rt = store.rt
                              \/ PlaceCall(call'[d])
      PROVE  PlaceInv'
  BY <1>3, PlaceParts DEF PlaceCall
<1>4. CASE DistributeOne
  <2> DEFINE a == round.next
  <2>1. UNCHANGED call /\ store'.rt = store.rt /\ a \in 1..Agents /\ Entry(a)
    BY <1>4, MergeSteps, EntrySteps
  <2> HIDE DEF a
  <2>2. CASE UNCHANGED <<file, unchecked>>
    BY <1>3, <2>1, <2>2
  <2>3. CASE \E found \in BOOLEAN : Write(a, Content(a, found), found)
    <3>1. PICK found \in BOOLEAN : Write(a, Content(a, found), found)
      BY <2>3
    <3>2. /\ file'[a] = Content(a, found) /\ \A b \in (1..Agents) \ {a} : file'[b] = file[b]
          /\ unchecked' = IF found THEN unchecked \ {a} ELSE unchecked \cup {a}
      BY <1>1, <2>1, <3>1 DEF Write
    <3>3. /\ found /\ a \in ApiKey => Content(a, found) = Empty
          /\ found /\ a \in PathA => Content(a, found).rt = None
      BY ValueTypes DEF Content, Payload
    <3>4. (\A b \in PathA \ unchecked' : file'[b].rt = None) /\ \A b \in ApiKey \ unchecked' : file'[b] = Empty
      BY <1>1, <3>2, <3>3, PlaceParts
    <3>5. QED
      BY <2>1, <3>4, PlaceParts
  <2>4. QED
    BY <2>1, <2>2, <2>3 DEF Entry
<1>5. ASSUME NEW c \in Calls, TimerFires(c) \/ RetryFires(c) PROVE PlaceInv'
  <2>1. Begun(c) /\ UNCHANGED <<store, file, unchecked>>
    BY <1>5, BeginSteps DEF TimerFires, RetryFires
  <2>2. QED
    BY <1>3, <2>1 DEF Begun, Others
<1>6. ASSUME NEW c \in Calls, LockTimeout(c) \/ Collect(c) \/ RefreshFailed(c) PROVE PlaceInv'
  <2>1. Ends(c) /\ UNCHANGED <<file, unchecked>> /\ store'.rt = store.rt
    BY <1>6, EndSteps, MergeSteps DEF LockTimeout, Collect, RefreshFailed
  <2>2. QED
    BY <1>3, <2>1 DEF Ends, Others
<1>7. ASSUME NEW c \in Calls, Acquire(c) PROVE PlaceInv'
  <2>1. UNCHANGED <<store, file, unchecked>> /\ call[c].step = "locking"
    BY <1>7 DEF Acquire
  <2>2. CASE Ends(c)
    BY <1>3, <2>1, <2>2 DEF Ends, Others
  <2>3. CASE Others(c) /\ call'[c].step = "exchanging" /\ call'[c].rt = call[c].rt
    <3>1. PlaceCall(call'[c])
      BY <2>1, <2>3, PlaceParts DEF PlaceCall
    <3>2. QED
      BY <1>3, <2>1, <2>3, <3>1 DEF Others
  <2>4. QED
    BY <1>7, <2>2, <2>3, AcquireSteps
<1>8. ASSUME NEW c \in Calls, Exchange(c) PROVE PlaceInv'
  <2>1. UNCHANGED <<store, file, unchecked>> /\ call[c].step = "exchanging"
    BY <1>8 DEF Exchange
  <2>2. PlaceCall(call'[c])
    <3>1. call[c].rt # None
      BY <2>1, PlaceParts DEF PlaceCall
    <3>2. QED
      BY <1>2, <1>8, <3>1, ExchangeSteps DEF PlaceCall
  <2>3. QED
    BY <1>3, <1>8, <2>1, <2>2, ExchangeSteps DEF Others
<1>9. ASSUME NEW c \in Calls, Refreshed(c) PROVE PlaceInv'
  <2>1. Ends(c) /\ UNCHANGED <<file, unchecked>> /\ call[c].step = "ok"
    BY <1>9, EndSteps DEF Refreshed
  <2>2. store'.rt \in {store.rt, call[c].new.rt}
    BY <1>9 DEF Refreshed
  <2>3. store'.rt # None
    BY <2>1, <2>2, PlaceParts DEF PlaceCall
  <2>4. \A d \in Calls : PlaceCall(call'[d])
    BY <2>1, PlaceParts DEF Ends, Others, PlaceCall
  <2>5. QED
    BY <2>1, <2>3, <2>4, PlaceParts
<1>10. ASSUME NEW a \in 1..Agents, SelfRefresh(a) PROVE PlaceInv'
  <2>1. PICK new \in Tokens : file' = [file EXCEPT ![a] = new]
    BY <1>10, SelfSteps
  <2>2. UNCHANGED <<store, call, unchecked>> /\ a \notin (PathA \cup ApiKey) \ unchecked
    BY <1>10, SelfSteps, PlaceParts, ValueTypes
  <2>3. \A b \in (PathA \cup ApiKey) \ unchecked : file'[b] = file[b]
    BY <1>1, <2>1, <2>2
  <2>4. QED
    BY <2>2, <2>3, PlaceParts
<1>11. CASE Login
  <2>1. store'.rt.id = issued + 1 /\ UNCHANGED <<file, call, unchecked>>
    BY <1>11 DEF Login
  <2>2. QED
    BY <1>2, <2>1, PlaceParts
<1>12. CASE Restart
  <2>1. (\A c \in Calls : call'[c] = Quiet) /\ UNCHANGED <<store, file, unchecked>>
    BY <1>12 DEF Restart
  <2>2. QED
    BY <1>3, <2>1, ValueTypes
<1>13. CASE HoursPass \/ Expire \/ LockAges \/ UNCHANGED vars
  BY <1>3, <1>13 DEF HoursPass, Expire, LockAges, vars
<1>14. QED
  BY <1>4, <1>5, <1>6, <1>7, <1>8, <1>9, <1>10, <1>11, <1>12, <1>13 DEF Next

LoginCall(q, o, n) ==
  /\ q.step \in {"locking", "exchanging", "ok", "refused", "failing"} /\ ~o => q.rt.login = n
  /\ q.step = "ok" => q.new.rt.login = q.rt.login

LEMMA LoginParts ==
  LET Parts == /\ ~overtaken => store.rt.login = logins
               /\ \A c \in Calls : LoginCall(call[c], overtaken, logins)
  IN (LoginInv <=> Parts) /\ (LoginInv' <=> Parts')
BY DEF LoginInv, LoginKept, LoginCall, UnderWay

LEMMA LoginNext == TypeOK /\ TokenOrder /\ LoginInv /\ [Next]_vars => LoginInv'
<1> SUFFICES ASSUME TypeOK, TokenOrder, LoginInv, [Next]_vars PROVE LoginInv'
  OBVIOUS
<1> USE DEF oauthVars, counters, history, outcome, serverVars
<1>1. ASSUME UNCHANGED <<overtaken, logins>>, store'.rt = store.rt,
             \A d \in Calls : \/ call'[d] = call[d]
                              \/ call'[d].step \in {"idle", "collecting"}
                              \/ call'[d].step = "locking" /\ call'[d].rt = store.rt
                              \/ LoginCall(call'[d], overtaken, logins)
      PROVE  LoginInv'
  BY <1>1, LoginParts DEF LoginCall
<1>2. CASE DistributeOne
  <2>1. UNCHANGED <<call, overtaken, logins>> /\ store'.rt = store.rt
    BY <1>2, MergeSteps, EntrySteps
  <2>2. QED
    BY <1>1, <2>1
<1>3. ASSUME NEW c \in Calls, TimerFires(c) \/ RetryFires(c) PROVE LoginInv'
  <2>1. Begun(c) /\ UNCHANGED <<store, overtaken, logins>>
    BY <1>3, BeginSteps DEF TimerFires, RetryFires
  <2>2. QED
    BY <1>1, <2>1 DEF Begun, Others
<1>4. ASSUME NEW c \in Calls, LockTimeout(c) \/ Collect(c) \/ RefreshFailed(c) PROVE LoginInv'
  <2>1. Ends(c) /\ UNCHANGED <<overtaken, logins>> /\ store'.rt = store.rt
    BY <1>4, EndSteps, MergeSteps DEF LockTimeout, Collect, RefreshFailed
  <2>2. QED
    BY <1>1, <2>1 DEF Ends, Others
<1>5. ASSUME NEW c \in Calls, Acquire(c) PROVE LoginInv'
  <2>1. UNCHANGED <<store, overtaken, logins>> /\ call[c].step = "locking"
    BY <1>5 DEF Acquire
  <2>2. CASE Ends(c)
    BY <1>1, <2>1, <2>2 DEF Ends, Others
  <2>3. CASE Others(c) /\ call'[c].step = "exchanging" /\ call'[c].rt = call[c].rt
    <3>1. LoginCall(call'[c], overtaken, logins)
      BY <2>1, <2>3, LoginParts DEF LoginCall
    <3>2. QED
      BY <1>1, <2>1, <2>3, <3>1 DEF Others
  <2>4. QED
    BY <1>5, <2>2, <2>3, AcquireSteps
<1>6. ASSUME NEW c \in Calls, Exchange(c) PROVE LoginInv'
  <2>1. UNCHANGED <<store, overtaken, logins>> /\ call[c].step = "exchanging"
    BY <1>6 DEF Exchange
  <2>2. ~overtaken => call[c].rt.login = logins
    BY <2>1, LoginParts DEF LoginCall
  <2>3. LoginCall(call'[c], overtaken, logins)
    BY <1>6, <2>2, ExchangeSteps DEF LoginCall
  <2>4. QED
    BY <1>1, <1>6, <2>1, <2>3, ExchangeSteps DEF Others
<1>7. ASSUME NEW c \in Calls, Refreshed(c) PROVE LoginInv'
  <2>1. Ends(c) /\ UNCHANGED <<overtaken, logins>> /\ call[c].step = "ok"
    BY <1>7, EndSteps DEF Refreshed
  <2>2. store'.rt \in {store.rt, call[c].new.rt}
    BY <1>7 DEF Refreshed
  <2>3. ~overtaken => store'.rt.login = logins
    BY <2>1, <2>2, LoginParts DEF LoginCall
  <2>4. \A d \in Calls : LoginCall(call'[d], overtaken, logins)
    BY <2>1, LoginParts DEF Ends, Others, LoginCall
  <2>5. QED
    BY <2>1, <2>3, <2>4, LoginParts
<1>8. ASSUME NEW a \in 1..Agents, SelfRefresh(a) PROVE LoginInv'
  BY <1>1, <1>8, SelfSteps
<1>9. CASE Login
  <2>1. /\ store'.rt.login = logins' /\ UNCHANGED call
        /\ overtaken' = \E c \in Calls : UnderWay(c)
    BY <1>9 DEF Login
  <2>2. \A c \in Calls : LoginCall(call'[c], overtaken', logins')
    BY <2>1, LoginParts DEF LoginCall, UnderWay
  <2>3. QED
    BY <2>1, <2>2, LoginParts
<1>10. CASE Restart
  <2>1. (\A c \in Calls : call'[c] = Quiet) /\ UNCHANGED <<store, overtaken, logins>>
    BY <1>10 DEF Restart
  <2>2. QED
    BY <1>1, <2>1, ValueTypes
<1>11. CASE HoursPass \/ Expire \/ LockAges \/ UNCHANGED vars
  BY <1>1, <1>11 DEF HoursPass, Expire, LockAges, vars
<1>12. QED
  BY <1>2, <1>3, <1>4, <1>5, <1>6, <1>7, <1>8, <1>9, <1>10, <1>11 DEF Next

----------------------------------------------------------------------------
(* Whom a distribution has served *)

LEMMA ServedNext == TypeOK /\ TokenOrder /\ Served /\ [Next]_vars => Served'
<1> SUFFICES ASSUME TypeOK, TokenOrder, Served, [Next]_vars PROVE Served'
  OBVIOUS
<1> USE DEF oauthVars, counters, history, outcome, serverVars
<1>1. /\ file \in [1..Agents -> Tokens] /\ round \in RoundType /\ store.at \in Nat
      /\ issued \in Nat /\ behind \subseteq 1..Agents /\ Agents \in Nat /\ Agents > 0
  BY TypeParts, BoundTypes DEF Types, StoreType
<1>2. ASSUME UNCHANGED <<round, behind>>, store'.at = store.at,
             \A a \in 1..Agents : file'[a] = file[a] \/ file'[a].at = issued + 1
      PROVE  Served'
  <2>1. \A a \in 1..Agents : file[a].at >= store.at => file'[a].at >= store.at
    BY <1>1, <1>2 DEF TokenOrder
  <2>2. QED
    BY <1>2, <2>1 DEF Served, Passed
<1>3. ASSUME round' = First(store'), behind' = {} PROVE Served'
  BY <1>3 DEF Served, Passed, First
<1>4. CASE DistributeOne
  <2> DEFINE a == round.next
  <2>1. /\ a \in 1..Agents /\ Entry(a) /\ a # 0
        /\ round.at \in Nat /\ file[a].at \in Nat
        /\ round.at = store.at \/ behind = 1..Agents
    BY <1>1, <1>4, EntrySteps DEF Served
  <2>2. \A creds : Advance(creds) =>
          /\ round'.next # 0 => round'.at = creds.at
          /\ \A b \in 1..Agents : Passed(b)' => b <= a
    <3>1. ASSUME NEW creds, Advance(creds), NEW b \in 1..Agents, Passed(b)' PROVE b <= a
      BY <1>1, <2>1, <3>1, ValueTypes DEF Advance, Passed
    <3>2. QED
      BY <3>1, ValueTypes DEF Advance
  <2>3. \A b \in 1..Agents : b <= a /\ b # a => Passed(b)
    BY <2>1 DEF Passed
  <2> HIDE DEF a
  <2>4. CASE \E found \in BOOLEAN : Write(a, Content(a, found), found)
    <3>1. PICK found \in BOOLEAN : Write(a, Content(a, found), found)
      BY <2>4
    <3>2. /\ file'[a] = Content(a, found) /\ \A b \in (1..Agents) \ {a} : file'[b] = file[b]
          /\ UNCHANGED <<store, behind>> /\ Advance(round)
      BY <1>1, <2>1, <3>1 DEF Write
    <3>3. round'.next # 0 => round'.at = store'.at \/ behind' = 1..Agents
      BY <2>1, <2>2, <3>2
    <3>4. ASSUME NEW b \in (1..Agents) \ (ApiKey \cup behind), Passed(b)'
          PROVE  file'[b].at >= store.at
      <4>1. CASE b = a
        <5>1. file'[b].at = round.at
          BY <3>2, <3>4, <4>1 DEF Content, Payload
        <5>2. QED
          BY <1>1, <2>1, <3>4, <5>1
      <4>2. CASE b # a
        BY <2>2, <2>3, <3>2, <3>4, <4>2 DEF Served
      <4>3. QED
        BY <4>1, <4>2
    <3>5. QED
      BY <3>2, <3>3, <3>4 DEF Served
  <2>5. CASE /\ file[a].at > round.at /\ Collected(file[a].at) /\ Advance(store')
             /\ behind' = behind \cup 1..(a - 1) /\ UNCHANGED <<file, unchecked>>
    <3>1. store'.at = file[a].at /\ round'.next # 0 => round'.at = store'.at
      BY <2>2, <2>5 DEF Collected, Merge
    <3>2. ASSUME NEW b \in (1..Agents) \ (ApiKey \cup behind'), Passed(b)'
          PROVE  file[b].at >= store'.at
      <4>1. b = a
        BY <2>1, <2>2, <2>5, <3>2
      <4>2. store'.at = file[a].at
        BY <2>5 DEF Collected, Merge
      <4>3. QED
        BY <2>1, <4>1, <4>2
    <3>3. QED
      BY <2>2, <2>5, <3>2 DEF Served
  <2>6. CASE /\ Advance(round) /\ behind' = behind \cup {a}
             /\ UNCHANGED <<store, setBack, file, unchecked>>
    <3>1. round'.next # 0 => round'.at = store'.at \/ behind' = 1..Agents
      BY <2>1, <2>2, <2>6
    <3>2. ASSUME NEW b \in (1..Agents) \ (ApiKey \cup behind'), Passed(b)'
          PROVE  file[b].at >= store.at
      BY <2>2, <2>3, <2>6, <3>2 DEF Served
    <3>3. QED
      BY <2>6, <3>1, <3>2 DEF Served
  <2>7. QED
    BY <2>1, <2>4, <2>5, <2>6 DEF Entry
<1>5. ASSUME NEW c \in Calls, Collect(c) PROVE Served'
  BY <1>5 DEF Collect, Served
<1>6. ASSUME NEW c \in Calls, Refreshed(c) PROVE Served'
  <2>1. CASE ~Unchanged(c)
    BY <1>2, <1>6, <2>1 DEF Refreshed
  <2>2. CASE Unchanged(c)
    BY <1>3, <1>6, <2>2 DEF Refreshed, Distribute
  <2>3. QED
    BY <2>1, <2>2
<1>7. ASSUME NEW a \in 1..Agents, SelfRefresh(a) PROVE Served'
  <2>1. PICK new \in Tokens : new.at = issued + 1 /\ file' = [file EXCEPT ![a] = new]
    BY <1>7, SelfSteps
  <2>2. \A b \in 1..Agents : file'[b] = file[b] \/ file'[b].at = issued + 1
    BY <1>1, <2>1
  <2>3. QED
    BY <1>2, <1>7, <2>2, SelfSteps
<1>8. CASE Login \/ Restart
  BY <1>3, <1>8 DEF Login, Restart, Distribute
<1>9. ASSUME NEW c \in Calls, \/ TimerFires(c) \/ RetryFires(c) \/ LockTimeout(c)
                              \/ Acquire(c) \/ Exchange(c) \/ RefreshFailed(c)
      PROVE  UNCHANGED <<round, behind, store, file>>
  BY <1>9 DEF TimerFires, RetryFires, LockTimeout, Acquire, Exchange, RefreshFailed
<1>10. CASE HoursPass \/ Expire \/ LockAges \/ UNCHANGED vars
  BY <1>2, <1>10 DEF HoursPass, Expire, LockAges, vars
<1>11. QED
  BY <1>2, <1>4, <1>5, <1>6, <1>7, <1>8, <1>9, <1>10 DEF Next

----------------------------------------------------------------------------
(* The invariant and what follows *)

LEMMA IInvInit == Init => IInv
<1> SUFFICES ASSUME Init PROVE IInv
  OBVIOUS
<1>1. /\ \A c \in Calls : call[c] = Quiet
      /\ store.rt = [id |-> 1, login |-> 0] /\ status = "never" /\ replaced = {} /\ reused = FALSE
      /\ logins = 0 /\ \A a \in 1..Agents : file[a] = Empty
  BY DEF Init
<1>2. SpentTokens /\ DeadTokens /\ LockHeld
  BY <1>1, ValueTypes DEF SpentTokens, DeadTokens, LockHeld, Holding
<1>3. LoginInv
  BY <1>1, ValueTypes DEF LoginInv, LoginKept, UnderWay
<1>4. PlaceInv
  <2>1. store.rt # None
    BY <1>1 DEF None
  <2>2. QED
    BY <1>1, <2>1, ValueTypes, AgentsAssumption DEF PlaceInv, RefreshTokensInPlace, UnderWay
<1>5. Served
  BY DEF Init, Served, Passed, First
<1>6. QED
  BY <1>2, <1>3, <1>4, <1>5, TypesInit, OrderInit DEF IInv, SpentInv

LEMMA IInvNext == IInv /\ [Next]_vars => IInv'
<1> SUFFICES ASSUME IInv, [Next]_vars PROVE IInv'
  OBVIOUS
<1>1. /\ TypeOK /\ TokenOrder /\ LockHeld /\ SpentTokens /\ DeadTokens /\ PlaceInv
      /\ LoginInv /\ Served
  BY DEF IInv, SpentInv
<1>2. TypeOK' /\ TokenOrder' /\ LockHeld'
  BY <1>1, TypesNext, OrderNext, LockNext
<1>3. SpentTokens' /\ DeadTokens' /\ PlaceInv' /\ LoginInv' /\ Served'
  BY <1>1, <1>2, SpentNext, DeadNext, PlaceNext, LoginNext, ServedNext
<1>4. QED
  BY <1>2, <1>3 DEF IInv, SpentInv

\* The invariant holds throughout.
THEOREM Invariant == Spec => []IInv
BY IInvInit, IInvNext, PTL DEF Spec

\* Every variable has its type, whatever the number of agents and calls.
THEOREM TypeCorrect == Spec => []TypeOK
<1>1. IInv => TypeOK
  BY DEF IInv, SpentInv
<1>2. QED
  BY <1>1, Invariant, PTL

\* The lock file admits one call at a time to the exchange and to the write of its
\* answer, also when a server ends while it holds it (acquireLock, releaseLock).
OneExchange == \A c, d \in Calls : Holding(c) /\ Holding(d) => c = d

THEOREM LockExcludes == Spec => []OneExchange
<1>1. IInv => OneExchange
  BY DEF IInv, SpentInv, LockHeld, OneExchange
<1>2. QED
  BY <1>1, Invariant, PTL

\* No refresh token is presented again once its successor is stored, for any number of
\* overlapping calls, unless a merge has set the store back (refreshOAuthToken).
THEOREM NotSpentTwice == Spec => []NoTokenSpentTwice
<1>1. IInv => NoTokenSpentTwice
  BY DEF IInv, SpentInv, SpentTokens, NoTokenSpentTwice
<1>2. QED
  BY <1>1, Invariant, PTL

\* A login is asked for only when the stored refresh token is dead, unless a login
\* overtook the exchange or a merge set the store back (refreshOAuthToken).
THEOREM LoginRequired == Spec => []LoginReallyRequired
<1>1. IInv => LoginReallyRequired
  BY DEF IInv, DeadTokens, LoginReallyRequired
<1>2. QED
  BY <1>1, Invariant, PTL

\* The store never loses its refresh token; a path_a agent has one, and an api_key agent
\* anything, only since a failed lookup (distributeToAgents, collectAgentTokens).
THEOREM TokensInPlace == Spec => []RefreshTokensInPlace
<1>1. IInv => RefreshTokensInPlace
  BY DEF IInv, PlaceInv
<1>2. QED
  BY <1>1, Invariant, PTL

\* A login no exchange was under way for is not undone (completeLogin).
THEOREM LoginStays == Spec => []LoginKept
<1>1. IInv => LoginKept
  BY DEF IInv, LoginInv
<1>2. QED
  BY <1>1, Invariant, PTL

\* A distribution that has ended leaves only the marked agents with an older token than
\* the store's (distributeToAgents), for any number of agents and calls.
THEOREM ServesAll == Spec => []NoneLeftBehind
<1>1. IInv => NoneLeftBehind
  <2> SUFFICES ASSUME IInv, round = Still,
                      NEW a \in (1..Agents) \ (ApiKey \cup behind)
               PROVE  file[a].at >= store.at
    BY DEF NoneLeftBehind
  <2>1. Passed(a)
    BY ValueTypes DEF Passed
  <2>2. QED
    BY <2>1 DEF IInv, Served
<1>2. QED
  BY <1>1, Invariant, PTL
=============================================================================
