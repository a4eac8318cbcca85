----------------------- MODULE CredentialLease_proofs -----------------------
(***************************************************************************)
(* Theorems about CredentialLease, for all agents, drivers and tokens and  *)
(* for every value of the limits under which an entry is forgotten no      *)
(* earlier than its token expires, and one invariant for each:             *)
(*   TokenInv  a token can be used again only if its entry is swept, and   *)
(*             an entry is never older than its token (TokenUsedOnce);     *)
(*   LockInv   LockKept is inductive with its types;                       *)
(*   MintInv   every token still in the window was logged when it was      *)
(*             minted, each in an entry of its own, and the log is sorted, *)
(*             so that pruning its head forgets only what has left the     *)
(*             window (MintsApart);                                        *)
(*   LeaseInv  the leases no older than the row's fixed window are counted *)
(*             in the row, and those before it fitted in the window before *)
(*             (LeasesApart: twice the limit, and no less).                *)
(***************************************************************************)
EXTENDS CredentialLease, FiniteSetTheorems, SequenceTheorems, WellFoundedInduction, TLAPS

TokenTypes ==
  /\ age \in [Tokens -> 0..TokenCap]
  /\ uses \in [Tokens -> Nat]
  /\ DOMAIN usedJtis \subseteq Tokens
  /\ \A t \in DOMAIN usedJtis : usedJtis[t] \in 0..JTI_EVICTION_MS

\* A token that was used is remembered or has expired.
UsedIsSpent == \A t \in Tokens : uses[t] = 1 => t \in DOMAIN usedJtis \/ age[t] >= TOKEN_TTL_MS

\* The entry of a token is no older than the token.
EntryAfterToken == \A t \in DOMAIN usedJtis : usedJtis[t] <= age[t]

TokenInv == TokenTypes /\ TokenUsedOnce /\ UsedIsSpent /\ EntryAfterToken

LockTypes ==
  /\ busy \in [Agents -> [owner : Drivers \union {"none"}, age : 0..BUSY_STALE_MS]]
  /\ holds \in [Drivers -> [Agents -> {"no", "yes", "revoked"}]]

LockInv == LockTypes /\ LockKept

----------------------------------------------------------------------------
(* Tokens *)

LEMMA OlderFacts ==
  ASSUME NEW cap \in Nat, NEW x \in 0..cap
  PROVE  /\ Older(x, cap) \in 0..cap
         /\ x <= Older(x, cap)
         /\ \A y \in 0..x : Older(y, cap) <= Older(x, cap)
BY DEF Older

LEMMA TokenInit == Init => TokenInv
BY LimitsAssumption
   DEF Init, TokenInv, TokenTypes, TokenUsedOnce, UsedIsSpent, EntryAfterToken, TokenCap

\* Using a token up: it was valid, so this is its first use.
LEMMA VerifyStep ==
  ASSUME TokenInv, NEW t \in Tokens, NEW a \in Agents, Verify(t, a)
  PROVE  TokenInv'
<1> USE LimitsAssumption DEF TokenInv, TokenTypes, TokenCap
<1>1. uses[t] = 0
  BY DEF Verify, Valid, TokenUsedOnce, UsedIsSpent
<1>2. /\ age' = age
      /\ uses' = [uses EXCEPT ![t] = 1]
      /\ DOMAIN usedJtis' = DOMAIN usedJtis \union {t}
      /\ usedJtis'[t] = 0
      /\ \A u \in DOMAIN usedJtis \ {t} : usedJtis'[u] = usedJtis[u]
  BY <1>1 DEF Verify, With
<1>3. TokenTypes'
  BY <1>2
<1>4. TokenUsedOnce' /\ UsedIsSpent' /\ EntryAfterToken'
  BY <1>2 DEF TokenUsedOnce, UsedIsSpent, EntryAfterToken
<1>5. QED
  BY <1>3, <1>4

LEMMA TokenNext == TokenInv /\ [Next]_vars => TokenInv'
<1> SUFFICES ASSUME TokenInv, [Next]_vars PROVE TokenInv'
  OBVIOUS
<1> USE LimitsAssumption DEF tokenVars, lockVars
<1>1. ASSUME NEW t \in Tokens, NEW a \in Agents, Mint(t, a) PROVE TokenInv'
  <2>1. /\ age' = [age EXCEPT ![t] = 0]
        /\ uses' = [uses EXCEPT ![t] = 0]
        /\ usedJtis' = usedJtis
        /\ t \notin DOMAIN usedJtis
    BY <1>1 DEF Mint, Forgotten
  <2>2. QED
    BY <2>1 DEF TokenInv, TokenTypes, TokenUsedOnce, UsedIsSpent, EntryAfterToken, TokenCap
<1>2. ASSUME Request PROVE TokenInv'
  <2>1. PICK t \in Tokens, a \in Agents : Verify(t, a)
    BY <1>2 DEF Request, NoReason, Refuse, Lease, Revoke
  <2>2. QED
    BY <2>1, VerifyStep
<1>3. ASSUME Sweep PROVE TokenInv'
  <2>1. PICK t \in DOMAIN usedJtis :
          /\ usedJtis[t] >= JTI_EVICTION_MS
          /\ usedJtis' = Without(usedJtis, t)
          /\ UNCHANGED <<age, uses>>
    BY <1>3 DEF Sweep
  <2>2. /\ DOMAIN usedJtis' = DOMAIN usedJtis \ {t}
        /\ \A u \in DOMAIN usedJtis \ {t} : usedJtis'[u] = usedJtis[u]
    BY <2>1 DEF Without
  <2>3. t \in Tokens /\ age[t] >= TOKEN_TTL_MS
    BY <2>1 DEF TokenInv, TokenTypes, EntryAfterToken, TokenCap
  <2>4. QED
    BY <2>1, <2>2, <2>3
       DEF TokenInv, TokenTypes, TokenUsedOnce, UsedIsSpent, EntryAfterToken
<1>4. ASSUME Tick PROVE TokenInv'
  <2>1. /\ \A t \in Tokens : age'[t] = Older(age[t], TokenCap)
        /\ DOMAIN usedJtis' = DOMAIN usedJtis
        /\ \A t \in DOMAIN usedJtis : usedJtis'[t] = Older(usedJtis[t], TokenCap)
        /\ uses' = uses
    BY <1>4 DEF Tick, TokenCap
  <2>2. \A t \in Tokens : age'[t] \in 0..TokenCap /\ age[t] <= age'[t]
    BY <2>1, OlderFacts DEF TokenInv, TokenTypes, TokenCap
  <2>3. \A t \in DOMAIN usedJtis : usedJtis'[t] \in 0..TokenCap /\ usedJtis'[t] <= age'[t]
    <3> SUFFICES ASSUME NEW t \in DOMAIN usedJtis
                 PROVE  usedJtis'[t] \in 0..TokenCap /\ usedJtis'[t] <= age'[t]
      OBVIOUS
    <3>1. /\ TokenCap \in Nat /\ age[t] \in 0..TokenCap /\ usedJtis[t] \in 0..TokenCap
          /\ usedJtis[t] <= age[t]
      BY LimitsAssumption DEF TokenInv, TokenTypes, TokenCap, EntryAfterToken
    <3>2. usedJtis'[t] = Older(usedJtis[t], TokenCap) /\ age'[t] = Older(age[t], TokenCap)
      BY <2>1 DEF TokenInv, TokenTypes
    <3>3. usedJtis[t] \in 0..age[t]
      BY <3>1
    <3>4. Older(usedJtis[t], TokenCap) <= Older(age[t], TokenCap)
      BY <3>1, <3>3, OlderFacts
    <3>5. Older(usedJtis[t], TokenCap) \in 0..TokenCap
      BY <3>1, OlderFacts
    <3>6. QED
      BY <3>2, <3>4, <3>5
  <2>4. age' \in [Tokens -> 0..TokenCap]
    BY <1>4, <2>2 DEF Tick
  <2>5. TokenTypes'
    BY <2>1, <2>3, <2>4 DEF TokenInv, TokenTypes, TokenCap
  <2>6. TokenUsedOnce' /\ UsedIsSpent' /\ EntryAfterToken'
    BY <2>1, <2>2, <2>3
       DEF TokenInv, TokenTypes, TokenCap, TokenUsedOnce, UsedIsSpent, EntryAfterToken
  <2>7. QED
    BY <2>5, <2>6 DEF TokenInv
<1>5. ASSUME Restart PROVE TokenInv'
  BY <1>5 DEF Restart, TokenInv, TokenTypes, TokenUsedOnce, UsedIsSpent, EntryAfterToken
<1>6. ASSUME UNCHANGED tokenVars PROVE TokenInv'
  BY <1>6 DEF TokenInv, TokenTypes, TokenUsedOnce, UsedIsSpent, EntryAfterToken
<1>7. ASSUME NEW d \in Drivers, NEW a \in Agents, Acquire(d, a) \/ Heartbeat(d, a) \/ Release(d, a)
      PROVE  TokenInv'
  BY <1>6, <1>7 DEF Acquire, Heartbeat, Release
<1>8. ASSUME NEW d \in Drivers, DriverCrash(d) PROVE TokenInv'
  BY <1>6, <1>8 DEF DriverCrash
<1>9. ASSUME StoreChanges \/ (\E x \in Agents : StartLease(x)) \/ UNCHANGED vars PROVE TokenInv'
  BY <1>6, <1>9 DEF StoreChanges, StartLease, vars
<1>10. QED
  BY <1>1, <1>2, <1>3, <1>4, <1>5, <1>7, <1>8, <1>9 DEF Next

\* A token buys one request in the life of a server, whatever the limits are, as long as
\* an entry is kept until its token expires.
THEOREM TokensAreUsedOnce == Spec => []TokenUsedOnce
<1>1. TokenInv => TokenUsedOnce
  BY DEF TokenInv
<1>2. QED
  BY <1>1, TokenInit, TokenNext, PTL DEF Spec

----------------------------------------------------------------------------
(* The lock *)

LEMMA LockInit == Init => LockInv
BY LimitsAssumption DEF Init, LockInv, LockTypes, LockKept, NoLock

LEMMA LockNext == LockInv /\ [Next]_vars => LockInv'
<1> SUFFICES ASSUME LockInv, [Next]_vars PROVE LockInv'
  OBVIOUS
<1> USE LimitsAssumption, NamesAssumption DEF tokenVars, lockVars
<1>1. ASSUME UNCHANGED <<busy, holds>> PROVE LockInv'
  BY <1>1 DEF LockInv, LockTypes, LockKept, Owns
<1>2. ASSUME NEW d \in Drivers, NEW a \in Agents, Acquire(d, a) PROVE LockInv'
  <2>1. /\ busy[a] = NoLock
        /\ busy' = [busy EXCEPT ![a] = [owner |-> d, age |-> 0]]
        /\ holds' = [holds EXCEPT ![d][a] = "yes"]
    BY <1>2 DEF Acquire
  <2>2. LockTypes'
    BY <2>1 DEF LockInv, LockTypes
  <2>3. \A e \in Drivers : holds[e][a] # "yes"
    BY <2>1 DEF LockInv, LockKept, Owns, NoLock
  <2>4. LockKept'
    BY <2>1, <2>3 DEF LockInv, LockTypes, LockKept, Owns
  <2>5. QED
    BY <2>2, <2>4 DEF LockInv
<1>3. ASSUME NEW d \in Drivers, NEW a \in Agents, Heartbeat(d, a) PROVE LockInv'
  <2>1. CASE Owns(d, a)
    <3>1. busy' = [busy EXCEPT ![a].age = 0] /\ holds' = holds
      BY <1>3, <2>1 DEF Heartbeat
    <3>2. QED
      BY <3>1 DEF LockInv, LockTypes, LockKept, Owns
  <2>2. CASE ~Owns(d, a)
    <3>1. holds' = [holds EXCEPT ![d][a] = "no"] /\ busy' = busy
      BY <1>3, <2>2 DEF Heartbeat
    <3>2. QED
      BY <3>1 DEF LockInv, LockTypes, LockKept, Owns
  <2>3. QED
    BY <2>1, <2>2
<1>4. ASSUME NEW d \in Drivers, NEW a \in Agents, Release(d, a) PROVE LockInv'
  <2>1. /\ busy' = IF Owns(d, a) THEN [busy EXCEPT ![a] = NoLock] ELSE busy
        /\ holds' = [holds EXCEPT ![d][a] = "no"]
    BY <1>4 DEF Release
  <2>2. LockTypes'
    BY <2>1 DEF LockInv, LockTypes, NoLock
  <2>3. LockKept'
    BY <2>1 DEF LockInv, LockTypes, LockKept, Owns
  <2>4. QED
    BY <2>2, <2>3 DEF LockInv
<1>5. ASSUME NEW d \in Drivers, DriverCrash(d) PROVE LockInv'
  BY <1>5 DEF DriverCrash, LockInv, LockTypes, LockKept, Owns
<1>6. ASSUME NEW t \in Tokens, NEW a \in Agents, Revoke(t, a) PROVE LockInv'
  <2>1. /\ busy' = [busy EXCEPT ![a] = NoLock]
        /\ holds' = [d \in Drivers |->
             [holds[d] EXCEPT ![a] = IF @ = "yes" THEN "revoked" ELSE @]]
    BY <1>6 DEF Revoke
  <2>2. LockTypes'
    BY <2>1 DEF LockInv, LockTypes, NoLock
  <2>3. LockKept'
    BY <2>1 DEF LockInv, LockTypes, LockKept, Owns
  <2>4. QED
    BY <2>2, <2>3 DEF LockInv
<1>7. ASSUME Tick PROVE LockInv'
  <2>1. /\ holds' = holds
        /\ busy' = [a \in Agents |-> [busy[a] EXCEPT !.age = Older(@, BUSY_STALE_MS)]]
    BY <1>7 DEF Tick
  <2>2. \A a \in Agents : Older(busy[a].age, BUSY_STALE_MS) \in 0..BUSY_STALE_MS
    BY OlderFacts DEF LockInv, LockTypes
  <2>3. LockTypes'
    BY <2>1, <2>2 DEF LockInv, LockTypes
  <2>4. LockKept'
    BY <2>1 DEF LockInv, LockTypes, LockKept, Owns
  <2>5. QED
    BY <2>3, <2>4 DEF LockInv
<1>8. ASSUME NEW t \in Tokens, NEW a \in Agents,
             Mint(t, a) \/ NoReason(t, a) \/ Refuse(t, a) \/ Lease(t, a)
      PROVE  LockInv'
  BY <1>1, <1>8 DEF Mint, NoReason, Refuse, Lease
<1>9. ASSUME Sweep \/ StoreChanges \/ Restart \/ (\E x \in Agents : StartLease(x)) \/ UNCHANGED vars
      PROVE  LockInv'
  BY <1>1, <1>9 DEF Sweep, StartLease, StoreChanges, Restart, vars
<1>10. QED
  BY <1>2, <1>3, <1>4, <1>5, <1>6, <1>7, <1>8, <1>9 DEF Next, Request

\* A driver that was given an agent, and has not released it, crashed or been told of a
\* revocation, owns its row, for any number of drivers and agents and across restarts.
THEOREM LocksAreKept == Spec => []LockKept
<1>1. LockInv => LockKept
  BY DEF LockInv
<1>2. QED
  BY <1>1, LockInit, LockNext, PTL DEF Spec

----------------------------------------------------------------------------
(* Windows of time *)

\* Among the ages of a sequence the oldest that have passed a window can be told.
LEMMA PassedExists ==
  ASSUME NEW n \in Nat, NEW s \in Seq(0..n), NEW w \in Nat
  PROVE  \E k \in 0..Len(s) : Passed(s, k, w)
<1> DEFINE young == {i \in 1..Len(s) : s[i] < w}
<1>1. CASE young = {}
  <2>1. \A i \in 1..Len(s) : s[i] \in 0..n /\ ~(s[i] < w)
    BY <1>1
  <2>2. Passed(s, Len(s), w)
    BY <2>1 DEF Passed
  <2>3. QED
    BY <2>2
<1>2. CASE young # {}
  <2>1. young \subseteq Nat
    OBVIOUS
  <2>2. PICK first \in young : \A i \in young : ~(<<i, first>> \in OpToRel(<, Nat))
    <3> HIDE DEF young
    <3>1. QED
      BY <1>2, <2>1, NatLessThanWellFounded, WFMin, ZenonT(30)
  <2>3. \A i \in young : ~(i < first)
    BY <2>1, <2>2 DEF OpToRel
  <2>4. first - 1 \in 0..Len(s) /\ s[first - 1 + 1] < w
    OBVIOUS
  <2>5. \A i \in 1..(first - 1) : s[i] >= w
    <3> SUFFICES ASSUME NEW i \in 1..(first - 1) PROVE s[i] >= w
      OBVIOUS
    <3>1. i \in 1..Len(s) /\ i < first /\ s[i] \in 0..n
      OBVIOUS
    <3>2. i \notin young
      BY <2>3, <3>1
    <3>3. QED
      BY <3>1, <3>2
  <2>6. Passed(s, first - 1, w)
    BY <2>4, <2>5 DEF Passed
  <2>7. QED
    BY <2>4, <2>6
<1>3. QED
  BY <1>1, <1>2

\* What is left of them is the rest, in its order.
LEMMA RecentFacts ==
  ASSUME NEW n \in Nat, NEW s \in Seq(0..n), NEW w \in Nat
  PROVE  \E k \in 0..Len(s) :
           /\ Passed(s, k, w)
           /\ Recent(s, w) \in Seq(0..n)
           /\ Len(Recent(s, w)) = Len(s) - k
           /\ \A i \in 1..(Len(s) - k) : Recent(s, w)[i] = s[k + i]
<1> DEFINE k == CHOOSE k \in 0..Len(s) : Passed(s, k, w)
<1>1. k \in 0..Len(s) /\ Passed(s, k, w)
  BY PassedExists
<1>2. Recent(s, w) = SubSeq(s, k + 1, Len(s))
  BY DEF Recent
<1> HIDE DEF k
<1>3. /\ SubSeq(s, k + 1, Len(s)) \in Seq(0..n)
      /\ Len(SubSeq(s, k + 1, Len(s))) = Len(s) - k
      /\ \A i \in 1..(Len(s) - k) : SubSeq(s, k + 1, Len(s))[i] = s[k + i]
  <2>1. k + 1 \in Int /\ Len(s) \in Int /\ \A i \in (k + 1)..Len(s) : s[i] \in 0..n
    BY <1>1
  <2>2. /\ SubSeq(s, k + 1, Len(s)) \in Seq(0..n)
        /\ Len(SubSeq(s, k + 1, Len(s))) =
             IF k + 1 <= Len(s) THEN Len(s) - (k + 1) + 1 ELSE 0
        /\ \A i \in 1..(Len(s) - (k + 1) + 1) : SubSeq(s, k + 1, Len(s))[i] = s[k + 1 + i - 1]
    BY <2>1, SubSeqProperties
  <2>3. \A i \in 1..(Len(s) - k) : k + 1 + i - 1 = k + i /\ i \in 1..(Len(s) - (k + 1) + 1)
    BY <1>1
  <2>4. QED
    BY <1>1, <2>2, <2>3
<1>4. QED
  BY <1>1, <1>2, <1>3

LEMMA OlderSeqFacts ==
  ASSUME NEW n \in Nat, NEW s \in Seq(0..n)
  PROVE  /\ OlderSeq(s, n) \in Seq(0..n) /\ Len(OlderSeq(s, n)) = Len(s)
         /\ \A i \in 1..Len(s) : OlderSeq(s, n)[i] = Older(s[i], n)
<1>1. \A x \in 0..n : Older(x, n) \in 0..n
  BY OlderFacts
<1>2. DOMAIN s = 1..Len(s) /\ Len(s) \in Nat /\ \A i \in 1..Len(s) : s[i] \in 0..n
  OBVIOUS
<1>3. OlderSeq(s, n) = [i \in 1..Len(s) |-> Older(s[i], n)]
  BY <1>2 DEF OlderSeq
<1>4. QED
  BY <1>1, <1>2, <1>3

----------------------------------------------------------------------------
(* Mints *)

YoungMints == {t \in mine : age[t] < AGGREGATE_MINT_WINDOW_MS}

\* Every token of the window has an entry of its own in the log, of its age.
Logged(f) ==
  /\ \A t \in YoungMints : f[t] \in 1..Len(mintLog) /\ mintLog[f[t]] = age[t]
  /\ \A t, u \in YoungMints : f[t] = f[u] => t = u

MintInv ==
  /\ age \in [Tokens -> 0..TokenCap] /\ mine \subseteq Tokens
  /\ mintLog \in Seq(0..AGGREGATE_MINT_WINDOW_MS)
  /\ Len(mintLog) <= AGGREGATE_MINT_LIMIT
  /\ \E f \in [YoungMints -> Nat] : Logged(f)

LEMMA LimitTypes ==
  /\ TOKEN_TTL_MS \in Nat /\ TokenCap \in Nat /\ TokenCap > 0
  /\ AGGREGATE_MINT_WINDOW_MS \in Nat /\ AGGREGATE_MINT_WINDOW_MS > 0
  /\ AGGREGATE_MINT_WINDOW_MS <= TokenCap
  /\ AGGREGATE_MINT_LIMIT \in Nat /\ AGGREGATE_MINT_LIMIT > 0
  /\ RATE_WINDOW_MS \in Nat /\ RATE_WINDOW_MS > 0 /\ RATE_MAX \in Nat /\ RATE_MAX > 0
BY LimitsAssumption DEF TokenCap

LEMMA MintInit == Init => MintInv
<1> SUFFICES ASSUME Init PROVE MintInv
  OBVIOUS
<1>1. YoungMints = {}
  BY DEF Init, YoungMints
<1>2. \E f \in [YoungMints -> Nat] : Logged(f)
  <2>1. [t \in YoungMints |-> 0] \in [YoungMints -> Nat] /\ Logged([t \in YoungMints |-> 0])
    BY <1>1 DEF Logged
  <2>2. QED
    BY <2>1
<1>3. QED
  BY <1>2, LimitTypes DEF Init, MintInv

LEMMA MintNext == MintInv /\ [Next]_vars => MintInv'
<1> SUFFICES ASSUME MintInv, [Next]_vars PROVE MintInv'
  OBVIOUS
<1> USE LimitTypes DEF tokenVars, lockVars
<1>1. /\ age \in [Tokens -> 0..TokenCap] /\ mine \subseteq Tokens
      /\ mintLog \in Seq(0..AGGREGATE_MINT_WINDOW_MS) /\ Len(mintLog) \in Nat
      /\ YoungMints \subseteq Tokens
  BY DEF MintInv, YoungMints
<1>2. PICK f \in [YoungMints -> Nat] : Logged(f)
  BY DEF MintInv
<1>3. ASSUME UNCHANGED <<age, mine, mintLog>> PROVE MintInv'
  <2>1. YoungMints' = YoungMints
    BY <1>3 DEF YoungMints
  <2>2. \E h \in [YoungMints' -> Nat] :
           /\ \A u \in YoungMints' : h[u] \in 1..Len(mintLog') /\ mintLog'[h[u]] = age'[u]
           /\ \A u, v \in YoungMints' : h[u] = h[v] => u = v
    BY <1>2, <1>3, <2>1 DEF Logged
  <2>3. QED
    BY <1>3, <2>2 DEF MintInv, Logged
<1>4. ASSUME NEW t \in Tokens, NEW a \in Agents, Mint(t, a) PROVE MintInv'
  <2>1. /\ Len(Pruned) < AGGREGATE_MINT_LIMIT /\ mintLog' = Append(Pruned, 0)
        /\ age' = [age EXCEPT ![t] = 0] /\ mine' = mine \union {t}
        /\ age[t] = TokenCap
    BY <1>4 DEF Mint, Forgotten
  <2>2. PICK k \in 0..Len(mintLog) :
          /\ Passed(mintLog, k, AGGREGATE_MINT_WINDOW_MS)
          /\ Pruned \in Seq(0..AGGREGATE_MINT_WINDOW_MS)
          /\ Len(Pruned) = Len(mintLog) - k
          /\ \A i \in 1..(Len(mintLog) - k) : Pruned[i] = mintLog[k + i]
    BY <1>1, RecentFacts DEF Pruned
  <2>3. /\ mintLog' \in Seq(0..AGGREGATE_MINT_WINDOW_MS)
        /\ Len(mintLog') = Len(mintLog) - k + 1 /\ mintLog'[Len(mintLog')] = 0
        /\ \A i \in 1..(Len(mintLog) - k) : mintLog'[i] = mintLog[k + i]
    BY <1>1, <2>1, <2>2
  <2>4. /\ YoungMints' = YoungMints \union {t} /\ t \notin YoungMints
        /\ age'[t] = 0 /\ \A u \in YoungMints : age'[u] = age[u]
    BY <1>1, <2>1 DEF YoungMints
  <2> DEFINE g == [u \in YoungMints' |-> IF u = t THEN Len(mintLog') ELSE f[u] - k]
  <2>5. ASSUME NEW u \in YoungMints
        PROVE  f[u] - k \in 1..(Len(mintLog) - k) /\ mintLog[f[u]] = age[u] /\ f[u] \in Nat
    <3>1. f[u] \in 1..Len(mintLog) /\ mintLog[f[u]] = age[u]
      BY <1>2 DEF Logged
    <3>2. ~(mintLog[f[u]] >= AGGREGATE_MINT_WINDOW_MS)
      BY <1>1, <3>1 DEF YoungMints
    <3>3. f[u] \notin 1..k
      BY <2>2, <3>2 DEF Passed
    <3>4. QED
      BY <1>1, <3>1, <3>3
  <2>6. ASSUME NEW u \in YoungMints
        PROVE  /\ g[u] = f[u] - k /\ g[u] \in 1..(Len(mintLog) - k)
               /\ mintLog'[g[u]] = age'[u]
    <3>1. g[u] = f[u] - k
      BY <2>4
    <3>2. k + (f[u] - k) = f[u]
      BY <2>2, <2>5
    <3>3. QED
      BY <2>3, <2>4, <2>5, <3>1, <3>2
  <2>7. g[t] = Len(mintLog') /\ g[t] = Len(mintLog) - k + 1
    BY <2>3, <2>4
  <2>8. g \in [YoungMints' -> Nat]
    <3>1. \A u \in YoungMints : f[u] - k \in Nat
      BY <1>1, <2>5
    <3>2. Len(mintLog') \in Nat
      BY <1>1, <2>2, <2>3
    <3>3. QED
      BY <2>4, <3>1, <3>2
  <2>9. \A u \in YoungMints' : g[u] \in 1..Len(mintLog') /\ mintLog'[g[u]] = age'[u]
    <3>1. g[t] \in 1..Len(mintLog') /\ mintLog'[g[t]] = age'[t]
      BY <1>1, <2>2, <2>3, <2>4, <2>7
    <3>2. \A i \in 1..(Len(mintLog) - k) : i \in 1..Len(mintLog')
      BY <1>1, <2>2, <2>3
    <3> HIDE DEF g
    <3>3. QED
      BY <2>4, <2>6, <3>1, <3>2
  <2>10. \A u, v \in YoungMints' : g[u] = g[v] => u = v
    <3> HIDE DEF g
    <3>1. \A u \in YoungMints : g[u] # g[t]
      BY <1>1, <2>2, <2>6, <2>7
    <3>2. ASSUME NEW u \in YoungMints, NEW v \in YoungMints, g[u] = g[v] PROVE f[u] = f[v]
      <4>1. f[u] - k = f[v] - k /\ f[u] \in Nat /\ f[v] \in Nat
        BY <2>5, <2>6, <3>2
      <4>2. QED
        BY <2>2, <4>1
    <3>3. \A u, v \in YoungMints : g[u] = g[v] => u = v
      BY <1>2, <3>2 DEF Logged
    <3>4. QED
      BY <2>4, <3>1, <3>3
  <2> HIDE DEF g
  <2>11. \E h \in [YoungMints' -> Nat] :
           /\ \A u \in YoungMints' : h[u] \in 1..Len(mintLog') /\ mintLog'[h[u]] = age'[u]
           /\ \A u, v \in YoungMints' : h[u] = h[v] => u = v
    BY <2>8, <2>9, <2>10
  <2>12. Len(mintLog') <= AGGREGATE_MINT_LIMIT
    BY <1>1, <2>1, <2>2, <2>3
  <2>13. age' \in [Tokens -> 0..TokenCap] /\ mine' \subseteq Tokens
    BY <1>1, <2>1
  <2>14. QED
    BY <2>3, <2>11, <2>12, <2>13 DEF MintInv, Logged
<1>5. ASSUME Tick PROVE MintInv'
  <2>1. /\ \A t \in Tokens : age'[t] = Older(age[t], TokenCap) /\ age'[t] \in 0..TokenCap
        /\ mintLog' = OlderSeq(mintLog, AGGREGATE_MINT_WINDOW_MS) /\ mine' = mine
        /\ age' \in [Tokens -> 0..TokenCap]
    BY <1>1, <1>5, OlderFacts DEF Tick
  <2>2. /\ mintLog' \in Seq(0..AGGREGATE_MINT_WINDOW_MS) /\ Len(mintLog') = Len(mintLog)
        /\ \A i \in 1..Len(mintLog) : mintLog'[i] = Older(mintLog[i], AGGREGATE_MINT_WINDOW_MS)
    BY <1>1, <2>1, OlderSeqFacts
  <2>3. ASSUME NEW t \in Tokens, age'[t] < AGGREGATE_MINT_WINDOW_MS
        PROVE  /\ age[t] < AGGREGATE_MINT_WINDOW_MS
               /\ age'[t] = Older(age[t], AGGREGATE_MINT_WINDOW_MS)
    BY <1>1, <2>1, <2>3 DEF Older
  <2>4. YoungMints' \subseteq YoungMints
    BY <1>1, <2>1, <2>3 DEF YoungMints
  <2>5. \A t \in YoungMints' : /\ f[t] \in 1..Len(mintLog') /\ mintLog'[f[t]] = age'[t]
    <3> SUFFICES ASSUME NEW t \in YoungMints'
                 PROVE  f[t] \in 1..Len(mintLog') /\ mintLog'[f[t]] = age'[t]
      OBVIOUS
    <3>1. t \in Tokens /\ t \in YoungMints /\ age'[t] < AGGREGATE_MINT_WINDOW_MS
      BY <1>1, <2>1, <2>4 DEF YoungMints
    <3>2. f[t] \in 1..Len(mintLog) /\ mintLog[f[t]] = age[t]
      BY <1>2, <3>1 DEF Logged
    <3>3. QED
      BY <2>2, <2>3, <3>1, <3>2
  <2>6. [t \in YoungMints' |-> f[t]] \in [YoungMints' -> Nat]
    BY <1>2, <2>4
  <2>7. /\ \A t \in YoungMints' : [u \in YoungMints' |-> f[u]][t] = f[t]
        /\ \A t, u \in YoungMints' : f[t] = f[u] => t = u
    BY <1>2, <2>4 DEF Logged
  <2>8. \E h \in [YoungMints' -> Nat] :
           /\ \A u \in YoungMints' : h[u] \in 1..Len(mintLog') /\ mintLog'[h[u]] = age'[u]
           /\ \A u, v \in YoungMints' : h[u] = h[v] => u = v
    BY <2>5, <2>6, <2>7
  <2>9. Len(mintLog') <= AGGREGATE_MINT_LIMIT
    BY <2>2 DEF MintInv
  <2>10. QED
    BY <1>1, <2>1, <2>2, <2>8, <2>9 DEF MintInv, Logged
<1>6. ASSUME Restart PROVE MintInv'
  <2>1. mintLog' = <<>> /\ mine' = {} /\ age' = age
    BY <1>6 DEF Restart
  <2>2. YoungMints' = {}
    BY <2>1 DEF YoungMints
  <2>3. \E h \in [YoungMints' -> Nat] :
           /\ \A u \in YoungMints' : h[u] \in 1..Len(mintLog') /\ mintLog'[h[u]] = age'[u]
           /\ \A u, v \in YoungMints' : h[u] = h[v] => u = v
    <3>1. [u \in YoungMints' |-> 0] \in [YoungMints' -> Nat]
      OBVIOUS
    <3>2. QED
      BY <2>2, <3>1
  <2>4. mintLog' \in Seq(0..AGGREGATE_MINT_WINDOW_MS) /\ Len(mintLog') = 0
    BY <2>1
  <2>5. Len(mintLog') <= AGGREGATE_MINT_LIMIT /\ mine' \subseteq Tokens
    BY <2>1, <2>4
  <2>6. QED
    BY <1>1, <2>1, <2>3, <2>4, <2>5 DEF MintInv, Logged
<1>7. ASSUME Request \/ Sweep PROVE MintInv'
  BY <1>3, <1>7 DEF Request, NoReason, Refuse, Lease, Revoke, Verify, Sweep
<1>8. ASSUME NEW d \in Drivers, NEW a \in Agents, Acquire(d, a) \/ Heartbeat(d, a) \/ Release(d, a)
      PROVE  MintInv'
  BY <1>3, <1>8 DEF Acquire, Heartbeat, Release
<1>9. ASSUME NEW d \in Drivers, DriverCrash(d) PROVE MintInv'
  BY <1>3, <1>9 DEF DriverCrash
<1>10. ASSUME StoreChanges \/ (\E x \in Agents : StartLease(x)) \/ UNCHANGED vars PROVE MintInv'
  BY <1>3, <1>10 DEF StoreChanges, StartLease, vars
<1>11. QED
  BY <1>4, <1>5, <1>6, <1>7, <1>8, <1>9, <1>10 DEF Next

\* One life of the server mints no more tokens in any window than the limit, for every
\* window and limit (checkAggregateMintRate).
THEOREM MintsAreApart == Spec => []MintsApart
<1>1. MintInv => MintsApart
  <2> SUFFICES ASSUME MintInv PROVE Cardinality(YoungMints) <= AGGREGATE_MINT_LIMIT
    BY DEF MintsApart, YoungMints
  <2>1. PICK f \in [YoungMints -> Nat] : Logged(f)
    BY DEF MintInv
  <2>2. Len(mintLog) \in Nat /\ Len(mintLog) <= AGGREGATE_MINT_LIMIT
    BY DEF MintInv
  <2>3. f \in Injection(YoungMints, 1..Len(mintLog))
    BY <2>1 DEF Logged, Injection, IsInjective
  <2>4. IsFiniteSet(1..Len(mintLog)) /\ Cardinality(1..Len(mintLog)) = Len(mintLog)
    <3>1. IsFiniteSet(1..Len(mintLog))
      BY <2>2, FS_Interval
    <3>2. Cardinality(1..Len(mintLog)) = IF 1 > Len(mintLog) THEN 0 ELSE Len(mintLog) - 1 + 1
      BY <2>2, FS_Interval
    <3>3. QED
      BY <2>2, <3>1, <3>2
  <2>5. IsFiniteSet(YoungMints) /\ Cardinality(YoungMints) <= Len(mintLog)
    BY <2>3, <2>4, FS_Injection
  <2>6. Cardinality(YoungMints) \in Nat
    BY <2>5, FS_CardinalityType
  <2>7. QED
    BY <2>2, <2>5, <2>6, LimitTypes
<1>2. QED
  BY <1>1, MintInit, MintNext, PTL DEF Spec

----------------------------------------------------------------------------
(* Leases *)

RateType == [age : 0..RATE_WINDOW_MS + 1, count : 0..RATE_MAX, blocked : BOOLEAN]

\* The leases s of the last window of time, oldest first, against the row q: those
\* that are no older than the row's window are counted there, the ones before it fit
\* in the window before, and a window that has passed leaves none of these.
Booked(s, q) ==
  /\ \A i, j \in 1..Len(s) : i <= j => s[j] <= s[i]
  /\ \A i \in 1..Len(s) : s[i] < RATE_WINDOW_MS
  /\ \E k \in 0..Len(s) : /\ k <= RATE_MAX
                          /\ \A i \in 1..k : s[i] >= q.age
                          /\ Len(s) - k <= q.count

LeaseInv ==
  /\ rate \in [Agents -> RateType]
  /\ leased \in [Agents -> Seq(0..RATE_WINDOW_MS)]
  /\ \A a \in Agents : Booked(leased[a], rate[a])

LEMMA BookedTick ==
  ASSUME NEW s \in Seq(0..RATE_WINDOW_MS), NEW q \in RateType, Booked(s, q)
  PROVE  LET older == InWindow(OlderSeq(s, RATE_WINDOW_MS))
             row == [q EXCEPT !.age = Older(@, RATE_WINDOW_MS)]
         IN older \in Seq(0..RATE_WINDOW_MS) /\ row \in RateType /\ Booked(older, row)
<1> USE LimitTypes DEF InWindow
<1> DEFINE o == OlderSeq(s, RATE_WINDOW_MS)
           older == Recent(o, RATE_WINDOW_MS)
           row == [q EXCEPT !.age = Older(@, RATE_WINDOW_MS)]
<1>1. /\ Len(s) \in Nat /\ \A i \in 1..Len(s) : s[i] \in 0..RATE_WINDOW_MS
      /\ q.age \in 0..RATE_WINDOW_MS + 1 /\ q.count \in 0..RATE_MAX
  BY DEF RateType
<1>2. /\ o \in Seq(0..RATE_WINDOW_MS) /\ Len(o) = Len(s)
      /\ \A i \in 1..Len(s) : o[i] = Older(s[i], RATE_WINDOW_MS)
  BY OlderSeqFacts
<1>3. \A i \in 1..Len(s) : o[i] = s[i] + 1
  BY <1>1, <1>2 DEF Booked, Older
<1> HIDE DEF o
<1>4. PICK m \in 0..Len(o) :
        /\ Passed(o, m, RATE_WINDOW_MS)
        /\ older \in Seq(0..RATE_WINDOW_MS)
        /\ Len(older) = Len(o) - m
        /\ \A i \in 1..(Len(o) - m) : older[i] = o[m + i]
  BY <1>2, RecentFacts
<1> HIDE DEF older
<1>5. /\ m \in 0..Len(s) /\ Len(older) = Len(s) - m
      /\ \A i \in 1..(Len(s) - m) : m + i \in 1..Len(s) /\ older[i] = s[m + i] + 1
  <2>1. m \in 0..Len(s) /\ Len(older) = Len(s) - m
    BY <1>2, <1>4
  <2>2. \A i \in 1..(Len(s) - m) : m + i \in 1..Len(s)
    BY <1>1, <2>1
  <2>3. QED
    BY <1>2, <1>3, <1>4, <2>1, <2>2
<1>6. row \in RateType /\ row.count = q.count /\ row.age = Older(q.age, RATE_WINDOW_MS)
  <2>1. Older(q.age, RATE_WINDOW_MS) \in 0..RATE_WINDOW_MS + 1
    BY <1>1 DEF Older
  <2>2. QED
    BY <2>1 DEF RateType
<1>7. row.age \in Nat /\ row.age <= q.age + 1 /\ (q.age >= RATE_WINDOW_MS => row.age = q.age)
  BY <1>1, <1>6 DEF Older
<1> HIDE DEF row
<1>8. \A i, j \in 1..Len(older) : i <= j => older[j] <= older[i]
  <2> SUFFICES ASSUME NEW i \in 1..Len(older), NEW j \in 1..Len(older), i <= j
               PROVE  older[j] <= older[i]
    OBVIOUS
  <2>1. m + i \in 1..Len(s) /\ m + j \in 1..Len(s) /\ m + i <= m + j
    BY <1>1, <1>5
  <2>2. s[m + j] <= s[m + i]
    BY <2>1 DEF Booked
  <2>3. s[m + i] \in Nat /\ s[m + j] \in Nat
    BY <1>1, <2>1
  <2>4. s[m + j] + 1 <= s[m + i] + 1
    BY <2>2, <2>3
  <2>5. older[i] = s[m + i] + 1 /\ older[j] = s[m + j] + 1
    BY <1>5
  <2>6. QED
    BY <2>4, <2>5
<1>9. \A i \in 1..Len(older) : older[i] < RATE_WINDOW_MS
  <2> SUFFICES ASSUME NEW i \in 1..Len(older) PROVE older[i] < RATE_WINDOW_MS
    OBVIOUS
  <2>1. m < Len(o) /\ m + 1 \in 1..Len(s) /\ m + i \in 1..Len(s) /\ m + 1 <= m + i
    BY <1>1, <1>2, <1>5
  <2>2. o[m + 1] < RATE_WINDOW_MS
    BY <1>4, <2>1 DEF Passed
  <2>3. s[m + 1] + 1 < RATE_WINDOW_MS /\ s[m + i] <= s[m + 1]
    BY <1>3, <2>1, <2>2 DEF Booked
  <2>4. s[m + i] + 1 < RATE_WINDOW_MS
    BY <1>1, <2>1, <2>3
  <2>5. QED
    BY <1>5, <2>4
<1>10. PICK k \in 0..Len(s) : /\ k <= RATE_MAX
                              /\ \A i \in 1..k : s[i] >= q.age
                              /\ Len(s) - k <= q.count
  BY DEF Booked
<1>11. CASE k <= m
  <2>1. Len(older) - 0 <= row.count
    BY <1>1, <1>5, <1>6, <1>10, <1>11
  <2>2. 0 \in 0..Len(older) /\ 0 <= RATE_MAX /\ \A i \in 1..0 : older[i] >= row.age
    BY <1>1, <1>5
  <2>3. Booked(older, row)
    BY <1>8, <1>9, <2>1, <2>2 DEF Booked
  <2>4. QED
    BY <1>4, <1>6, <2>3 DEF older, row, o
<1>12. CASE k > m
  <2>1. k - m \in 0..Len(older) /\ k - m <= RATE_MAX /\ Len(older) - (k - m) <= row.count
    BY <1>1, <1>5, <1>6, <1>10, <1>12
  <2>2. ASSUME NEW i \in 1..(k - m) PROVE older[i] >= row.age
    <3>1. i \in 1..(Len(s) - m) /\ m + i \in 1..k /\ m + i \in 1..Len(s)
      BY <1>1, <1>5, <1>10, <1>12
    <3>2. older[i] = s[m + i] + 1 /\ s[m + i] >= q.age /\ s[m + i] \in Nat
      BY <1>1, <1>5, <1>10, <3>1
    <3>3. row.age \in Nat /\ q.age \in Nat /\ row.age <= q.age + 1
      BY <1>1, <1>7
    <3>4. s[m + i] + 1 >= row.age
      BY <3>2, <3>3
    <3>5. QED
      BY <3>2, <3>4
  <2>3. Booked(older, row)
    BY <1>8, <1>9, <2>1, <2>2 DEF Booked
  <2>4. QED
    BY <1>4, <1>6, <2>3 DEF older, row, o
<1>13. QED
  BY <1>1, <1>5, <1>10, <1>11, <1>12

\* A request within the limit counts, whether or not it is given a lease.
LEMMA BookedLease ==
  ASSUME NEW a \in Agents, LeaseInv, ~Full(a)
  PROVE  /\ Bumped(a) \in RateType
         /\ Booked(leased[a], Bumped(a)) /\ Booked(Append(leased[a], 0), Bumped(a))
         /\ Append(leased[a], 0) \in Seq(0..RATE_WINDOW_MS)
<1> USE LimitTypes
<1> DEFINE s == leased[a]
           q == rate[a]
           n == Len(s)
           t == Append(s, 0)
           b == Bumped(a)
<1>1. /\ s \in Seq(0..RATE_WINDOW_MS) /\ q \in RateType /\ Booked(s, q)
      /\ n \in Nat /\ \A i \in 1..n : s[i] \in 0..RATE_WINDOW_MS
      /\ q.age \in 0..RATE_WINDOW_MS + 1 /\ q.count \in 0..RATE_MAX /\ q.blocked \in BOOLEAN
  BY DEF LeaseInv, RateType
<1>2. /\ t \in Seq(0..RATE_WINDOW_MS) /\ Len(t) = n + 1 /\ t[n + 1] = 0
      /\ \A i \in 1..n : t[i] = s[i]
  BY <1>1
<1>3. \/ Fresh(a) /\ b = [age |-> 0, count |-> 1, blocked |-> FALSE]
      \/ ~Fresh(a) /\ b = [q EXCEPT !.count = @ + 1] /\ q.count + 1 <= RATE_MAX
  BY <1>1 DEF Bumped, Full
<1>4. PICK k \in 0..n : k <= RATE_MAX /\ (\A i \in 1..k : s[i] >= q.age) /\ n - k <= q.count
  BY <1>1 DEF Booked
<1> HIDE DEF s, q, t, b
<1>5. /\ \A i, j \in 1..n : i <= j => s[j] <= s[i]
      /\ \A i \in 1..n : s[i] < RATE_WINDOW_MS
  BY <1>1 DEF Booked
<1>6. /\ \A i, j \in 1..(n + 1) : i <= j => t[j] <= t[i]
      /\ \A i \in 1..(n + 1) : t[i] < RATE_WINDOW_MS
  <2>1. \A i \in 1..(n + 1) : i \in 1..n \/ i = n + 1
    BY <1>1
  <2>2. ASSUME NEW i \in 1..(n + 1), NEW j \in 1..(n + 1), i <= j PROVE t[j] <= t[i]
    <3>1. CASE j \in 1..n
      <4>1. i \in 1..n
        BY <1>1, <2>2, <3>1
      <4>2. QED
        BY <1>2, <1>5, <2>2, <3>1, <4>1
    <3>2. CASE j = n + 1
      BY <1>1, <1>2, <2>1, <3>2
    <3>3. QED
      BY <2>1, <3>1, <3>2
  <2>3. QED
    BY <1>2, <1>5, <2>1, <2>2
<1>7. \E i \in 0..n : i <= RATE_MAX /\ (\A j \in 1..i : s[j] >= b.age) /\ n + 1 - i <= b.count
  <2>1. CASE Fresh(a)
    <3>1. q.age >= RATE_WINDOW_MS /\ b.age = 0 /\ b.count = 1
      BY <1>3, <2>1 DEF Fresh, q
    <3>2. k = 0
      <4>1. SUFFICES ASSUME k # 0 PROVE FALSE
        OBVIOUS
      <4>2. 1 \in 1..k /\ 1 \in 1..n
        BY <1>1, <1>4, <4>1
      <4>3. s[1] >= q.age /\ s[1] < RATE_WINDOW_MS /\ s[1] \in Nat
        BY <1>1, <1>4, <1>5, <4>2
      <4>4. QED
        BY <1>1, <3>1, <4>3
    <3>3. n <= RATE_MAX /\ n + 1 - n <= 1 /\ n \in 0..n
      BY <1>1, <1>4, <3>2
    <3>4. \A j \in 1..n : s[j] >= 0
      BY <1>1
    <3>5. QED
      BY <3>1, <3>3, <3>4
  <2>2. CASE ~Fresh(a)
    <3>1. b.age = q.age /\ b.count = q.count + 1
      BY <1>1, <1>3, <2>2 DEF RateType
    <3>2. n + 1 - k <= b.count
      BY <1>1, <1>4, <3>1
    <3>3. QED
      BY <1>4, <3>1, <3>2
  <2>3. QED
    BY <2>1, <2>2
<1>8. PICK i \in 0..n :
        i <= RATE_MAX /\ (\A j \in 1..i : s[j] >= b.age) /\ n + 1 - i <= b.count
  BY <1>7
<1>9. b \in RateType /\ b.count \in Nat
  <2>1. CASE Fresh(a)
    <3>1. 0 \in 0..RATE_WINDOW_MS + 1 /\ 1 \in 0..RATE_MAX
      OBVIOUS
    <3>2. b = [age |-> 0, count |-> 1, blocked |-> FALSE]
      BY <1>3, <2>1
    <3>3. QED
      BY <3>1, <3>2 DEF RateType
  <2>2. CASE ~Fresh(a)
    <3>1. q.count + 1 \in 0..RATE_MAX
      BY <1>1, <1>3, <2>2
    <3>2. b = [q EXCEPT !.count = q.count + 1]
      BY <1>3, <2>2
    <3>3. b \in RateType
      <4>1. q \in RateType
        BY <1>1
      <4>2. QED
        BY <3>1, <3>2, <4>1 DEF RateType
    <3>4. b.count = q.count + 1
      BY <1>1, <3>2 DEF RateType
    <3>5. QED
      BY <3>1, <3>3, <3>4
  <2>3. QED
    BY <2>1, <2>2
<1>10. Booked(s, b)
  <2>1. n - i <= b.count
    BY <1>1, <1>8, <1>9
  <2>2. QED
    BY <1>5, <1>8, <2>1 DEF Booked
<1>11. Booked(t, b)
  <2>1. i \in 0..(n + 1) /\ \A j \in 1..i : t[j] >= b.age
    <3>1. \A j \in 1..i : j \in 1..n
      BY <1>1, <1>8
    <3>2. QED
      BY <1>1, <1>2, <1>8, <3>1
  <2>2. QED
    BY <1>2, <1>6, <1>8, <2>1 DEF Booked
<1>12. QED
  BY <1>2, <1>9, <1>10, <1>11 DEF s, t, b

LEMMA LeaseInit == Init => LeaseInv
<1> SUFFICES ASSUME Init PROVE LeaseInv
  OBVIOUS
<1>1. NoRate \in RateType /\ NoRate.count = 0
  BY LimitTypes DEF NoRate, RateType
<1>2. Booked(<<>>, NoRate)
  BY <1>1, LimitTypes DEF Booked
<1>3. QED
  BY <1>1, <1>2 DEF Init, LeaseInv

LEMMA LeaseNext == LeaseInv /\ [Next]_vars => LeaseInv'
<1> SUFFICES ASSUME LeaseInv, [Next]_vars PROVE LeaseInv'
  OBVIOUS
<1> USE LimitTypes DEF tokenVars, lockVars
<1>1. rate \in [Agents -> RateType] /\ leased \in [Agents -> Seq(0..RATE_WINDOW_MS)]
  BY DEF LeaseInv
<1>2. ASSUME NEW a \in Agents, NEW q \in RateType, NEW s \in Seq(0..RATE_WINDOW_MS), Booked(s, q),
             rate' = [rate EXCEPT ![a] = q], leased' = [leased EXCEPT ![a] = s]
      PROVE  LeaseInv'
  <2>1. rate' \in [Agents -> RateType] /\ leased' \in [Agents -> Seq(0..RATE_WINDOW_MS)]
    BY <1>1, <1>2
  <2>2. \A x \in Agents : Booked(leased'[x], rate'[x])
    BY <1>1, <1>2 DEF LeaseInv
  <2>3. QED
    BY <2>1, <2>2 DEF LeaseInv
<1>3. ASSUME UNCHANGED <<rate, leased>> PROVE LeaseInv'
  BY <1>3 DEF LeaseInv
<1>4. ASSUME NEW t \in Tokens, NEW a \in Agents, Lease(t, a) PROVE LeaseInv'
  <2>1. /\ ~Full(a) /\ rate' = [rate EXCEPT ![a] = Bumped(a)]
        /\ \/ leased' = [leased EXCEPT ![a] = Append(leased[a], 0)]
           \/ leased' = [leased EXCEPT ![a] = leased[a]]
    BY <1>1, <1>4 DEF Lease
  <2>2. /\ Bumped(a) \in RateType
        /\ Booked(leased[a], Bumped(a)) /\ Booked(Append(leased[a], 0), Bumped(a))
        /\ Append(leased[a], 0) \in Seq(0..RATE_WINDOW_MS) /\ leased[a] \in Seq(0..RATE_WINDOW_MS)
    BY <1>1, <2>1, BookedLease
  <2>3. QED
    BY <1>2, <2>1, <2>2
<1>5. ASSUME NEW t \in Tokens, NEW a \in Agents, Refuse(t, a) PROVE LeaseInv'
  <2> DEFINE q == [rate[a] EXCEPT !.blocked = TRUE]
  <2>1. rate' = [rate EXCEPT ![a] = q] /\ leased' = [leased EXCEPT ![a] = leased[a]]
    BY <1>1, <1>5 DEF Refuse, leases
  <2>2. q \in RateType /\ q.age = rate[a].age /\ q.count = rate[a].count
    BY <1>1 DEF RateType
  <2>3. leased[a] \in Seq(0..RATE_WINDOW_MS) /\ Booked(leased[a], rate[a])
    BY DEF LeaseInv
  <2> HIDE DEF q
  <2>4. Booked(leased[a], q)
    BY <2>2, <2>3 DEF Booked
  <2>5. QED
    BY <1>2, <2>1, <2>2, <2>3, <2>4
<1>6. ASSUME NEW t \in Tokens, NEW a \in Agents, Revoke(t, a) PROVE LeaseInv'
  <2>1. \E q \in RateType : rate' = [rate EXCEPT ![a] = q]
    <3>1. [age |-> 0, count |-> 0, blocked |-> FALSE] \in RateType /\ rate[a] \in RateType
      BY <1>1 DEF RateType
    <3>2. QED
      BY <1>6, <3>1 DEF Revoke
  <2>2. PICK q \in RateType : rate' = [rate EXCEPT ![a] = q]
    BY <2>1
  <2>3. leased' = [leased EXCEPT ![a] = <<>>]
    BY <1>6 DEF Revoke
  <2>4. Booked(<<>>, q)
    BY DEF Booked, RateType
  <2>5. <<>> \in Seq(0..RATE_WINDOW_MS)
    OBVIOUS
  <2>6. QED
    BY <1>2, <2>2, <2>3, <2>4, <2>5
<1>7. ASSUME Tick PROVE LeaseInv'
  <2>1. /\ rate' = [a \in Agents |-> [rate[a] EXCEPT !.age = Older(@, RATE_WINDOW_MS)]]
        /\ leased' = [a \in Agents |-> InWindow(OlderSeq(leased[a], RATE_WINDOW_MS))]
    BY <1>7 DEF Tick
  <2>2. ASSUME NEW a \in Agents
        PROVE  /\ rate'[a] \in RateType /\ leased'[a] \in Seq(0..RATE_WINDOW_MS)
               /\ Booked(leased'[a], rate'[a])
    <3>1. /\ rate[a] \in RateType /\ leased[a] \in Seq(0..RATE_WINDOW_MS)
          /\ Booked(leased[a], rate[a])
      BY DEF LeaseInv
    <3>2. /\ rate'[a] = [rate[a] EXCEPT !.age = Older(@, RATE_WINDOW_MS)]
          /\ leased'[a] = InWindow(OlderSeq(leased[a], RATE_WINDOW_MS))
      BY <2>1
    <3>3. QED
      BY <3>1, <3>2, BookedTick
  <2>3. rate' \in [Agents -> RateType] /\ leased' \in [Agents -> Seq(0..RATE_WINDOW_MS)]
    BY <2>1, <2>2
  <2>4. QED
    BY <2>2, <2>3 DEF LeaseInv
<1>8. ASSUME NEW t \in Tokens, NEW a \in Agents, Mint(t, a) \/ NoReason(t, a) PROVE LeaseInv'
  BY <1>3, <1>8 DEF leases, Mint, NoReason
<1>9. ASSUME NEW d \in Drivers, NEW a \in Agents, Acquire(d, a) \/ Heartbeat(d, a) \/ Release(d, a)
      PROVE  LeaseInv'
  BY <1>3, <1>9 DEF leases, Acquire, Heartbeat, Release
<1>10. ASSUME NEW d \in Drivers, DriverCrash(d) PROVE LeaseInv'
  BY <1>3, <1>10 DEF DriverCrash, leases
<1>11. ASSUME Sweep \/ StoreChanges \/ Restart \/ (\E x \in Agents : StartLease(x)) \/ UNCHANGED vars
       PROVE  LeaseInv'
  BY <1>3, <1>11 DEF leases, StartLease, Sweep, StoreChanges, Restart, vars
<1>12. QED
  BY <1>4, <1>5, <1>6, <1>7, <1>8, <1>9, <1>10, <1>11 DEF Next, Request

\* Between two revocations no window of time sees more than twice the limit of leases
\* that an agent asks for, whatever its starts take besides, for every window, limit and number of restarts (checkAndBumpRate).
THEOREM LeasesAreApart == Spec => []LeasesApart
<1>1. LeaseInv => LeasesApart
  <2> SUFFICES ASSUME LeaseInv, NEW a \in Agents PROVE Len(leased[a]) <= 2 * RATE_MAX
    BY DEF LeasesApart
  <2>1. PICK k \in 0..Len(leased[a]) : k <= RATE_MAX /\ Len(leased[a]) - k <= rate[a].count
    BY DEF LeaseInv, Booked
  <2>2. Len(leased[a]) \in Nat /\ rate[a].count \in 0..RATE_MAX
    BY DEF LeaseInv, RateType
  <2>3. QED
    BY <2>1, <2>2, LimitTypes
<1>2. QED
  BY <1>1, LeaseInit, LeaseNext, PTL DEF Spec

----------------------------------------------------------------------------
(* Types *)

Others ==
  /\ tokenOf \in [Tokens -> Agents \union {"none"}]
  /\ live \subseteq Drivers /\ store \in BOOLEAN
  /\ started \in [Agents -> Seq(0..RATE_WINDOW_MS)]

LEMMA OthersNext == Others /\ [Next]_vars => Others'
<1> SUFFICES ASSUME Others, [Next]_vars PROVE Others'
  OBVIOUS
<1> USE LimitTypes DEF Others, leases
<1>1. ASSUME NEW t \in Tokens, NEW a \in Agents, Mint(t, a) PROVE Others'
  BY <1>1 DEF Mint, lockVars
<1>2. ASSUME NEW t \in Tokens, NEW a \in Agents, NoReason(t, a) \/ Refuse(t, a) \/ Lease(t, a)
      PROVE  Others'
  BY <1>2 DEF NoReason, Refuse, Lease, Verify, lockVars
<1>3. ASSUME NEW t \in Tokens, NEW a \in Agents, Revoke(t, a) PROVE Others'
  <2>1. <<>> \in Seq(0..RATE_WINDOW_MS)
    OBVIOUS
  <2>2. QED
    BY <1>3, <2>1 DEF Revoke, Verify
<1>4. ASSUME NEW d \in Drivers, NEW a \in Agents, Acquire(d, a) \/ Heartbeat(d, a) \/ Release(d, a)
      PROVE  Others'
  BY <1>4 DEF Acquire, Heartbeat, Release, tokenVars
<1>5. ASSUME NEW d \in Drivers, DriverCrash(d) PROVE Others'
  BY <1>5 DEF DriverCrash, tokenVars
<1>6. ASSUME NEW a \in Agents, StartLease(a) PROVE Others'
  <2>1. started[a] \in Seq(0..RATE_WINDOW_MS) /\ 0 \in 0..RATE_WINDOW_MS
    OBVIOUS
  <2>2. Append(started[a], 0) \in Seq(0..RATE_WINDOW_MS)
    BY <2>1
  <2>3. QED
    BY <1>6, <2>2 DEF StartLease, lockVars, tokenVars
<1>7. CASE Tick
  <2>1. ASSUME NEW a \in Agents
        PROVE  InWindow(OlderSeq(started[a], RATE_WINDOW_MS)) \in Seq(0..RATE_WINDOW_MS)
    <3>1. OlderSeq(started[a], RATE_WINDOW_MS) \in Seq(0..RATE_WINDOW_MS)
      BY OlderSeqFacts
    <3>2. QED
      BY <3>1, RecentFacts DEF InWindow
  <2>2. QED
    BY <1>7, <2>1 DEF Tick
<1>8. CASE Sweep \/ Restart
  BY <1>8 DEF Sweep, Restart, lockVars
<1>9. CASE StoreChanges
  BY <1>9 DEF StoreChanges, lockVars, tokenVars
<1>10. CASE UNCHANGED vars
  BY <1>10 DEF vars, tokenVars, lockVars
<1>11. QED
  BY <1>1, <1>2, <1>3, <1>4, <1>5, <1>6, <1>7, <1>8, <1>9, <1>10 DEF Next, Request

\* Every variable has its type: no counter passes its limit, no age its window, and only
\* tokens that were given out are marked used.
THEOREM TypeCorrect == Spec => []TypeOK
<1>1. Init => Others
  <2>1. <<>> \in Seq(0..RATE_WINDOW_MS)
    OBVIOUS
  <2>2. QED
    BY <2>1 DEF Init, Others
<1>2. TokenInv /\ LockInv /\ MintInv /\ LeaseInv /\ Others => TypeOK
  BY DEF TokenInv, TokenTypes, LockInv, LockTypes, MintInv, LeaseInv, RateType, Others, TypeOK
<1>3. QED
  BY <1>1, <1>2, OthersNext, TokenInit, TokenNext, LockInit, LockNext, MintInit, MintNext,
     LeaseInit, LeaseNext, PTL DEF Spec
=============================================================================
