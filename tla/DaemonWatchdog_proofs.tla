----------------------- MODULE DaemonWatchdog_proofs ------------------------
(***************************************************************************)
(* Theorems about DaemonWatchdog, for every budget and window and every    *)
(* number of daemons, attempts, crashes and restarts.                      *)
(*                                                                         *)
(* RespawnsApart: the timestamps that the watchdog remembers are the end   *)
(* of the history of respawns, and what it has forgotten is older than the *)
(* window.                                                                 *)
(* OneChild: an exit event that is not handled yet stands for the daemon   *)
(* that ended, and a daemon is spawned only where neither a living daemon  *)
(* of the server's own nor such an event is left.                          *)
(* PidFileNamesDaemon: as long as no server has left a booting daemon      *)
(* behind one daemon lives at most, and the file names it from its write   *)
(* of the file to its end (FileInv).                                       *)
(***************************************************************************)
EXTENDS DaemonWatchdog, SequenceTheorems, TLAPS

Budget == WATCHDOG_RESPAWN_BUDGET
Window == WATCHDOG_RESPAWN_WINDOW_MS

\* How many respawns the watchdog has forgotten.
Forgotten == Len(respawns) - Len(stamps)

StampsOK ==
  /\ now \in Nat
  /\ stamps \in Seq(Nat) /\ respawns \in Seq(Nat)
  /\ Len(stamps) <= Budget /\ Len(stamps) <= Len(respawns)
  /\ \A i \in 1..Len(stamps) : stamps[i] = respawns[Forgotten + i]
  /\ \A i \in 1..Forgotten : respawns[i] < now - Window

BudgetInv == StampsOK /\ RespawnsApart

ProcStates == {"none", "booting", "claiming", "binding", "serving", "hung", "gone", "quit"}
StepStates == {"idle", "existing", "replacing", "probing", "waiting", "listing", "restarting"}

LaunchTypes ==
  /\ proc \in [Daemons -> ProcStates]
  /\ own \subseteq Daemons
  /\ pidFile \in 0..Marker
  /\ attempt \in [Attempts -> [step : StepStates, spawned : 0..MaxDaemons]]

\* Of the server's own daemons one lives, or one exit event is left, or neither.
OneOrExit ==
  /\ OneChild
  /\ exits # {} => \A d \in own : ~Alive(d)
  /\ \A e, f \in exits : e = f

\* Until the start of the server has spawned a daemon there is none.
StartsWithout ==
  /\ attempt[Boot].step \notin {"listing", "restarting"}
  /\ server = "starting" /\ attempt[Boot].step \in {"idle", "existing", "replacing"}
       => own = {} /\ exits = {}

LaunchInv == LaunchTypes /\ OneOrExit /\ StartsWithout

----------------------------------------------------------------------------
(* The budget *)

LEMMA BudgetInit == Init => BudgetInv
BY BudgetAssumption DEF Init, BudgetInv, StampsOK, RespawnsApart, Forgotten, Budget, Window

\* What stays of the timestamps is still the end of the history.
LEMMA AfterFacts ==
  ASSUME StampsOK, NEW k \in 0..Len(stamps)
  PROVE  /\ After(k) \in Seq(Nat)
         /\ Len(After(k)) = Len(stamps) - k
         /\ \A i \in 1..Len(stamps) - k : After(k)[i] = respawns[Forgotten + k + i]
<1>1. stamps \in Seq(Nat) /\ Len(stamps) \in Nat /\ k \in Nat /\ Len(respawns) \in Nat
  BY DEF StampsOK
<1>2. \A i \in k + 1..Len(stamps) : stamps[i] \in Nat
  BY <1>1
<1>3. /\ After(k) \in Seq(Nat)
      /\ Len(After(k)) = IF k + 1 <= Len(stamps) THEN Len(stamps) - (k + 1) + 1 ELSE 0
      /\ \A i \in 1..Len(stamps) - (k + 1) + 1 : After(k)[i] = stamps[k + 1 + i - 1]
  BY <1>1, <1>2, SubSeqProperties DEF After
<1>4. Len(After(k)) = Len(stamps) - k
  BY <1>1, <1>3
<1>5. ASSUME NEW i \in 1..Len(stamps) - k PROVE After(k)[i] = respawns[Forgotten + k + i]
  <2>1. After(k)[i] = stamps[k + i] /\ k + i \in 1..Len(stamps)
    BY <1>1, <1>3
  <2>2. Forgotten + (k + i) = Forgotten + k + i
    BY <1>1 DEF Forgotten
  <2>3. QED
    BY <2>1, <2>2 DEF StampsOK
<1>6. QED
  BY <1>3, <1>4, <1>5

\* What is cut off lies before the window, with all that was forgotten before.
LEMMA CutOff ==
  ASSUME StampsOK, NEW k \in 0..Len(stamps), Keep(k, now - Window)
  PROVE  \A i \in 1..Forgotten + k : respawns[i] < now - Window
<1>1. Len(stamps) \in Nat /\ Len(respawns) \in Nat /\ Len(stamps) <= Len(respawns)
  BY DEF StampsOK
<1>2. SUFFICES ASSUME NEW i \in 1..Forgotten + k, i > Forgotten
               PROVE  respawns[i] < now - Window
  BY <1>1 DEF StampsOK, Forgotten
<1> DEFINE j == i - Forgotten
<1>3. j \in 1..k /\ j \in 1..Len(stamps) /\ Forgotten + j = i
  BY <1>1, <1>2 DEF Forgotten
<1> HIDE DEF j
<1>4. stamps[j] = respawns[Forgotten + j]
  BY <1>3 DEF StampsOK
<1>5. stamps[j] < now - Window
  BY <1>3 DEF Keep
<1>6. QED
  BY <1>3, <1>4, <1>5

\* A respawn that is refused, or an exit event while the watchdog is escalated.
LEMMA RefusedKeeps ==
  ASSUME BudgetInv, RecordRespawn, escalated', UNCHANGED <<now, respawns>>
  PROVE  BudgetInv'
<1> USE BudgetAssumption DEF BudgetInv
<1>1. CASE escalated
  BY <1>1 DEF RecordRespawn, StampsOK, RespawnsApart, Forgotten
<1>2. CASE ~escalated
  <2>1. PICK k \in 0..Len(stamps) : Keep(k, now - Window) /\ stamps' = After(k)
    BY <1>2 DEF RecordRespawn, Window
  <2>2. /\ stamps' \in Seq(Nat) /\ Len(stamps') = Len(stamps) - k
        /\ \A i \in 1..Len(stamps) - k : stamps'[i] = respawns[Forgotten + k + i]
    BY <2>1, AfterFacts
  <2>3. Len(stamps) \in Nat /\ Len(respawns) \in Nat /\ Forgotten' = Forgotten + k
    BY <2>2 DEF StampsOK, Forgotten
  <2>4. \A i \in 1..Forgotten + k : respawns[i] < now - Window
    BY <2>1, CutOff
  <2>5. StampsOK'
    <3>1. \A i \in 1..Len(stamps') : stamps'[i] = respawns'[Forgotten' + i]
      BY <2>2, <2>3
    <3>2. \A i \in 1..Forgotten' : respawns'[i] < now' - Window
      BY <2>3, <2>4
    <3>3. Len(stamps') <= Budget /\ Len(stamps') <= Len(respawns')
      BY <2>2, <2>3 DEF StampsOK, Budget
    <3>4. QED
      BY <2>2, <3>1, <3>2, <3>3 DEF StampsOK
  <2>6. QED
    BY <2>5 DEF RespawnsApart
<1>3. QED
  BY <1>1, <1>2

\* One more respawn, at t: n respawns r before it, of which the last m, fewer than the
\* budget, are remembered in s.
OneMore(B, W, t, n, m, r, s, r2, s2) ==
  /\ B \in Nat \ {0} /\ W \in Nat /\ t \in Nat /\ n \in Nat /\ m \in Nat /\ m < B /\ m <= n
  /\ \A i \in 1..n : r[i] \in Nat /\ r2[i] = r[i]
  /\ r2[n + 1] = t
  /\ \A i \in 1..m : s[i] = r[(n - m) + i] /\ s2[i] = s[i]
  /\ s2[m + 1] = t
  /\ \A i \in 1..n - m : r[i] < t - W
  /\ \A i \in 1..n - B : r[i + B] - r[i] > W

LEMMA OneMoreFits ==
  ASSUME NEW B, NEW W, NEW t, NEW n, NEW m, NEW r, NEW s, NEW r2, NEW s2,
         OneMore(B, W, t, n, m, r, s, r2, s2)
  PROVE  /\ \A i \in 1..m + 1 : s2[i] = r2[(n - m) + i]
         /\ \A i \in 1..n - m : r2[i] < t - W
         /\ \A i \in 1..(n + 1) - B : r2[i + B] - r2[i] > W
<1> USE DEF OneMore
<1>1. ASSUME NEW i \in 1..m + 1 PROVE s2[i] = r2[(n - m) + i]
  <2>1. CASE i = m + 1
    <3>1. (n - m) + i = n + 1
      BY <2>1
    <3>2. QED
      BY <2>1, <3>1
  <2>2. CASE i # m + 1
    <3>1. i \in 1..m /\ (n - m) + i \in 1..n
      BY <2>2
    <3>2. QED
      BY <3>1
  <2>3. QED
    BY <2>1, <2>2
<1>2. ASSUME NEW i \in 1..n - m PROVE r2[i] < t - W
  <2>1. i \in 1..n
    OBVIOUS
  <2>2. QED
    BY <2>1
<1>3. ASSUME NEW i \in 1..(n + 1) - B PROVE r2[i + B] - r2[i] > W
  <2>1. CASE i + B = n + 1
    <3>1. i \in 1..n - m /\ i \in 1..n
      BY <2>1
    <3>2. r2[i + B] = t /\ r2[i] = r[i] /\ r[i] \in Nat /\ r[i] < t - W
      BY <2>1, <3>1
    <3>3. QED
      BY <3>2
  <2>2. CASE i + B # n + 1
    <3>1. i + B \in 1..n /\ i \in 1..n /\ i \in 1..n - B
      BY <2>2
    <3>2. QED
      BY <3>1
  <2>3. QED
    BY <2>1, <2>2
<1>4. QED
  BY <1>1, <1>2, <1>3

\* A respawn that is allowed: the one Budget places before it is forgotten.
LEMMA AllowedKeeps ==
  ASSUME BudgetInv, RecordRespawn, ~escalated', now' = now, respawns' = Append(respawns, now)
  PROVE  BudgetInv'
<1>1. PICK k \in 0..Len(stamps) :
        /\ Keep(k, now - Window)
        /\ ~Full(k)
        /\ stamps' = Append(After(k), now)
  BY DEF RecordRespawn, Window
<1>2. /\ now \in Nat /\ respawns \in Seq(Nat) /\ Len(respawns) \in Nat /\ Len(stamps) \in Nat
      /\ Budget \in Nat \ {0} /\ Window \in Nat /\ Len(stamps) <= Len(respawns)
  BY BudgetAssumption DEF BudgetInv, StampsOK, Budget, Window
<1>3. PICK n \in Nat, m \in Nat : n = Len(respawns) /\ m = Len(stamps) - k
  <2>1. Len(stamps) - k \in Nat
    BY <1>2
  <2>2. QED
    BY <1>2, <2>1
<1>4. m < Budget /\ m <= n /\ Forgotten + k = n - m
  BY <1>1, <1>2, <1>3 DEF Full, Budget, Forgotten
<1>5. /\ After(k) \in Seq(Nat) /\ Len(After(k)) = m
      /\ \A i \in 1..m : After(k)[i] = respawns[(n - m) + i]
  BY <1>3, <1>4, AfterFacts DEF BudgetInv
<1>6. /\ respawns' \in Seq(Nat) /\ Len(respawns') = n + 1
      /\ \A i \in 1..n : respawns[i] \in Nat /\ respawns'[i] = respawns[i]
      /\ respawns'[n + 1] = now
  BY <1>2, <1>3, AppendProperties
<1>7. /\ stamps' \in Seq(Nat) /\ Len(stamps') = m + 1
      /\ \A i \in 1..m : stamps'[i] = After(k)[i]
      /\ stamps'[m + 1] = now
  <2> DEFINE kept == After(k)
  <2>1. stamps' = Append(kept, now) /\ kept \in Seq(Nat) /\ Len(kept) = m
    BY <1>1, <1>5
  <2> HIDE DEF kept
  <2>2. /\ Append(kept, now) \in Seq(Nat) /\ Len(Append(kept, now)) = m + 1
        /\ \A i \in 1..m : Append(kept, now)[i] = kept[i]
        /\ Append(kept, now)[m + 1] = now
    BY <1>2, <2>1, AppendProperties
  <2>3. QED
    BY <2>1, <2>2 DEF kept
<1>8. \A i \in 1..n - m : respawns[i] < now - Window
  BY <1>1, <1>4, CutOff DEF BudgetInv
<1>9. \A i \in 1..n - Budget : respawns[i + Budget] - respawns[i] > Window
  BY <1>3 DEF BudgetInv, RespawnsApart, Budget, Window
<1>10. /\ \A i \in 1..m + 1 : stamps'[i] = respawns'[(n - m) + i]
       /\ \A i \in 1..n - m : respawns'[i] < now - Window
       /\ \A i \in 1..(n + 1) - Budget : respawns'[i + Budget] - respawns'[i] > Window
  <2> DEFINE s == After(k)
             r2 == respawns'
             s2 == stamps'
  <2>1. \A i \in 1..n : respawns[i] \in Nat /\ r2[i] = respawns[i]
    BY <1>6
  <2>2. \A i \in 1..m : s[i] = respawns[(n - m) + i] /\ s2[i] = s[i]
    BY <1>5, <1>7
  <2>3. r2[n + 1] = now /\ s2[m + 1] = now
    BY <1>6, <1>7
  <2>4. Budget \in Nat \ {0} /\ Window \in Nat /\ now \in Nat /\ m < Budget /\ m <= n
    BY <1>2, <1>4
  <2> HIDE DEF s, r2, s2
  <2>5. OneMore(Budget, Window, now, n, m, respawns, s, r2, s2)
    BY <1>8, <1>9, <2>1, <2>2, <2>3, <2>4 DEF OneMore
  <2>6. /\ \A i \in 1..m + 1 : s2[i] = r2[(n - m) + i]
        /\ \A i \in 1..n - m : r2[i] < now - Window
        /\ \A i \in 1..(n + 1) - Budget : r2[i + Budget] - r2[i] > Window
    BY <2>5, OneMoreFits
  <2>7. QED
    BY <2>6 DEF r2, s2
<1>11. Forgotten' = n - m
  BY <1>6, <1>7 DEF Forgotten
<1>12. StampsOK'
  <2>1. now' \in Nat /\ stamps' \in Seq(Nat) /\ respawns' \in Seq(Nat)
    BY <1>2, <1>6, <1>7
  <2>2. Len(stamps') <= Budget /\ Len(stamps') <= Len(respawns')
    BY <1>2, <1>4, <1>6, <1>7
  <2>3. \A i \in 1..Len(stamps') : stamps'[i] = respawns'[Forgotten' + i]
    BY <1>7, <1>10, <1>11
  <2>4. \A i \in 1..Forgotten' : respawns'[i] < now' - Window
    BY <1>10, <1>11
  <2>5. QED
    BY <2>1, <2>2, <2>3, <2>4 DEF StampsOK
<1>13. RespawnsApart'
  BY <1>6, <1>10 DEF RespawnsApart, Budget, Window
<1>14. QED
  BY <1>12, <1>13 DEF BudgetInv

LEMMA BudgetNext == BudgetInv /\ [Next]_vars => BudgetInv'
<1> SUFFICES ASSUME BudgetInv, [Next]_vars PROVE BudgetInv'
  OBVIOUS
<1> USE DEF osVars, launcherVars, watchdogVars, agentVars, linkVars, bounds
<1>1. ASSUME UNCHANGED <<watchdogVars, now>> PROVE BudgetInv'
  BY <1>1 DEF BudgetInv, StampsOK, RespawnsApart, Forgotten
<1>2. ASSUME NEW e \in exits, NEW a \in Attempts, HandleExit(e, a) PROVE BudgetInv'
  <2>1. CASE e.clean
    BY <1>1, <1>2, <2>1 DEF HandleExit
  <2>2. CASE ~e.clean /\ escalated'
    BY <1>2, <2>2, RefusedKeeps DEF HandleExit
  <2>3. CASE ~e.clean /\ ~escalated'
    BY <1>2, <2>3, AllowedKeeps DEF HandleExit
  <2>4. QED
    BY <2>1, <2>2, <2>3
<1>3. ASSUME ResetEscalation \/ ServerRestart PROVE BudgetInv'
  <2>1. stamps' = <<>> /\ respawns' = <<>> /\ now' = now
    BY <1>3 DEF ResetEscalation, ServerRestart
  <2>2. QED
    BY <2>1, BudgetAssumption
       DEF BudgetInv, StampsOK, RespawnsApart, Forgotten, Budget, Window
<1>4. ASSUME Tick PROVE BudgetInv'
  <2>1. now' = now + 1 /\ UNCHANGED <<stamps, respawns>>
    BY <1>4 DEF Tick
  <2>2. now' \in Nat /\ Window \in Nat
    BY <2>1, BudgetAssumption DEF BudgetInv, StampsOK, Window
  <2>3. \A i \in 1..Forgotten : respawns[i] < now' - Window
    <3>1. TAKE i \in 1..Forgotten
    <3>2. respawns[i] \in Nat /\ respawns[i] < now - Window
      BY <3>1 DEF BudgetInv, StampsOK, Forgotten
    <3>3. QED
      BY <2>1, <2>2, <3>2 DEF BudgetInv, StampsOK
  <2>4. QED
    BY <2>1, <2>2, <2>3 DEF BudgetInv, StampsOK, RespawnsApart, Forgotten
<1>5. ASSUME NEW d \in Daemons,
             CheckExisting(d) \/ WritePidFile(d) \/ Listen(d) \/ Crash(d) \/ Hang(d)
      PROVE  BudgetInv'
  BY <1>1, <1>5 DEF CheckExisting, WritePidFile, Listen, Crash, Hang
<1>6. ASSUME NEW a \in Attempts,
             Verify(a) \/ Ready(a) \/ NotReady(a) \/ ListPtys(a) \/ RestartLost(a)
      PROVE  BudgetInv'
  BY <1>1, <1>6 DEF Verify, Ready, NotReady, ListPtys, RestartLost
<1>7. ASSUME EnsureDaemon \/ Replace \/ TimerFires \/ HealthFails \/ StartAgent \/ StopAgent
      PROVE  BudgetInv'
  BY <1>1, <1>7 DEF EnsureDaemon, Replace, TimerFires, HealthFails, StartAgent, StopAgent
<1>8. CASE UNCHANGED vars
  BY <1>1, <1>8 DEF vars
<1>9. QED
  BY <1>2, <1>3, <1>4, <1>5, <1>6, <1>7, <1>8 DEF Next

\* The budget holds for every window of time, however attempts overlap: one respawn more
\* than the budget is always later than the window.
THEOREM RespawnsAreApart == Spec => []RespawnsApart
<1>1. BudgetInv => RespawnsApart
  BY DEF BudgetInv
<1>2. QED
  BY <1>1, BudgetInit, BudgetNext, PTL DEF Spec

----------------------------------------------------------------------------
(* One child *)

LEMMA LaunchInit == Init => LaunchInv
<1> SUFFICES ASSUME Init PROVE LaunchInv
  OBVIOUS
<1>1. LaunchTypes
  BY BoundsAssumption
     DEF Init, LaunchTypes, ProcStates, StepStates, Idle, Nobody, Marker
<1>2. OneOrExit /\ StartsWithout
  BY BoundsAssumption DEF Init, OneOrExit, OneChild, StartsWithout, Idle, Boot, Attempts
<1>3. QED
  BY <1>1, <1>2 DEF LaunchInv

\* No daemon comes to life, and no exit event comes or goes.
LEMMA QuietKeepsOne ==
  ASSUME LaunchInv, \A d \in Daemons : Alive(d)' => Alive(d), UNCHANGED <<own, exits>>
  PROVE  OneOrExit'
BY DEF LaunchInv, LaunchTypes, OneOrExit, OneChild

\* A daemon that ends leaves an exit event in its place.
LEMMA EndsKeepsOne ==
  ASSUME LaunchInv, NEW d, NEW clean \in BOOLEAN, NEW remove \in BOOLEAN,
         Alive(d), Ends(d, clean, remove), own' = own
  PROVE  OneOrExit'
<1>1. \A x \in Daemons : Alive(x)' => Alive(x) /\ x # d
  BY DEF LaunchInv, LaunchTypes, Ends, Alive
<1>2. CASE d \in own
  <2>1. exits = {}
    BY <1>2 DEF LaunchInv, OneOrExit
  <2>2. exits' = {[daemon |-> d, clean |-> clean]}
    BY <1>2, <2>1 DEF Ends
  <2>3. \A x \in own : ~Alive(x)'
    BY <1>1, <1>2 DEF LaunchInv, LaunchTypes, OneOrExit, OneChild
  <2>4. QED
    BY <2>2, <2>3 DEF OneOrExit, OneChild
<1>3. CASE d \notin own
  <2>1. exits' = exits
    BY <1>3 DEF Ends
  <2>2. QED
    BY <1>1, <2>1, QuietKeepsOne
<1>4. QED
  BY <1>2, <1>3

LEMMA EndsTypes ==
  ASSUME LaunchInv, NEW d, NEW clean \in BOOLEAN, NEW remove \in BOOLEAN, Ends(d, clean, remove)
  PROVE  proc' \in [Daemons -> ProcStates] /\ pidFile' \in 0..Marker
<1>1. proc' \in [Daemons -> ProcStates]
  BY DEF LaunchInv, LaunchTypes, Ends, ProcStates
<1>2. Nobody \in 0..Marker
  BY BoundsAssumption DEF Nobody, Marker
<1>3. pidFile' \in 0..Marker
  BY <1>2 DEF LaunchInv, LaunchTypes, Ends
<1>4. QED
  BY <1>1, <1>3

\* A daemon is spawned where none of the server's own lives and no exit event is left.
LEMMA SpawnsKeepsOne ==
  ASSUME LaunchInv, NEW a \in Attempts, Spawns(a),
         \A d \in own : ~Alive(d), exits' = {}
  PROVE  /\ LaunchTypes' /\ OneOrExit'
         /\ attempt'[a].step = "probing"
         /\ \A b \in Attempts \ {a} : attempt'[b] = attempt[b]
<1>1. Newborn \in Daemons
  BY DEF Spawns, Newborn, Unborn
<1> DEFINE d == Newborn
<1>2. /\ proc' = [proc EXCEPT ![d] = "booting"] /\ pidFile' = Marker
      /\ own' = own \cup {d}
      /\ attempt' = [attempt EXCEPT ![a] = [step |-> "probing", spawned |-> d]]
  BY DEF Spawns
<1>3. d \in Daemons
  BY <1>1
<1> HIDE DEF d
<1>4. Marker \in 0..Marker /\ d \in 0..MaxDaemons
  BY <1>3, BoundsAssumption DEF Marker, Daemons
<1>5. [step |-> "probing", spawned |-> d] \in [step : StepStates, spawned : 0..MaxDaemons]
  BY <1>4 DEF StepStates
<1>6. LaunchTypes'
  BY <1>2, <1>3, <1>4, <1>5 DEF LaunchInv, LaunchTypes, ProcStates
<1>7. \A x \in own' : Alive(x)' => x = d
  BY <1>2, <1>3 DEF LaunchInv, LaunchTypes, Alive
<1>8. OneOrExit'
  BY <1>7 DEF OneOrExit, OneChild
<1>9. QED
  BY <1>2, <1>6, <1>8 DEF LaunchInv, LaunchTypes

LEMMA AttemptKeepsTypes ==
  ASSUME LaunchInv, NEW a \in Attempts, NEW new \in StepStates,
         \/ attempt' = [attempt EXCEPT ![a].step = new]
         \/ attempt' = [attempt EXCEPT ![a] = Idle] /\ new = "idle"
  PROVE  /\ attempt' \in [Attempts -> [step : StepStates, spawned : 0..MaxDaemons]]
         /\ attempt'[a].step = new
         /\ \A b \in Attempts \ {a} : attempt'[b] = attempt[b]
<1>1. Idle \in [step : StepStates, spawned : 0..MaxDaemons] /\ Idle.step = "idle"
  BY BoundsAssumption DEF Idle, Nobody, StepStates
<1>2. QED
  BY <1>1 DEF LaunchInv, LaunchTypes

\* The start of the server does not go back to a step before the spawn.
LEMMA StartKeeps ==
  ASSUME LaunchInv, own' = own, own = {} => exits' = exits,
         attempt'[Boot].step \notin {"listing", "restarting"},
         server' = "starting" /\ attempt'[Boot].step \in {"idle", "existing", "replacing"}
           => server = "starting" /\ attempt[Boot].step \in {"idle", "existing", "replacing"}
  PROVE  StartsWithout'
BY DEF LaunchInv, StartsWithout

\* A daemon ends and the attempts stay where they are.
LEMMA EndsKeepsInv ==
  ASSUME LaunchInv, NEW d, NEW clean \in BOOLEAN, NEW remove \in BOOLEAN,
         Alive(d), Ends(d, clean, remove), UNCHANGED <<own, server, attempt>>
  PROVE  LaunchInv'
<1>1. LaunchTypes'
  BY EndsTypes DEF LaunchInv, LaunchTypes
<1>2. OneOrExit'
  BY EndsKeepsOne
<1>3. own = {} => exits' = exits
  BY DEF Ends
<1>4. StartsWithout'
  BY <1>3, StartKeeps DEF LaunchInv, StartsWithout
<1>5. QED
  BY <1>1, <1>2, <1>4 DEF LaunchInv

\* Nothing of what the invariant speaks of changes but how far living daemons are.
LEMMA QuietKeepsInv ==
  ASSUME LaunchInv, \A d \in Daemons : Alive(d)' => Alive(d),
         proc' \in [Daemons -> ProcStates], pidFile' \in 0..Marker,
         UNCHANGED <<own, exits, server, attempt>>
  PROVE  LaunchInv'
<1>1. LaunchTypes'
  BY DEF LaunchInv, LaunchTypes
<1>2. OneOrExit'
  BY QuietKeepsOne
<1>3. StartsWithout'
  BY DEF LaunchInv, StartsWithout
<1>4. QED
  BY <1>1, <1>2, <1>3 DEF LaunchInv

LEMMA DaemonSteps ==
  ASSUME LaunchInv, NEW d \in Daemons,
         CheckExisting(d) \/ WritePidFile(d) \/ Listen(d) \/ Crash(d) \/ Hang(d)
  PROVE  LaunchInv'
<1> USE DEF launcherVars
<1>1. Nobody \in 0..Marker /\ d \in 0..Marker
  BY BoundsAssumption DEF Nobody, Marker, Daemons
<1>2. ASSUME NEW new \in ProcStates \ {"gone", "quit"}, Alive(d), proc' = [proc EXCEPT ![d] = new],
             pidFile' \in 0..Marker, UNCHANGED <<own, exits, server, attempt>>
      PROVE  LaunchInv'
  <2>1. proc' \in [Daemons -> ProcStates] /\ \A x \in Daemons : Alive(x)' => Alive(x)
    BY <1>2 DEF LaunchInv, LaunchTypes, Alive
  <2>2. QED
    BY <1>2, <2>1, QuietKeepsInv
<1>3. CASE CheckExisting(d)
  <2>1. Alive(d) /\ UNCHANGED <<own, server, attempt>>
    BY <1>3 DEF CheckExisting, Alive
  <2>2. CASE Ends(d, FALSE, FALSE)
    BY <2>1, <2>2, EndsKeepsInv
  <2>3. CASE ~Ends(d, FALSE, FALSE)
    <3>1. /\ proc' = [proc EXCEPT ![d] = "claiming"]
          /\ pidFile' = IF pidFile \in Daemons THEN Nobody ELSE pidFile
          /\ exits' = exits
      BY <1>3, <2>3 DEF CheckExisting
    <3>2. pidFile' \in 0..Marker
      BY <1>1, <3>1 DEF LaunchInv, LaunchTypes
    <3>3. QED
      BY <1>2, <2>1, <3>1, <3>2 DEF ProcStates
  <2>4. QED
    BY <2>2, <2>3
<1>4. CASE WritePidFile(d)
  <2>1. /\ Alive(d) /\ proc' = [proc EXCEPT ![d] = "binding"] /\ pidFile' = d
        /\ UNCHANGED <<own, exits, server, attempt>>
    BY <1>4 DEF WritePidFile, Alive
  <2>2. QED
    BY <1>1, <1>2, <2>1 DEF ProcStates
<1>5. CASE Listen(d)
  <2>1. Alive(d) /\ UNCHANGED <<own, server, attempt>>
    BY <1>5 DEF Listen, Alive
  <2>2. CASE Ends(d, FALSE, TRUE)
    BY <2>1, <2>2, EndsKeepsInv
  <2>3. CASE ~Ends(d, FALSE, TRUE)
    <3>1. /\ proc' = [proc EXCEPT ![d] = "serving"] /\ pidFile' = pidFile /\ exits' = exits
      BY <1>5, <2>3 DEF Listen
    <3>2. pidFile' \in 0..Marker
      BY <3>1 DEF LaunchInv, LaunchTypes
    <3>3. QED
      BY <1>2, <2>1, <3>1, <3>2 DEF ProcStates
  <2>4. QED
    BY <2>2, <2>3
<1>6. CASE Crash(d)
  <2>1. Alive(d) /\ UNCHANGED <<own, server, attempt>>
    BY <1>6 DEF Crash
  <2>2. Ends(d, FALSE, FALSE) \/ Ends(d, TRUE, TRUE)
    BY <1>6 DEF Crash
  <2>3. QED
    BY <2>1, <2>2, EndsKeepsInv
<1>7. CASE Hang(d)
  <2>1. /\ Alive(d) /\ proc' = [proc EXCEPT ![d] = "hung"] /\ pidFile' = pidFile
        /\ UNCHANGED <<own, exits, server, attempt>>
    BY <1>7 DEF Hang, Alive
  <2>2. pidFile' \in 0..Marker
    BY <2>1 DEF LaunchInv, LaunchTypes
  <2>3. QED
    BY <1>2, <2>1, <2>2 DEF ProcStates
<1>8. QED
  BY <1>3, <1>4, <1>5, <1>6, <1>7

LEMMA LaunchNext == LaunchInv /\ [Next]_vars => LaunchInv'
<1> SUFFICES ASSUME LaunchInv, [Next]_vars PROVE LaunchInv'
  OBVIOUS
<1> USE DEF osVars, launcherVars, watchdogVars, agentVars, linkVars, bounds
<1>1. Boot \in Attempts /\ Nobody \in 0..Marker
  BY BoundsAssumption DEF Boot, Attempts, Nobody, Marker
<1>2. ASSUME NEW d \in Daemons,
             CheckExisting(d) \/ WritePidFile(d) \/ Listen(d) \/ Crash(d) \/ Hang(d)
      PROVE  LaunchInv'
  BY <1>2, DaemonSteps
<1>3. ASSUME server = "starting", attempt[Boot].step \in {"idle", "existing", "replacing"},
             Spawns(Boot), UNCHANGED <<exits, server>>
      PROVE  LaunchInv'
  <2>1. own = {} /\ exits' = {}
    BY <1>3 DEF LaunchInv, StartsWithout
  <2>2. LaunchTypes' /\ OneOrExit' /\ attempt'[Boot].step = "probing"
    BY <1>1, <1>3, <2>1, SpawnsKeepsOne
  <2>3. QED
    BY <2>2 DEF LaunchInv, StartsWithout
<1>4. CASE EnsureDaemon
  <2>1. server = "starting" /\ attempt[Boot].step = "idle" /\ UNCHANGED <<exits, server>>
    BY <1>4 DEF EnsureDaemon, Idle
  <2>2. CASE Spawns(Boot)
    BY <1>3, <2>1, <2>2
  <2>3. CASE ~Spawns(Boot)
    <3>1. /\ attempt' = [attempt EXCEPT ![Boot] = [step |-> "existing", spawned |-> pidFile]]
          /\ pidFile \in Daemons /\ UNCHANGED <<proc, pidFile, own>>
      BY <1>4, <2>3 DEF EnsureDaemon
    <3>2. [step |-> "existing", spawned |-> pidFile] \in [step : StepStates, spawned : 0..MaxDaemons]
      BY <3>1, BoundsAssumption DEF StepStates, Daemons
    <3>3. LaunchTypes'
      BY <1>1, <3>1, <3>2 DEF LaunchInv, LaunchTypes
    <3>4. OneOrExit'
      BY <2>1, <3>1, QuietKeepsOne DEF Alive
    <3>5. attempt'[Boot].step = "existing"
      BY <1>1, <3>1 DEF LaunchInv, LaunchTypes
    <3>6. StartsWithout'
      BY <2>1, <3>1, <3>5, StartKeeps
    <3>7. QED
      BY <3>3, <3>4, <3>6 DEF LaunchInv
  <2>4. QED
    BY <2>2, <2>3
<1>5. CASE Replace
  BY <1>3, <1>5 DEF Replace
<1>6. ASSUME NEW a \in Attempts, NEW new \in StepStates,
             \/ attempt' = [attempt EXCEPT ![a].step = new]
             \/ attempt' = [attempt EXCEPT ![a] = Idle] /\ new = "idle",
             a = Boot => \/ new \in {"waiting", "probing"}
                         \/ new = "idle" /\ server' # "starting"
                         \/ new = "replacing" /\ attempt[a].step = "existing" /\ server' = server,
             a # Boot => server' = server,
             own' = own,
             \/ UNCHANGED <<proc, exits>> /\ pidFile' \in 0..Marker
             \/ \E d : \E remove \in BOOLEAN : Alive(d) /\ Ends(d, FALSE, remove)
      PROVE  LaunchInv'
  <2>1. /\ attempt' \in [Attempts -> [step : StepStates, spawned : 0..MaxDaemons]]
        /\ attempt'[a].step = new
        /\ \A b \in Attempts \ {a} : attempt'[b] = attempt[b]
    BY <1>6, AttemptKeepsTypes
  <2>2. /\ proc' \in [Daemons -> ProcStates] /\ pidFile' \in 0..Marker
        /\ OneOrExit' /\ (own = {} => exits' = exits)
    <3>1. CASE UNCHANGED <<proc, exits>> /\ pidFile' \in 0..Marker
      <4>1. OneOrExit'
        BY <1>6, <3>1, QuietKeepsOne DEF Alive
      <4>2. QED
        BY <3>1, <4>1 DEF LaunchInv, LaunchTypes
    <3>2. CASE \E d : \E remove \in BOOLEAN : Alive(d) /\ Ends(d, FALSE, remove)
      <4>1. PICK d : \E remove \in BOOLEAN : Alive(d) /\ Ends(d, FALSE, remove)
        BY <3>2
      <4>2. PICK remove \in BOOLEAN : Ends(d, FALSE, remove)
        BY <4>1
      <4>3. OneOrExit'
        BY <1>6, <4>1, <4>2, EndsKeepsOne
      <4>4. proc' \in [Daemons -> ProcStates] /\ pidFile' \in 0..Marker
        BY <4>1, <4>2, EndsTypes
      <4>5. own = {} => exits' = exits
        BY <4>2 DEF Ends
      <4>6. QED
        BY <4>3, <4>4, <4>5
    <3>3. QED
      BY <1>6, <3>1, <3>2
  <2>3. LaunchTypes'
    BY <1>6, <2>1, <2>2 DEF LaunchInv, LaunchTypes
  <2>4. attempt'[Boot].step \notin {"listing", "restarting"}
    BY <1>1, <1>6, <2>1 DEF LaunchInv, StartsWithout
  <2>5. server' = "starting" /\ attempt'[Boot].step \in {"idle", "existing", "replacing"}
          => server = "starting" /\ attempt[Boot].step \in {"idle", "existing", "replacing"}
    BY <1>1, <1>6, <2>1
  <2>6. StartsWithout'
    BY <1>6, <2>2, <2>4, <2>5, StartKeeps
  <2>7. QED
    BY <2>2, <2>3, <2>6 DEF LaunchInv
<1>7. ASSUME NEW a \in Attempts, Verify(a) PROVE LaunchInv'
  <2>1. own' = own
    BY <1>7 DEF Verify
  <2>2. CASE Mismatch(a)
    <3>1. /\ attempt' = [attempt EXCEPT ![a] = Idle]
          /\ server' = IF a = Boot THEN "exited" ELSE server
          /\ \/ UNCHANGED <<proc, exits>> /\ pidFile' = Nobody
             \/ Alive(child) /\ Ends(child, FALSE, TRUE)
      BY <1>7, <2>2 DEF Verify, Abandoned
    <3>2. QED
      BY <1>1, <1>6, <2>1, <3>1 DEF StepStates
  <2>3. CASE ~Mismatch(a)
    <3>1. attempt' = [attempt EXCEPT ![a].step = "waiting"] /\ UNCHANGED <<proc, exits, pidFile, server>>
      BY <1>7, <2>3 DEF Verify
    <3>2. pidFile' \in 0..Marker
      BY <3>1 DEF LaunchInv, LaunchTypes
    <3>3. QED
      BY <1>6, <2>1, <3>1, <3>2 DEF StepStates
  <2>4. QED
    BY <2>2, <2>3
<1>8. ASSUME NEW a \in Attempts, Ready(a) PROVE LaunchInv'
  <2>1. /\ UNCHANGED <<proc, exits, pidFile, own>>
        /\ IF a = Boot
           THEN attempt' = [attempt EXCEPT ![a] = Idle] /\ server' = "up"
           ELSE attempt' = [attempt EXCEPT ![a].step = "listing"] /\ server' = server
    BY <1>8 DEF Ready
  <2>2. pidFile' \in 0..Marker
    BY <2>1 DEF LaunchInv, LaunchTypes
  <2>3. QED
    BY <1>6, <2>1, <2>2 DEF StepStates
<1>9. ASSUME NEW a \in Attempts, NotReady(a) PROVE LaunchInv'
  <2>1. own' = own
    BY <1>9 DEF NotReady
  <2>2. pidFile \in 0..Marker
    BY DEF LaunchInv, LaunchTypes
  <2>3. CASE attempt[a].step = "existing"
    <3>1. /\ attempt' = [attempt EXCEPT ![a].step = "replacing"] /\ server' = server
          /\ \/ UNCHANGED <<proc, exits, pidFile>>
             \/ Alive(attempt[a].spawned) /\ Ends(attempt[a].spawned, FALSE, FALSE)
      BY <1>9, <2>3 DEF NotReady
    <3>2. QED
      BY <1>6, <2>1, <2>2, <2>3, <3>1 DEF StepStates
  <2>4. CASE attempt[a].step # "existing"
    <3>1. /\ attempt' = [attempt EXCEPT ![a] = Idle]
          /\ server' = IF a = Boot THEN "exited" ELSE server
          /\ UNCHANGED <<proc, exits, pidFile>>
      BY <1>9, <2>4 DEF NotReady, Abandoned
    <3>2. QED
      BY <1>6, <2>1, <2>2, <3>1 DEF StepStates
  <2>5. QED
    BY <2>3, <2>4
<1>10. ASSUME NEW a \in Attempts, ListPtys(a) \/ RestartLost(a) PROVE LaunchInv'
  <2>1. /\ UNCHANGED <<proc, exits, pidFile, own, server>>
        /\ attempt[a].step \in {"listing", "restarting"}
        /\ \/ attempt' = [attempt EXCEPT ![a].step = "restarting"]
           \/ attempt' = [attempt EXCEPT ![a] = Idle]
    BY <1>10 DEF ListPtys, RestartLost
  <2>2. a # Boot /\ pidFile' \in 0..Marker
    BY <2>1 DEF LaunchInv, LaunchTypes, StartsWithout
  <2>3. QED
    BY <1>6, <2>1, <2>2 DEF StepStates
<1>11. ASSUME NEW e \in exits, NEW a \in Attempts, HandleExit(e, a) PROVE LaunchInv'
  <2>1. exits' = {} /\ (\A d \in own : ~Alive(d)) /\ server' = server
    BY <1>11 DEF HandleExit, LaunchInv, OneOrExit
  <2>2. CASE a # Boot /\ Spawns(a)
    <3>1. /\ LaunchTypes' /\ OneOrExit' /\ attempt'[a].step = "probing"
          /\ \A b \in Attempts \ {a} : attempt'[b] = attempt[b]
      BY <2>1, <2>2, SpawnsKeepsOne
    <3>2. attempt'[Boot] = attempt[Boot]
      BY <1>1, <2>2, <3>1
    <3>3. StartsWithout'
      BY <1>11, <2>1, <3>2 DEF LaunchInv, StartsWithout
    <3>4. QED
      BY <3>1, <3>3 DEF LaunchInv
  <2>3. CASE pidFile' = Nobody /\ UNCHANGED <<proc, own, attempt>>
    <3>1. LaunchTypes'
      BY <1>1, <2>3 DEF LaunchInv, LaunchTypes
    <3>2. OneOrExit'
      BY <2>1, <2>3 DEF LaunchInv, OneOrExit, OneChild, Alive
    <3>3. StartsWithout'
      BY <1>11, <2>1, <2>3 DEF LaunchInv, StartsWithout
    <3>4. QED
      BY <3>1, <3>2, <3>3 DEF LaunchInv
  <2>4. QED
    BY <1>11, <2>2, <2>3 DEF HandleExit
<1>12. ASSUME UNCHANGED <<proc, exits, pidFile, own, server, attempt>> PROVE LaunchInv'
  BY <1>12 DEF LaunchInv, LaunchTypes, OneOrExit, OneChild, StartsWithout, Alive
<1>13. ASSUME ResetEscalation \/ TimerFires \/ HealthFails \/ StartAgent \/ StopAgent \/ Tick
              \/ UNCHANGED vars
       PROVE  LaunchInv'
  BY <1>12, <1>13 DEF ResetEscalation, TimerFires, HealthFails, StartAgent, StopAgent, Tick, vars
<1>14. CASE ServerRestart
  <2>1. /\ own' = {} /\ exits' = {} /\ UNCHANGED <<proc, pidFile>>
        /\ attempt' = [a \in Attempts |-> Idle]
    BY <1>14 DEF ServerRestart
  <2>2. Idle \in [step : StepStates, spawned : 0..MaxDaemons] /\ Idle.step = "idle"
    BY BoundsAssumption DEF Idle, Nobody, StepStates
  <2>3. QED
    BY <1>1, <2>1, <2>2 DEF LaunchInv, LaunchTypes, OneOrExit, OneChild, StartsWithout
<1>15. QED
  BY <1>2, <1>4, <1>5, <1>7, <1>8, <1>9, <1>10, <1>11, <1>13, <1>14 DEF Next

\* Two daemons that a server has spawned never live at once, however its attempts, the
\* exits of daemons and their kills overlap.
THEOREM OneChildLives == Spec => []OneChild
<1>1. LaunchInv => OneChild
  BY DEF LaunchInv, OneOrExit
<1>2. QED
  BY <1>1, LaunchInit, LaunchNext, PTL DEF Spec


----------------------------------------------------------------------------
(* The PID file *)

\* Where a daemon of the server's own lives, _currentDaemonChild is it; a probe and an
\* exit event come after a spawn; only a server that starts waits for a daemon it found.
ChildOK ==
  /\ child \in 0..MaxDaemons
  /\ \A a \in Attempts : attempt[a].step = "existing" => attempt[a].spawned \in Daemons
  /\ \A d \in own : Alive(d) => child = d
  /\ (\E a \in Attempts : attempt[a].step = "probing") \/ exits # {} => own # {}
  /\ attempt[Boot].step \in {"existing", "replacing"} => server = "starting"

\* As long as no server has left a booting daemon behind, one daemon lives at most, and
\* from its write of the PID file to its end the file names it.  A server that has spawned
\* a daemon has no other; one that has not may have found one past its boot, and kills it
\* before it spawns its own.
Alone ==
  /\ \A d, e \in Daemons : Alive(d) /\ Alive(e) => d = e
  /\ \A d \in Daemons : proc[d] \in {"binding", "serving", "hung"} => pidFile = d
  /\ own # {} => \A d \in Daemons : Alive(d) => d \in own
  /\ own = {} => \A d \in Daemons : ~Booting(d)
  /\ attempt[Boot].step = "existing" => \A d \in Daemons : Alive(d) => d = attempt[Boot].spawned
  /\ attempt[Boot].step = "replacing" => \A d \in Daemons : ~Alive(d)

FileInv == ChildOK /\ (orphaned \/ Alone)

LEMMA FileInit == Init => FileInv
<1> SUFFICES ASSUME Init PROVE FileInv
  OBVIOUS
<1>1. /\ proc = [d \in Daemons |-> "none"] /\ own = {} /\ exits = {} /\ child = Nobody
      /\ \A a \in Attempts : attempt[a].step = "idle"
  BY DEF Init, Idle
<1>2. Boot \in Attempts /\ Nobody \in 0..MaxDaemons
  BY BoundsAssumption DEF Boot, Attempts, Nobody
<1>3. ChildOK
  BY <1>1, <1>2 DEF ChildOK
<1>4. Alone
  BY <1>1, <1>2 DEF Alone, Alive, Booting
<1>5. QED
  BY <1>3, <1>4 DEF FileInv

LEMMA NoneAlive ==
  ASSUME \A d \in Daemons : ~Alive(d)'
  PROVE  Alone'
BY DEF Alone, Alive, Booting

\* The daemon that ends was the only one.
LEMMA EndsAlone ==
  ASSUME LaunchTypes, Alone, NEW d \in Daemons, NEW clean \in BOOLEAN, NEW remove \in BOOLEAN,
         Alive(d), Ends(d, clean, remove)
  PROVE  \A x \in Daemons : ~Alive(x)'
<1>1. \A x \in Daemons : x # d => ~Alive(x)
  BY DEF Alone
<1>2. \A x \in Daemons : Alive(x)' => Alive(x) /\ x # d
  BY DEF LaunchTypes, Ends, Alive
<1>3. QED
  BY <1>1, <1>2

\* A daemon ends: the child, if it was not killed, and the exit events.
LEMMA EndsChild ==
  ASSUME LaunchTypes, ChildOK, NEW d \in Daemons, NEW clean \in BOOLEAN, NEW remove \in BOOLEAN,
         Alive(d), Ends(d, clean, remove), own' = own, child' = child \/ d = child
  PROVE  /\ \A x \in own' : Alive(x)' => child' = x
         /\ exits' # {} => own' # {}
<1>1. \A x \in Daemons : Alive(x)' => Alive(x) /\ x # d
  BY DEF LaunchTypes, Ends, Alive
<1>2. \A x \in own' : Alive(x)' => child' = x
  BY <1>1 DEF LaunchTypes, ChildOK
<1>3. exits' # {} => own' # {}
  BY DEF Ends, ChildOK
<1>4. QED
  BY <1>2, <1>3

\* The only daemon goes on.
LEMMA MovesAlone ==
  ASSUME LaunchTypes, Alone, NEW d \in Daemons, NEW new \in ProcStates, Alive(d),
         proc' = [proc EXCEPT ![d] = new],
         new \in {"binding", "serving", "hung"} => pidFile' = d,
         own = {} => new \notin {"booting", "claiming", "binding"},
         UNCHANGED <<own, attempt>>
  PROVE  Alone'
<1>1. \A x \in Daemons : x # d => ~Alive(x)
  BY DEF Alone
<1>2. \A x \in Daemons : x # d => proc'[x] = proc[x]
  BY DEF LaunchTypes
<1>3. proc'[d] = new
  BY DEF LaunchTypes
<1>4. \A x \in Daemons : Alive(x)' => x = d
  BY <1>1, <1>2 DEF Alive
<1>5. \A x \in Daemons : proc'[x] \in {"binding", "serving", "hung"} => pidFile' = x
  BY <1>3, <1>4 DEF Alive
<1>6. own' = {} => \A x \in Daemons : ~Booting(x)'
  BY <1>3, <1>4 DEF Alive, Booting
<1>7. QED
  BY <1>4, <1>5, <1>6 DEF Alone

\* A daemon is spawned where none lives.
LEMMA SpawnsAlone ==
  ASSUME LaunchInv, ChildOK, NEW a \in Attempts, Spawns(a), \A d \in Daemons : ~Alive(d),
         a # Boot => attempt[Boot].step \notin {"existing", "replacing"}
  PROVE  ChildOK' /\ Alone'
<1> DEFINE d == Newborn
<1>1. d \in Daemons
  BY DEF Spawns, Newborn, Unborn
<1>2. /\ proc' = [proc EXCEPT ![d] = "booting"] /\ own' = own \cup {d} /\ child' = d
      /\ attempt' = [attempt EXCEPT ![a] = [step |-> "probing", spawned |-> d]]
  BY DEF Spawns
<1> HIDE DEF d
<1>3. \A x \in Daemons : Alive(x)' => x = d
  BY <1>2 DEF LaunchInv, LaunchTypes, Alive
<1>4. proc'[d] = "booting"
  BY <1>1, <1>2 DEF LaunchInv, LaunchTypes
<1>5. own' # {} /\ d \in own' /\ own' \subseteq Daemons
  BY <1>1, <1>2 DEF LaunchInv, LaunchTypes
<1>6. Boot \in Attempts
  BY BoundsAssumption DEF Boot, Attempts
<1>7. attempt'[Boot].step \notin {"existing", "replacing"}
  BY <1>2, <1>6 DEF LaunchInv, LaunchTypes
<1>8. \A b \in Attempts : attempt'[b].step = "existing" => attempt'[b] = attempt[b]
  BY <1>2 DEF LaunchInv, LaunchTypes
<1>9. child' \in 0..MaxDaemons
  BY <1>1, <1>2, BoundsAssumption DEF Daemons
<1>10. ChildOK'
  BY <1>2, <1>3, <1>5, <1>7, <1>8, <1>9 DEF ChildOK
<1>11. Alone'
  <2>1. \A x \in Daemons : proc'[x] \in {"binding", "serving", "hung"} => FALSE
    BY <1>3, <1>4 DEF Alive
  <2>2. QED
    BY <1>3, <1>5, <1>7, <2>1 DEF Alone
<1>12. QED
  BY <1>10, <1>11

LEMMA FileDaemonSteps ==
  ASSUME LaunchInv, FileInv, NEW d \in Daemons,
         CheckExisting(d) \/ WritePidFile(d) \/ Listen(d) \/ Crash(d) \/ Hang(d)
  PROVE  FileInv'
<1> USE DEF launcherVars
<1>1. LaunchTypes /\ ChildOK
  BY DEF LaunchInv, FileInv
<1>2. Alive(d) /\ UNCHANGED <<own, child, server, attempt, orphaned>>
  BY DEF CheckExisting, WritePidFile, Listen, Crash, Hang, Alive, bounds
<1>3. ASSUME NEW clean \in BOOLEAN, NEW remove \in BOOLEAN, Ends(d, clean, remove)
      PROVE  FileInv'
  <2>1. Alone => Alone'
    BY <1>1, <1>2, <1>3, EndsAlone, NoneAlive
  <2>2. (\A x \in own' : Alive(x)' => child' = x) /\ (exits' # {} => own' # {})
    BY <1>1, <1>2, <1>3, EndsChild
  <2>3. ChildOK'
    BY <1>1, <1>2, <2>2 DEF ChildOK
  <2>4. QED
    BY <1>2, <2>1, <2>3 DEF FileInv
<1>4. ASSUME NEW new \in ProcStates, proc' = [proc EXCEPT ![d] = new], exits' = exits,
             Alone => \/ new = "claiming" /\ own # {}
                      \/ new = "binding" /\ own # {} /\ pidFile' = d
                      \/ new \in {"serving", "hung"} /\ pidFile' = d
      PROVE  FileInv'
  <2>1. Alone => Alone'
    BY <1>1, <1>2, <1>4, MovesAlone
  <2>2. \A x \in own : Alive(x)' => Alive(x)
    BY <1>1, <1>2, <1>4 DEF LaunchTypes, Alive
  <2>3. ChildOK'
    BY <1>1, <1>2, <1>4, <2>2 DEF ChildOK
  <2>4. QED
    BY <1>2, <2>1, <2>3 DEF FileInv
<1>5. CASE CheckExisting(d)
  <2>1. CASE Ends(d, FALSE, FALSE)
    BY <1>3, <2>1
  <2>2. CASE ~Ends(d, FALSE, FALSE)
    <3>1. proc' = [proc EXCEPT ![d] = "claiming"] /\ exits' = exits /\ Booting(d)
      BY <1>5, <2>2 DEF CheckExisting, Booting
    <3>2. Alone => own # {}
      BY <3>1 DEF Alone
    <3>3. QED
      BY <1>4, <3>1, <3>2 DEF ProcStates
  <2>3. QED
    BY <2>1, <2>2
<1>6. CASE WritePidFile(d)
  <2>1. proc' = [proc EXCEPT ![d] = "binding"] /\ pidFile' = d /\ exits' = exits /\ Booting(d)
    BY <1>6 DEF WritePidFile, Booting
  <2>2. Alone => own # {}
    BY <2>1 DEF Alone
  <2>3. QED
    BY <1>4, <2>1, <2>2 DEF ProcStates
<1>7. CASE Listen(d)
  <2>1. CASE Ends(d, FALSE, TRUE)
    BY <1>3, <2>1
  <2>2. CASE ~Ends(d, FALSE, TRUE)
    <3>1. proc' = [proc EXCEPT ![d] = "serving"] /\ pidFile' = pidFile /\ exits' = exits
      BY <1>7, <2>2 DEF Listen
    <3>2. Alone => pidFile' = d
      BY <1>7, <3>1 DEF Alone, Listen
    <3>3. QED
      BY <1>4, <3>1, <3>2 DEF ProcStates
  <2>3. QED
    BY <2>1, <2>2
<1>8. CASE Crash(d)
  <2>1. Ends(d, FALSE, FALSE) \/ Ends(d, TRUE, TRUE)
    BY <1>8 DEF Crash
  <2>2. QED
    BY <1>3, <2>1
<1>9. CASE Hang(d)
  <2>1. proc' = [proc EXCEPT ![d] = "hung"] /\ pidFile' = pidFile /\ exits' = exits
    BY <1>9 DEF Hang
  <2>2. Alone => pidFile' = d
    BY <1>9, <2>1 DEF Alone, Hang
  <2>3. QED
    BY <1>4, <2>1, <2>2 DEF ProcStates
<1>10. QED
  BY <1>5, <1>6, <1>7, <1>8, <1>9

LEMMA FileNext == LaunchInv /\ FileInv /\ [Next]_vars => FileInv'
<1> SUFFICES ASSUME LaunchInv, FileInv, [Next]_vars PROVE FileInv'
  OBVIOUS
<1> USE DEF osVars, launcherVars, watchdogVars, agentVars, linkVars, bounds
<1>1. LaunchTypes /\ ChildOK /\ Boot \in Attempts
  BY BoundsAssumption DEF LaunchInv, FileInv, Boot, Attempts
<1>2. ASSUME NEW d \in Daemons,
             CheckExisting(d) \/ WritePidFile(d) \/ Listen(d) \/ Crash(d) \/ Hang(d)
      PROVE  FileInv'
  BY <1>2, FileDaemonSteps
<1>3. ASSUME Alone, own = {} PROVE \A d \in Daemons : Alive(d) => pidFile = d
  BY <1>1, <1>3 DEF Alone, Alive, Booting, LaunchTypes, ProcStates
<1>4. ASSUME NEW a \in Attempts, Spawns(a), UNCHANGED orphaned,
             Alone => \A d \in Daemons : ~Alive(d),
             \A d \in own : ~Alive(d), UNCHANGED exits \/ exits' = {},
             a # Boot => attempt[Boot].step \notin {"existing", "replacing"}
      PROVE  FileInv'
  <2>1. CASE Alone
    BY <1>1, <1>4, <2>1, SpawnsAlone DEF FileInv
  <2>2. CASE orphaned
    <3>1. Newborn \in Daemons
      BY <1>4 DEF Spawns, Newborn, Unborn
    <3>2. /\ \A x \in own' : Alive(x)' => child' = x
          /\ own' # {}
      BY <1>1, <1>4, <3>1 DEF Spawns, LaunchTypes, Alive
    <3>3. attempt'[Boot].step \notin {"existing", "replacing"}
      BY <1>1, <1>4 DEF Spawns, LaunchTypes
    <3>4. \A b \in Attempts : attempt'[b].step = "existing" => attempt'[b] = attempt[b]
      BY <1>1, <1>4 DEF Spawns, LaunchTypes
    <3>5. child' \in 0..MaxDaemons
      BY <1>4, <3>1, BoundsAssumption DEF Spawns, Daemons
    <3>6. ChildOK'
      BY <1>1, <1>4, <3>2, <3>3, <3>4, <3>5 DEF ChildOK
    <3>7. QED
      BY <1>4, <2>2, <3>6 DEF FileInv
  <2>3. QED
    BY <2>1, <2>2 DEF FileInv
<1>5. CASE EnsureDaemon
  <2>1. own = {} /\ attempt[Boot].step = "idle" /\ server = "starting"
    BY <1>5 DEF EnsureDaemon, Idle, LaunchInv, StartsWithout
  <2>2. CASE pidFile \in Daemons /\ Alive(pidFile)
    <3>1. /\ attempt' = [attempt EXCEPT ![Boot] = [step |-> "existing", spawned |-> pidFile]]
          /\ UNCHANGED <<proc, pidFile, child, own, exits, server, orphaned>>
      BY <1>5, <2>2 DEF EnsureDaemon
    <3>2. attempt'[Boot] = [step |-> "existing", spawned |-> pidFile]
      BY <1>1, <3>1 DEF LaunchTypes
    <3>3. /\ \A a \in Attempts : attempt'[a].step # "probing"
          /\ \A a \in Attempts : attempt'[a].step = "existing" => attempt'[a].spawned \in Daemons
      BY <1>1, <2>1, <2>2, <3>1 DEF LaunchTypes, ChildOK
    <3>4. ChildOK'
      BY <1>1, <2>1, <3>1, <3>3 DEF ChildOK, Alive
    <3>5. Alone => Alone'
      BY <1>3, <2>1, <3>1, <3>2 DEF Alone, Alive, Booting
    <3>6. QED
      BY <3>1, <3>4, <3>5 DEF FileInv
  <2>3. CASE ~(pidFile \in Daemons /\ Alive(pidFile))
    <3>1. Spawns(Boot) /\ UNCHANGED <<exits, orphaned>>
      BY <1>5, <2>3 DEF EnsureDaemon
    <3>2. Alone => \A d \in Daemons : ~Alive(d)
      BY <1>3, <2>1, <2>3
    <3>3. QED
      BY <1>1, <1>4, <2>1, <3>1, <3>2
  <2>4. QED
    BY <2>2, <2>3
<1>6. CASE Replace
  <2>1. own = {} /\ attempt[Boot].step = "replacing" /\ Spawns(Boot) /\ UNCHANGED <<exits, orphaned>>
    BY <1>6 DEF Replace, LaunchInv, StartsWithout
  <2>2. Alone => \A d \in Daemons : ~Alive(d)
    BY <2>1 DEF Alone
  <2>3. QED
    BY <1>1, <1>4, <2>1, <2>2
<1>7. ASSUME NEW a \in Attempts, NEW new \in StepStates \ {"existing", "replacing", "probing"},
             \/ attempt' = [attempt EXCEPT ![a].step = new]
             \/ attempt' = [attempt EXCEPT ![a] = Idle] /\ new = "idle",
             a # Boot => server' = server
      PROVE  /\ \A b \in Attempts : attempt'[b].step \in {"existing", "probing"} => attempt'[b] = attempt[b]
             /\ \/ attempt'[Boot] = attempt[Boot] /\ server' = server
                \/ attempt'[Boot].step \notin {"existing", "replacing"}
  <2>1. /\ attempt'[a].step = new
        /\ \A b \in Attempts \ {a} : attempt'[b] = attempt[b]
    BY <1>7, AttemptKeepsTypes
  <2>2. QED
    BY <1>1, <1>7, <2>1
<1>8. ASSUME \A b \in Attempts : attempt'[b].step \in {"existing", "probing"} => attempt'[b] = attempt[b],
             \/ attempt'[Boot] = attempt[Boot] /\ server' = server
             \/ attempt'[Boot].step \notin {"existing", "replacing"},
             UNCHANGED <<proc, exits, child, own, orphaned>>,
             Alone => pidFile' = pidFile
      PROVE  FileInv'
  <2>1. ChildOK'
    BY <1>1, <1>8 DEF ChildOK, Alive
  <2>2. Alone => Alone'
    BY <1>8 DEF Alone, Alive, Booting
  <2>3. QED
    BY <1>8, <2>1, <2>2 DEF FileInv
<1>9. ASSUME NEW a \in Attempts, Verify(a) PROVE FileInv'
  <2>1. attempt[a].step = "probing" /\ own' = own /\ own # {} /\ orphaned' = orphaned
    BY <1>1, <1>9 DEF Verify, ChildOK
  <2>2. CASE Mismatch(a)
    <3>1. /\ attempt' = [attempt EXCEPT ![a] = Idle] /\ child' = Nobody
          /\ server' = IF a = Boot THEN "exited" ELSE server
      BY <1>9, <2>2 DEF Verify, Abandoned
    <3>2. /\ \A b \in Attempts : attempt'[b].step \in {"existing", "probing"} => attempt'[b] = attempt[b]
          /\ \/ attempt'[Boot] = attempt[Boot] /\ server' = server
             \/ attempt'[Boot].step \notin {"existing", "replacing"}
      BY <1>7, <3>1 DEF StepStates
    <3>3. CASE child # Nobody /\ Alive(child)
      <4>1. Ends(child, FALSE, TRUE) /\ child \in Daemons
        <5>1. child \in Daemons
          BY <1>1, <3>3, BoundsAssumption DEF ChildOK, Daemons, Nobody
        <5>2. Ends(child, FALSE, TRUE)
          BY <1>9, <2>2, <3>3 DEF Verify
        <5>3. QED
          BY <5>1, <5>2
      <4>2. \A x \in own : ~Alive(x)'
        BY <1>1, <4>1 DEF LaunchTypes, ChildOK, Ends, Alive
      <4>3. ChildOK'
        BY <1>1, <2>1, <3>1, <3>2, <4>2, BoundsAssumption DEF ChildOK, Nobody
      <4>4. Alone => Alone'
        BY <1>1, <3>3, <4>1, EndsAlone, NoneAlive
      <4>5. QED
        BY <2>1, <4>3, <4>4 DEF FileInv
    <3>4. CASE ~(child # Nobody /\ Alive(child))
      <4>1. UNCHANGED <<proc, exits>>
        BY <1>9, <2>2, <3>4 DEF Verify
      <4>2. \A d \in own : ~Alive(d)
        BY <1>1, <3>4 DEF ChildOK, LaunchTypes, Daemons, Nobody
      <4>3. ~Alone
        BY <1>1, <2>1, <2>2, <4>2 DEF Mismatch, Serving, Alone, Alive
      <4>4. ChildOK'
        BY <1>1, <2>1, <3>1, <3>2, <4>1, <4>2, BoundsAssumption DEF ChildOK, Alive, Nobody
      <4>5. QED
        BY <2>1, <4>3, <4>4 DEF FileInv
    <3>5. QED
      BY <3>3, <3>4
  <2>3. CASE ~Mismatch(a)
    <3>1. /\ attempt' = [attempt EXCEPT ![a].step = "waiting"]
          /\ UNCHANGED <<proc, pidFile, exits, child, server>>
      BY <1>9, <2>3 DEF Verify
    <3>2. QED
      BY <1>7, <1>8, <2>1, <3>1 DEF StepStates
  <2>4. QED
    BY <2>2, <2>3
<1>10. ASSUME NEW a \in Attempts, Ready(a) PROVE FileInv'
  <2>1. /\ UNCHANGED <<proc, exits, pidFile, own, child, orphaned>>
        /\ IF a = Boot
           THEN attempt' = [attempt EXCEPT ![a] = Idle] /\ server' = "up"
           ELSE attempt' = [attempt EXCEPT ![a].step = "listing"] /\ server' = server
    BY <1>10 DEF Ready
  <2>2. QED
    BY <1>7, <1>8, <2>1 DEF StepStates
<1>11. ASSUME NEW a \in Attempts, NotReady(a) PROVE FileInv'
  <2>1. UNCHANGED <<own, child, orphaned>>
    BY <1>11 DEF NotReady
  <2>2. CASE attempt[a].step # "existing"
    <3>1. /\ attempt' = [attempt EXCEPT ![a] = Idle] /\ UNCHANGED <<proc, exits, pidFile>>
          /\ server' = IF a = Boot THEN "exited" ELSE server
      BY <1>11, <2>2 DEF NotReady, Abandoned
    <3>2. QED
      BY <1>7, <1>8, <2>1, <3>1 DEF StepStates
  <2>3. CASE attempt[a].step = "existing"
    <3>1. attempt' = [attempt EXCEPT ![a].step = "replacing"] /\ server' = server
      BY <1>11, <2>3 DEF NotReady
    <3>2. /\ attempt'[a].step = "replacing"
          /\ \A b \in Attempts \ {a} : attempt'[b] = attempt[b]
      BY <3>1, AttemptKeepsTypes DEF StepStates
    <3>3. /\ \A b \in Attempts : attempt'[b].step \in {"existing", "probing"} => attempt'[b] = attempt[b]
          /\ attempt'[Boot].step \in {"existing", "replacing"}
               => attempt[Boot].step \in {"existing", "replacing"}
      BY <1>1, <2>3, <3>2
    <3>4. CASE Alive(attempt[a].spawned)
      <4>1. Ends(attempt[a].spawned, FALSE, FALSE)
        BY <1>11, <2>3, <3>4 DEF NotReady
      <4>2. attempt[a].spawned \in Daemons
        BY <1>1, <2>3 DEF ChildOK
      <4>3. Alone => Alone'
        BY <1>1, <3>4, <4>1, <4>2, EndsAlone, NoneAlive
      <4>4. (\A x \in own' : Alive(x)' => child' = x) /\ (exits' # {} => own' # {})
        BY <1>1, <2>1, <3>4, <4>1, <4>2, EndsChild
      <4>5. ChildOK'
        BY <1>1, <2>1, <3>1, <3>3, <4>4 DEF ChildOK
      <4>6. QED
        BY <2>1, <4>3, <4>5 DEF FileInv
    <3>5. CASE ~Alive(attempt[a].spawned)
      <4>1. UNCHANGED <<proc, exits, pidFile>>
        BY <1>11, <2>3, <3>5 DEF NotReady
      <4>2. ChildOK'
        BY <1>1, <2>1, <3>1, <3>3, <4>1 DEF ChildOK, Alive
      <4>3. Alone /\ a = Boot => \A d \in Daemons : ~Alive(d)'
        BY <2>3, <3>5, <4>1 DEF Alone, Alive
      <4>4. Alone /\ a # Boot => Alone'
        BY <1>1, <2>1, <3>2, <4>1 DEF Alone, Alive, Booting
      <4>5. QED
        BY <2>1, <4>2, <4>3, <4>4, NoneAlive DEF FileInv
    <3>6. QED
      BY <3>4, <3>5
  <2>4. QED
    BY <2>2, <2>3
<1>12. ASSUME NEW a \in Attempts, ListPtys(a) \/ RestartLost(a) PROVE FileInv'
  <2>1. /\ UNCHANGED <<proc, exits, pidFile, own, child, server, orphaned>>
        /\ \/ attempt' = [attempt EXCEPT ![a].step = "restarting"]
           \/ attempt' = [attempt EXCEPT ![a] = Idle]
    BY <1>12 DEF ListPtys, RestartLost
  <2>2. QED
    BY <1>7, <1>8, <2>1 DEF StepStates
<1>13. ASSUME NEW e \in exits, NEW a \in Attempts, HandleExit(e, a) PROVE FileInv'
  <2>1. /\ exits' = {} /\ own # {} /\ (\A d \in own : ~Alive(d))
        /\ UNCHANGED <<server, orphaned>>
    BY <1>1, <1>13 DEF HandleExit, LaunchInv, OneOrExit, ChildOK
  <2>2. Alone => \A d \in Daemons : ~Alive(d)
    BY <2>1 DEF Alone
  <2>3. CASE a # Boot /\ Spawns(a)
    <3>1. attempt[Boot].step \notin {"existing", "replacing"}
      BY <1>1, <2>1 DEF ChildOK, LaunchInv, StartsWithout
    <3>2. QED
      BY <1>4, <2>1, <2>2, <2>3, <3>1
  <2>4. CASE pidFile' = Nobody /\ child' = Nobody /\ UNCHANGED <<proc, own, attempt>>
    <3>1. ChildOK'
      BY <1>1, <2>1, <2>4, BoundsAssumption DEF ChildOK, Alive, Nobody
    <3>2. Alone => Alone'
      BY <2>2, <2>4, NoneAlive DEF Alive
    <3>3. QED
      BY <2>1, <3>1, <3>2 DEF FileInv
  <2>5. QED
    BY <1>13, <2>3, <2>4 DEF HandleExit
<1>14. ASSUME ResetEscalation \/ TimerFires \/ HealthFails \/ StartAgent \/ StopAgent \/ Tick
              \/ UNCHANGED vars
       PROVE  FileInv'
  <2>1. UNCHANGED <<proc, exits, pidFile, own, child, server, attempt, orphaned>>
    BY <1>14 DEF ResetEscalation, TimerFires, HealthFails, StartAgent, StopAgent, Tick, vars
  <2>2. QED
    BY <1>8, <2>1
<1>15. CASE ServerRestart
  <2>1. /\ own' = {} /\ exits' = {} /\ UNCHANGED <<proc, pidFile>>
        /\ attempt' = [a \in Attempts |-> Idle]
        /\ orphaned' = (orphaned \/ \E d \in Daemons : Booting(d))
    BY <1>15 DEF ServerRestart
  <2>2. \A a \in Attempts : attempt'[a].step = "idle"
    BY <2>1 DEF Idle
  <2>3. ChildOK'
    BY <1>1, <1>15, <2>1, <2>2, BoundsAssumption DEF ChildOK, ServerRestart, Nobody
  <2>4. CASE orphaned'
    BY <2>3, <2>4 DEF FileInv
  <2>5. CASE ~orphaned'
    <3>1. Alone /\ \A d \in Daemons : ~Booting(d)
      BY <2>1, <2>5 DEF FileInv
    <3>2. Alone'
      BY <1>1, <2>1, <2>2, <3>1 DEF Alone, Alive, Booting
    <3>3. QED
      BY <2>3, <3>2 DEF FileInv
  <2>6. QED
    BY <2>4, <2>5
<1>16. QED
  BY <1>2, <1>5, <1>6, <1>9, <1>10, <1>11, <1>12, <1>13, <1>14, <1>15 DEF Next

\* Whatever exit handlers, attempts and restarts remove the PID file and however they
\* overlap, it names the daemon that a server at rest is connected to, unless a server
\* ended before the daemon it had spawned was listening.
THEOREM PidFileStays == Spec => []PidFileNamesDaemon
<1>1. FileInv => PidFileNamesDaemon
  BY DEF FileInv, Alone, PidFileNamesDaemon, Serving
<1>2. QED
  BY <1>1, LaunchInit, LaunchNext, FileInit, FileNext, PTL DEF Spec

----------------------------------------------------------------------------
(* Types *)

\* What the invariants above do not speak of.
RestOK ==
  /\ exits \subseteq [daemon : Daemons, clean : BOOLEAN]
  /\ server \in {"starting", "up", "exited"} /\ own \subseteq Daemons
  /\ escalated \in BOOLEAN
  /\ link \in 0..MaxDaemons /\ timer \in BOOLEAN
  /\ tracked \in BOOLEAN /\ terminal \in 0..MaxDaemons
  /\ crashes \in Nat /\ restarts \in Nat /\ orphaned \in BOOLEAN

LEMMA RestInit == Init => RestOK
<1> SUFFICES ASSUME Init PROVE RestOK
  OBVIOUS
<1>1. /\ exits = {} /\ own = {} /\ escalated = FALSE /\ timer = FALSE /\ tracked = FALSE
      /\ orphaned = FALSE /\ server = "starting" /\ link = Nobody /\ terminal = Nobody
  BY DEF Init
<1>2. Nobody \in 0..MaxDaemons /\ crashes \in Nat /\ restarts \in Nat
  BY BoundsAssumption DEF Init, Nobody
<1>3. QED
  BY <1>1, <1>2 DEF RestOK

LEMMA EndsRest ==
  ASSUME RestOK, NEW d, NEW clean \in BOOLEAN, NEW remove \in BOOLEAN, Ends(d, clean, remove)
  PROVE  /\ exits' \subseteq [daemon : Daemons, clean : BOOLEAN]
         /\ link' \in 0..MaxDaemons /\ timer' \in BOOLEAN /\ terminal' \in 0..MaxDaemons
<1>1. exits' \subseteq [daemon : Daemons, clean : BOOLEAN]
  BY DEF RestOK, Ends
<1>2. link' \in 0..MaxDaemons /\ terminal' \in 0..MaxDaemons
  BY BoundsAssumption DEF RestOK, Ends, Nobody
<1>3. timer' \in BOOLEAN
  BY DEF Ends
<1>4. QED
  BY <1>1, <1>2, <1>3

LEMMA StartsRest ==
  ASSUME RestOK, Starts
  PROVE  tracked' \in BOOLEAN /\ terminal' \in 0..MaxDaemons
<1>1. Serving \subseteq 0..MaxDaemons
  BY BoundsAssumption DEF Serving, Daemons
<1>2. QED
  BY <1>1 DEF RestOK, Starts, agentVars

LEMMA SpawnsRest ==
  ASSUME RestOK, NEW a, Spawns(a)
  PROVE  own' \subseteq Daemons
BY DEF RestOK, Spawns, Newborn, Unborn

LEMMA RecordRest == ASSUME RestOK, RecordRespawn PROVE escalated' \in BOOLEAN
<1>1. \A k : Full(k) \in BOOLEAN
  BY DEF Full
<1>2. escalated' = escalated \/ \E k : escalated' = Full(k)
  BY DEF RecordRespawn
<1>3. QED
  BY <1>1, <1>2 DEF RestOK

LEMMA RestNext == RestOK /\ [Next]_vars => RestOK'
<1> SUFFICES ASSUME RestOK, [Next]_vars PROVE RestOK'
  OBVIOUS
<1> USE DEF osVars, launcherVars, watchdogVars, agentVars, linkVars, bounds
<1>1. Serving \subseteq 0..MaxDaemons /\ Nobody \in 0..MaxDaemons
  BY BoundsAssumption DEF Serving, Daemons, Nobody
<1>2. ASSUME NEW d \in Daemons,
             CheckExisting(d) \/ WritePidFile(d) \/ Listen(d) \/ Crash(d) \/ Hang(d)
      PROVE  RestOK'
  <2>1. /\ crashes' = crashes \/ crashes' = crashes + 1
        /\ UNCHANGED <<server, own, escalated, tracked, restarts, orphaned>>
    BY <1>2 DEF CheckExisting, WritePidFile, Listen, Crash, Hang
  <2>2. \/ UNCHANGED <<exits, terminal, link, timer>>
        \/ \E clean, remove \in BOOLEAN : Ends(d, clean, remove)
    BY <1>2 DEF CheckExisting, WritePidFile, Listen, Crash, Hang
  <2>3. /\ exits' \subseteq [daemon : Daemons, clean : BOOLEAN]
        /\ link' \in 0..MaxDaemons /\ timer' \in BOOLEAN /\ terminal' \in 0..MaxDaemons
    BY <2>2, EndsRest DEF RestOK
  <2>4. crashes' \in Nat
    BY <2>1 DEF RestOK
  <2>5. QED
    BY <2>1, <2>3, <2>4 DEF RestOK
<1>3. ASSUME UNCHANGED <<server, exits, escalated, agentVars, linkVars, crashes, restarts, orphaned>>,
             own' \subseteq Daemons
      PROVE  RestOK'
  BY <1>3 DEF RestOK
<1>4. CASE EnsureDaemon \/ Replace
  <2>1. own' = own \/ Spawns(Boot)
    BY <1>4 DEF EnsureDaemon, Replace
  <2>2. own' \subseteq Daemons
    BY <2>1, SpawnsRest DEF RestOK
  <2>3. QED
    BY <1>3, <1>4, <2>2 DEF EnsureDaemon, Replace
<1>5. ASSUME NEW a \in Attempts, Verify(a) \/ NotReady(a) PROVE RestOK'
  <2>1. /\ UNCHANGED <<own, escalated, tracked, crashes, restarts, orphaned>>
        /\ server' = server \/ server' = "exited"
    BY <1>5 DEF Verify, NotReady, Abandoned
  <2>2. \/ UNCHANGED <<exits, terminal, link, timer>>
        \/ \E d : \E remove \in BOOLEAN : Ends(d, FALSE, remove)
    BY <1>5 DEF Verify, NotReady
  <2>3. /\ exits' \subseteq [daemon : Daemons, clean : BOOLEAN]
        /\ link' \in 0..MaxDaemons /\ timer' \in BOOLEAN /\ terminal' \in 0..MaxDaemons
    BY <2>2, EndsRest DEF RestOK
  <2>4. QED
    BY <2>1, <2>3 DEF RestOK
<1>6. ASSUME NEW a \in Attempts, Ready(a) PROVE RestOK'
  <2>1. UNCHANGED <<exits, own, escalated, terminal, timer, crashes, restarts, orphaned>>
    BY <1>6 DEF Ready
  <2>2. link' \in 0..MaxDaemons
    BY <1>1, <1>6 DEF Ready, RestOK
  <2>3. server' \in {"starting", "up", "exited"} /\ tracked' \in BOOLEAN
    BY <1>6 DEF Ready, RestOK
  <2>4. QED
    BY <2>1, <2>2, <2>3 DEF RestOK
<1>7. ASSUME NEW a \in Attempts, ListPtys(a) \/ RestartLost(a) PROVE RestOK'
  <2>1. tracked' \in BOOLEAN /\ terminal' \in 0..MaxDaemons
    BY <1>7, StartsRest DEF ListPtys, RestartLost, RestOK
  <2>2. QED
    BY <1>7, <2>1 DEF ListPtys, RestartLost, RestOK
<1>8. ASSUME NEW e \in exits, NEW a \in Attempts, HandleExit(e, a) PROVE RestOK'
  <2>1. own' \subseteq Daemons
    BY <1>8, SpawnsRest DEF HandleExit, RestOK
  <2>2. escalated' \in BOOLEAN
    BY <1>8, RecordRest DEF HandleExit, RestOK
  <2>3. exits' \subseteq exits
    BY <1>8 DEF HandleExit
  <2>4. QED
    BY <1>8, <2>1, <2>2, <2>3 DEF HandleExit, RestOK
<1>9. CASE ResetEscalation
  BY <1>9 DEF ResetEscalation, RestOK
<1>10. CASE TimerFires
  <2>1. link' \in 0..MaxDaemons /\ timer' \in BOOLEAN
    BY <1>1, <1>10 DEF TimerFires, RestOK
  <2>2. QED
    BY <1>10, <2>1 DEF TimerFires, RestOK
<1>11. CASE HealthFails
  BY <1>1, <1>11 DEF HealthFails, RestOK
<1>12. CASE StartAgent
  <2>1. tracked' \in BOOLEAN /\ terminal' \in 0..MaxDaemons
    BY <1>12, StartsRest DEF StartAgent
  <2>2. QED
    BY <1>12, <2>1 DEF StartAgent, RestOK
<1>13. CASE StopAgent
  <2>1. tracked' \in BOOLEAN /\ terminal' \in 0..MaxDaemons
    BY <1>1, <1>13 DEF StopAgent, RestOK
  <2>2. QED
    BY <1>13, <2>1 DEF StopAgent, RestOK
<1>14. CASE ServerRestart
  <2>1. orphaned' \in BOOLEAN /\ restarts' \in Nat
    BY <1>14 DEF ServerRestart, RestOK
  <2>2. QED
    BY <1>1, <1>14, <2>1 DEF ServerRestart, RestOK
<1>15. CASE Tick \/ UNCHANGED vars
  BY <1>15 DEF Tick, vars, RestOK
<1>16. QED
  BY <1>2, <1>4, <1>5, <1>6, <1>7, <1>8, <1>9, <1>10, <1>11, <1>12, <1>13, <1>14, <1>15 DEF Next

\* Each variable keeps to its states, and the watchdog never remembers more respawns than
\* its budget.
THEOREM TypeCorrect == Spec => []TypeOK
<1>1. Init => BudgetInv /\ LaunchInv /\ FileInv /\ RestOK
  BY BudgetInit, LaunchInit, FileInit, RestInit
<1>2. BudgetInv /\ LaunchInv /\ FileInv /\ RestOK /\ [Next]_vars
        => (BudgetInv /\ LaunchInv /\ FileInv /\ RestOK)'
  BY BudgetNext, LaunchNext, FileNext, RestNext
<1>3. BudgetInv /\ LaunchInv /\ FileInv /\ RestOK => TypeOK
  BY DEF BudgetInv, StampsOK, Budget, LaunchInv, LaunchTypes, ProcStates, StepStates, FileInv,
         ChildOK, RestOK, TypeOK
<1>4. QED
  BY <1>1, <1>2, <1>3, PTL DEF Spec
=============================================================================
