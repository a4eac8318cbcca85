--------------------------- MODULE DaemonWatchdog ---------------------------
(***************************************************************************)
(* The life of the PTY daemon as the server supervises it: the launcher    *)
(* (daemon-launcher.mjs) with its PID file, spawn, identity check and      *)
(* respawn attempts, the watchdog's budget and escalation                  *)
(* (pty-watchdog.mjs), the boot and the end of a daemon (pty-daemon.mjs),  *)
(* and a restart of the server in the middle of any of it (index.mjs).     *)
(*                                                                         *)
(* A daemon is named by its PID.  The launcher runs several asynchronous   *)
(* attempts: `Boot` is ensureDaemon, the others are the respawns that exit *)
(* events begin, each with the identity token of the daemon it spawned.    *)
(* One agent stands for all of them.  The pipe is a Windows pipe: a second *)
(* daemon cannot listen on it.                                             *)
(***************************************************************************)
EXTENDS Integers, Sequences

CONSTANTS
  WATCHDOG_RESPAWN_BUDGET,     \* respawns allowed per window
  WATCHDOG_RESPAWN_WINDOW_MS,  \* the window, in ticks of the clock
  MaxDaemons,                  \* bound: daemons ever spawned
  MaxAttempts,                 \* bound: respawn attempts of one server
  MaxCrashes,                  \* bound: crashes and hangs of daemons
  MaxRestarts,                 \* bound: restarts of the server
  MaxTime                      \* bound: ticks

ASSUME BudgetAssumption ==
  {WATCHDOG_RESPAWN_BUDGET, WATCHDOG_RESPAWN_WINDOW_MS} \subseteq Nat \ {0}
ASSUME BoundsAssumption ==
  {MaxDaemons, MaxAttempts, MaxCrashes, MaxRestarts, MaxTime} \subseteq Nat

Daemons == 1..MaxDaemons
Nobody == 0                    \* no daemon
Marker == MaxDaemons + 1       \* the launcher's reservation of the PID file
Boot == 0
Attempts == 0..MaxAttempts     \* ensureDaemon and the respawns

VARIABLES
  \* the operating system
  pidFile,    \* Nobody, Marker or the PID of a daemon
  proc,       \* how far each daemon has come
  exits,      \* exit events the launcher has not handled yet: daemon, clean or not
  \* the launcher and the watchdog
  server,     \* the server process
  child,      \* _currentDaemonChild
  own,        \* the daemons this server process spawned
  attempt,    \* each attempt: its step and the daemon it spawned
  stamps,     \* _respawnTimestamps
  escalated,  \* _escalated
  \* the connection and the agent
  link,       \* the daemon the client is connected to
  timer,      \* the client's reconnect timer
  tracked,    \* the agent has an entry in the processes map
  terminal,   \* the daemon that holds the agent's terminal
  \* history and bounds
  now,
  respawns,   \* when daemons were respawned since the last reset
  crashes,
  restarts,
  orphaned    \* the server ended while a daemon it had spawned was not listening yet

osVars == <<pidFile, proc, exits>>
launcherVars == <<server, child, own, attempt>>
watchdogVars == <<stamps, escalated, respawns>>
agentVars == <<tracked, terminal>>
linkVars == <<link, timer>>
bounds == <<now, crashes, restarts, orphaned>>
vars == <<osVars, launcherVars, watchdogVars, agentVars, linkVars, bounds>>

Idle == [step |-> "idle", spawned |-> Nobody]

Init ==
  /\ pidFile = Nobody
  /\ proc = [d \in Daemons |-> "none"]
  /\ exits = {}
  /\ server = "starting" /\ child = Nobody /\ own = {}
  /\ attempt = [a \in Attempts |-> Idle]
  /\ stamps = <<>> /\ escalated = FALSE /\ respawns = <<>>
  /\ link = Nobody /\ timer = FALSE
  /\ tracked = FALSE /\ terminal = Nobody
  /\ now = 0 /\ crashes = 0 /\ restarts = 0 /\ orphaned = FALSE

----------------------------------------------------------------------------
(* Daemons *)

Alive(d) == proc[d] \notin {"none", "gone", "quit"}
Booting(d) == proc[d] \in {"booting", "claiming", "binding"}
\* Holders of the pipe: the one that answers, and one that hangs.
Listening == {d \in Daemons : proc[d] \in {"serving", "hung"}}
Serving == {d \in Daemons : proc[d] = "serving"}

Unborn == {d \in Daemons : proc[d] = "none"}
Newborn == CHOOSE d \in Unborn : TRUE

\* A daemon ends: its terminals go with it, the link to it closes, and the server
\* that spawned it gets an exit event.
Ends(d, clean, remove) ==
  /\ proc' = [proc EXCEPT ![d] = IF clean THEN "quit" ELSE "gone"]
  /\ pidFile' = IF remove THEN Nobody ELSE pidFile
  /\ exits' = IF d \in own THEN exits \cup {[daemon |-> d, clean |-> clean]} ELSE exits
  /\ terminal' = IF terminal = d THEN Nobody ELSE terminal
  /\ link' = IF link = d THEN Nobody ELSE link
  /\ timer' = (timer \/ link = d)

\* checkExistingDaemon: another living daemon in the PID file ends this one with 1.
CheckExisting(d) ==
  /\ proc[d] = "booting"
  /\ IF pidFile \in Daemons /\ pidFile # d /\ Alive(pidFile)
     THEN Ends(d, FALSE, FALSE)
     ELSE /\ proc' = [proc EXCEPT ![d] = "claiming"]
          /\ pidFile' = IF pidFile \in Daemons THEN Nobody ELSE pidFile
          /\ UNCHANGED <<exits, terminal, linkVars>>
  /\ UNCHANGED <<launcherVars, watchdogVars, tracked, bounds>>

WritePidFile(d) ==
  /\ proc[d] = "claiming"
  /\ pidFile' = d
  /\ proc' = [proc EXCEPT ![d] = "binding"]
  /\ UNCHANGED <<exits, launcherVars, watchdogVars, agentVars, linkVars, bounds>>

\* createIPCServer: the pipe is free, or the daemon removes the PID file and ends.
Listen(d) ==
  /\ proc[d] = "binding"
  /\ IF Listening = {}
     THEN proc' = [proc EXCEPT ![d] = "serving"] /\ UNCHANGED <<pidFile, exits, terminal, linkVars>>
     ELSE Ends(d, FALSE, TRUE)
  /\ UNCHANGED <<launcherVars, watchdogVars, tracked, bounds>>

\* A crash, and the shutdown of an uncaught exception: the latter removes the PID file
\* and exits with 0.
Crash(d) ==
  /\ Alive(d) /\ crashes < MaxCrashes
  /\ crashes' = crashes + 1
  /\ Ends(d, FALSE, FALSE) \/ Ends(d, TRUE, TRUE)
  /\ UNCHANGED <<launcherVars, watchdogVars, tracked, now, restarts, orphaned>>

Hang(d) ==
  /\ proc[d] = "serving" /\ crashes < MaxCrashes
  /\ crashes' = crashes + 1
  /\ proc' = [proc EXCEPT ![d] = "hung"]
  /\ UNCHANGED <<pidFile, exits, launcherVars, watchdogVars, agentVars, linkVars, now, restarts,
                 orphaned>>

----------------------------------------------------------------------------
(* The launcher *)

Running == server \in {"starting", "up"}

\* reservePidFileAtomic and spawnDaemon, in one turn of the event loop.  The file is
\* in the way only when it names a living daemon.
Spawns(a) ==
  /\ Unborn # {}
  /\ proc' = [proc EXCEPT ![Newborn] = "booting"]
  /\ pidFile' = Marker
  /\ child' = Newborn /\ own' = own \cup {Newborn}
  /\ attempt' = [attempt EXCEPT ![a] = [step |-> "probing", spawned |-> Newborn]]

\* ensureDaemon: a living daemon in the PID file is waited for; anything else in the
\* file, a dead PID or a reservation, is no obstacle.
EnsureDaemon ==
  /\ server = "starting" /\ attempt[Boot] = Idle
  /\ IF pidFile \in Daemons /\ Alive(pidFile)
     THEN /\ attempt' = [attempt EXCEPT ![Boot] = [step |-> "existing", spawned |-> pidFile]]
          /\ UNCHANGED <<proc, pidFile, child, own>>
     ELSE Spawns(Boot)
  /\ UNCHANGED <<exits, server, watchdogVars, agentVars, linkVars, bounds>>

\* verifyDaemonIdentity asks whoever listens; only an answer computed with another
\* token is a mismatch.
Mismatch(a) == Serving # {} /\ attempt[a].spawned \notin Serving

\* The end of an attempt.  A server whose daemon is not connected at the start exits.
Abandoned(a) ==
  /\ attempt' = [attempt EXCEPT ![a] = Idle]
  /\ server' = IF a = Boot THEN "exited" ELSE server

\* Mutant: the PID file goes, but the child stays.
VerifySpares(a) ==
  /\ Running /\ attempt[a].step = "probing"
  /\ IF Mismatch(a)
     THEN pidFile' = Nobody /\ child' = Nobody /\ Abandoned(a)
     ELSE attempt' = [attempt EXCEPT ![a].step = "waiting"] /\ UNCHANGED <<pidFile, server, child>>
  /\ UNCHANGED <<proc, exits, terminal, linkVars, own, watchdogVars, tracked, bounds>>

\* The verification after the probe.  A mismatch kills the current child, whichever
\* attempt spawned it, and removes the PID file.
Verify(a) ==
  /\ Running /\ attempt[a].step = "probing"
  /\ IF Mismatch(a)
     THEN /\ IF child # Nobody /\ Alive(child)
             THEN Ends(child, FALSE, TRUE)
             ELSE pidFile' = Nobody /\ UNCHANGED <<proc, exits, terminal, linkVars>>
          /\ child' = Nobody
          /\ Abandoned(a)
     ELSE /\ attempt' = [attempt EXCEPT ![a].step = "waiting"]
          /\ UNCHANGED <<osVars, terminal, linkVars, server, child>>
  /\ UNCHANGED <<own, watchdogVars, tracked, bounds>>

Waiting(a) == Running /\ attempt[a].step \in {"existing", "waiting"}

\* waitForDaemonReady: the client is connected already, or connects.  The start of the
\* server goes on to the reattach loop, which finds the agent's terminal if it lives.
Ready(a) ==
  /\ Waiting(a)
  /\ link' \in Serving \cup {link} /\ link' # Nobody /\ (link # Nobody => link' = link)
  /\ IF a = Boot
     THEN /\ attempt' = [attempt EXCEPT ![a] = Idle]
          /\ server' = "up"
          /\ tracked' = (tracked \/ terminal = link')
     ELSE attempt' = [attempt EXCEPT ![a].step = "listing"] /\ UNCHANGED <<server, tracked>>
  /\ UNCHANGED <<osVars, terminal, timer, child, own, watchdogVars, bounds>>

\* Mutant: a daemon that did not get ready is replaced and not killed.
NotReadySpawns(a) ==
  /\ Waiting(a) /\ link = Nobody /\ Serving = {} /\ \A d \in Daemons : ~Booting(d)
  /\ Spawns(a)
  /\ UNCHANGED <<exits, server, watchdogVars, agentVars, linkVars, bounds>>

\* It gives up, after longer than a daemon takes to listen.  A daemon found at the
\* start is killed then.
NotReady(a) ==
  /\ Waiting(a) /\ link = Nobody /\ Serving = {} /\ \A d \in Daemons : ~Booting(d)
  /\ IF attempt[a].step = "existing"
     THEN /\ attempt' = [attempt EXCEPT ![a].step = "replacing"]
          /\ IF Alive(attempt[a].spawned)
             THEN Ends(attempt[a].spawned, FALSE, FALSE)
             ELSE UNCHANGED <<osVars, terminal, linkVars>>
          /\ UNCHANGED server
     ELSE Abandoned(a) /\ UNCHANGED <<osVars, terminal, linkVars>>
  /\ UNCHANGED <<child, own, watchdogVars, tracked, bounds>>

\* A second later: the PID file is removed and reserved.
Replace ==
  /\ server = "starting" /\ attempt[Boot].step = "replacing"
  /\ Spawns(Boot)
  /\ UNCHANGED <<exits, server, watchdogVars, agentVars, linkVars, bounds>>

\* _pruneWindow: the timestamps are in order, so what stays is the end of the list.
\* Keep(k, c): the first k of them lie before c, the others do not.
Keep(k, c) ==
  /\ \A i \in 1..k : stamps[i] < c
  /\ \A i \in k + 1..Len(stamps) : stamps[i] >= c
After(k) == SubSeq(stamps, k + 1, Len(stamps))
Full(k) == Len(stamps) - k >= WATCHDOG_RESPAWN_BUDGET

\* Mutant: the window is one tick short.
RecordShort ==
  \/ escalated /\ UNCHANGED <<escalated, stamps>>
  \/ /\ ~escalated
     /\ \E k \in 0..Len(stamps) :
          /\ Keep(k, now - WATCHDOG_RESPAWN_WINDOW_MS + 1)
          /\ escalated' = Full(k)
          /\ stamps' = IF Full(k) THEN After(k) ELSE Append(After(k), now)

\* recordRespawn: allowed unless it leaves the watchdog escalated.
RecordRespawn ==
  \/ escalated /\ UNCHANGED <<escalated, stamps>>
  \/ /\ ~escalated
     /\ \E k \in 0..Len(stamps) :
          /\ Keep(k, now - WATCHDOG_RESPAWN_WINDOW_MS)
          /\ escalated' = Full(k)
          /\ stamps' = IF Full(k) THEN After(k) ELSE Append(After(k), now)

\* Mutant: an exit of what is not the current child any more is ignored.
HandleExitCurrent(e, a) ==
  /\ e \in exits /\ Running
  /\ exits' = exits \ {e}
  /\ IF e.clean \/ e.daemon # child
     THEN /\ child' = Nobody /\ pidFile' = Nobody
          /\ UNCHANGED <<proc, own, attempt, watchdogVars>>
     ELSE /\ RecordRespawn
          /\ IF escalated'
             THEN child' = Nobody /\ pidFile' = Nobody /\ UNCHANGED <<proc, own, attempt, respawns>>
             ELSE /\ a # Boot /\ attempt[a] = Idle /\ Spawns(a)
                  /\ respawns' = Append(respawns, now)
  /\ UNCHANGED <<server, agentVars, linkVars, bounds>>

\* child.on('exit'): the PID file goes whoever it names; an exit with a code other
\* than 0 begins a respawn, budget permitting.
HandleExit(e, a) ==
  /\ e \in exits /\ Running
  /\ exits' = exits \ {e}
  /\ IF e.clean
     THEN /\ child' = Nobody /\ pidFile' = Nobody
          /\ UNCHANGED <<proc, own, attempt, watchdogVars>>
     ELSE /\ RecordRespawn
          /\ IF escalated'
             THEN child' = Nobody /\ pidFile' = Nobody /\ UNCHANGED <<proc, own, attempt, respawns>>
             ELSE /\ a # Boot /\ attempt[a] = Idle /\ Spawns(a)
                  /\ respawns' = Append(respawns, now)
  /\ UNCHANGED <<server, agentVars, linkVars, bounds>>

\* The reconciliation of a respawn: the agent has an entry and no terminal in the daemon.
Lost == link \in Serving /\ tracked /\ terminal # link

\* requestAgentRestarts, after pty.list.  The listener restarts the agent after an await.
ListPtys(a) ==
  /\ Running /\ attempt[a].step = "listing"
  /\ attempt' = IF Lost
                THEN [attempt EXCEPT ![a].step = "restarting"]
                ELSE [attempt EXCEPT ![a] = Idle]
  /\ UNCHANGED <<osVars, server, child, own, watchdogVars, agentVars, linkVars, bounds>>

\* startAgent, as far as it matters here: refused when the agent has an entry.
Starts ==
  IF ~tracked /\ link \in Serving /\ terminal = Nobody
  THEN tracked' = TRUE /\ terminal' = link
  ELSE UNCHANGED agentVars

RestartLost(a) ==
  /\ Running /\ attempt[a].step = "restarting"
  /\ attempt' = [attempt EXCEPT ![a] = Idle]
  /\ Starts
  /\ UNCHANGED <<osVars, server, child, own, watchdogVars, linkVars, bounds>>

\* POST /api/watchdog/reset-escalation, resetDaemonEscalation.
ResetEscalation ==
  /\ server = "up" /\ escalated
  /\ escalated' = FALSE /\ stamps' = <<>> /\ respawns' = <<>>
  /\ UNCHANGED <<osVars, launcherVars, agentVars, linkVars, bounds>>

----------------------------------------------------------------------------
(* The client, the agent, the server process *)

\* The reconnect timer: a refused connection is not tried again, a handshake without
\* an answer is.
TimerFires ==
  /\ Running /\ timer
  /\ timer' = (link = Nobody /\ Serving = {} /\ Listening # {})
  /\ link' = IF link = Nobody /\ Serving # {} THEN CHOOSE d \in Serving : TRUE ELSE link
  /\ UNCHANGED <<osVars, launcherVars, watchdogVars, agentVars, bounds>>

\* Three pings without an answer close the connection.
HealthFails ==
  /\ Running /\ link \in Listening \ Serving
  /\ link' = Nobody /\ timer' = TRUE
  /\ UNCHANGED <<osVars, launcherVars, watchdogVars, agentVars, bounds>>

StartAgent ==
  /\ server = "up" /\ ~tracked
  /\ Starts /\ tracked'
  /\ UNCHANGED <<osVars, launcherVars, watchdogVars, linkVars, bounds>>

StopAgent ==
  /\ server = "up" /\ tracked
  /\ tracked' = FALSE /\ terminal' = IF terminal = link THEN Nobody ELSE terminal
  /\ UNCHANGED <<osVars, launcherVars, watchdogVars, linkVars, bounds>>

\* The server ends, stopped or after its own exit(1), and is started again.
ServerRestart ==
  /\ restarts < MaxRestarts
  /\ restarts' = restarts + 1
  /\ orphaned' = (orphaned \/ \E d \in Daemons : Booting(d))
  /\ server' = "starting" /\ child' = Nobody /\ own' = {} /\ exits' = {}
  /\ attempt' = [a \in Attempts |-> Idle]
  /\ stamps' = <<>> /\ escalated' = FALSE /\ respawns' = <<>>
  /\ link' = Nobody /\ timer' = FALSE /\ tracked' = FALSE
  /\ UNCHANGED <<pidFile, proc, terminal, now, crashes>>

Tick ==
  /\ now < MaxTime
  /\ now' = now + 1
  /\ UNCHANGED <<osVars, launcherVars, watchdogVars, agentVars, linkVars, crashes, restarts, orphaned>>

Next ==
  \/ \E d \in Daemons : CheckExisting(d) \/ WritePidFile(d) \/ Listen(d) \/ Crash(d) \/ Hang(d)
  \/ EnsureDaemon \/ Replace
  \/ \E a \in Attempts : Verify(a) \/ Ready(a) \/ NotReady(a) \/ ListPtys(a) \/ RestartLost(a)
  \/ \E e \in exits, a \in Attempts : HandleExit(e, a)
  \/ ResetEscalation
  \/ TimerFires \/ HealthFails \/ StartAgent \/ StopAgent \/ ServerRestart \/ Tick

Spec == Init /\ [][Next]_vars

\* Daemons boot, exit events and timers are handled, awaits end.  Nothing makes a daemon
\* crash or hang, a user act, the server restart or time pass the window.
Fairness ==
  /\ \A d \in Daemons : WF_vars(CheckExisting(d)) /\ WF_vars(WritePidFile(d)) /\ WF_vars(Listen(d))
  /\ WF_vars(EnsureDaemon) /\ WF_vars(Replace)
  /\ \A a \in Attempts : /\ WF_vars(Verify(a)) /\ WF_vars(Ready(a)) /\ WF_vars(NotReady(a))
                         /\ WF_vars(ListPtys(a)) /\ WF_vars(RestartLost(a))
  /\ WF_vars(\E e \in exits, a \in Attempts : HandleExit(e, a))
  /\ WF_vars(TimerFires) /\ WF_vars(HealthFails)

FairSpec == Spec /\ Fairness

----------------------------------------------------------------------------
(* Properties *)

\* Each variable keeps to its states, and the watchdog never remembers more respawns
\* than its budget allows (pty-watchdog.mjs).
TypeOK ==
  /\ pidFile \in 0..Marker
  /\ proc \in [Daemons -> {"none", "booting", "claiming", "binding", "serving", "hung", "gone", "quit"}]
  /\ exits \subseteq [daemon : Daemons, clean : BOOLEAN]
  /\ server \in {"starting", "up", "exited"} /\ child \in 0..MaxDaemons /\ own \subseteq Daemons
  /\ attempt \in [Attempts -> [step : {"idle", "existing", "replacing", "probing", "waiting",
                                       "listing", "restarting"}, spawned : 0..MaxDaemons]]
  /\ stamps \in Seq(Nat) /\ Len(stamps) <= WATCHDOG_RESPAWN_BUDGET
  /\ escalated \in BOOLEAN /\ respawns \in Seq(Nat)
  /\ link \in 0..MaxDaemons /\ timer \in BOOLEAN
  /\ tracked \in BOOLEAN /\ terminal \in 0..MaxDaemons
  /\ {now, crashes, restarts} \subseteq Nat /\ orphaned \in BOOLEAN

\* A daemon that keeps crashing is respawned WATCHDOG_RESPAWN_BUDGET times per window at
\* most, wherever the window lies and however attempts overlap: one more respawn is
\* always later than the window (recordRespawn).
RespawnsApart ==
  \A i \in 1..Len(respawns) - WATCHDOG_RESPAWN_BUDGET :
    respawns[i + WATCHDOG_RESPAWN_BUDGET] - respawns[i] > WATCHDOG_RESPAWN_WINDOW_MS

\* Overlapping attempts never leave a server with two living daemons of its own
\* (spawnDaemon, the exit handler, the kill after a mismatch).
OneChild == \A d, e \in own : Alive(d) /\ Alive(e) => d = e

\* Whenever the launcher is at rest and connected, the PID file names the daemon it is
\* connected to, whatever exit handlers and attempts removed it before: without it the
\* next server spawns a second daemon (readPidFile, removePidFile).  It may be lost when a
\* server ends before its daemon listens.
PidFileNamesDaemon ==
  server = "up" /\ link \in Serving /\ exits = {} /\ (\A a \in Attempts : attempt[a] = Idle) /\ ~orphaned
    => pidFile = link

\* After a crash of its daemon, one that runs is connected in the end, or the watchdog
\* has escalated (_attemptWatchdogRespawn).  It may fail if a daemon hangs or exits with
\* 0, which nothing answers, or after an orphaned daemon.
Repaired ==
  (\E e \in exits : ~e.clean)
    ~> \/ link \in Serving \/ escalated \/ server = "exited"
       \/ orphaned \/ \E d \in Daemons : proc[d] \in {"hung", "quit"}
       \/ Unborn = {}

\* Not so: every tracked agent lost with the daemon is restarted once a daemon
\* is back (the comment at index.mjs:186).
LostAgentsRestart ==
  (server = "up" /\ link \in Serving /\ tracked)
    ~> (terminal # Nobody \/ ~tracked \/ server # "up" \/ link \notin Serving)
=============================================================================
