--------------------------- MODULE AgentLifecycle ---------------------------
(***************************************************************************)
(* Starting, stopping and losing one agent of the claude runtime: the      *)
(* process manager (process-manager-impl-win.mjs), its two ways to spawn a *)
(* terminal - in the server's own process, or in the PTY daemon behind     *)
(* spawn-pty-via-daemon.mjs - and the presence and crash detection of the  *)
(* event streams (sse.mjs).  Every map of this code is keyed by the name   *)
(* of the agent.                                                           *)
(*                                                                         *)
(* A process is a number, in the order of spawning; 0 stands for none.     *)
(* Stretches of code whose awaits only wait for modules that are loaded    *)
(* already are one action: nothing but microtasks runs in between.         *)
(***************************************************************************)
EXTENDS Integers, Sequences

CONSTANTS
  Calls,         \* bound: calls of startAgent that may be under way at a time
  DaemonModes,   \* values TEAMMCP_PTY_DAEMON = on may have
  AUTO_RESTART_ENABLED,
  MAX_RESTARTS,
  MaxProcs,      \* bound: processes spawned
  MaxStreams,    \* bound: event streams of one process
  MaxLosses,     \* bound: connections to the daemon lost, and requests that time out
  MaxRestarts    \* bound: restarts of the server

NoCall == "none"
Kill == "kill"

ASSUME CallsAssumption == NoCall \notin Calls /\ Kill \notin Calls
ASSUME ModesAssumption == DaemonModes \subseteq BOOLEAN /\ AUTO_RESTART_ENABLED \in BOOLEAN
ASSUME LimitsAssumption ==
  /\ MAX_RESTARTS \in Nat /\ MaxProcs \in Nat /\ MaxStreams \in Nat
  /\ MaxLosses \in Nat /\ MaxRestarts \in Nat

VARIABLES
  daemon,      \* terminals live in the daemon
  \* the server
  calls,       \* how far each call of startAgent has come
  entry,       \* processes.get(name)
  handle,      \* _handlesByAgent.get(name)
  stopped,     \* stoppedAgents.has(name)
  streams,     \* connections.get(name), by process
  crashTimer,  \* crashTimers.has(name)
  recent,      \* restarts within RESTART_WINDOW_MS
  adopted,     \* ... was made by the reattach loop
  listing,     \* the reattach loop has not yet asked for the list
  listed,      \* the process it has found and not yet reattached
  \* the operating system and the daemon
  pidFile,     \* the file .agent.pid
  alive,       \* running processes
  spawned,     \* processes spawned so far
  exits,       \* local terminals whose exit event has not been handled
  held,        \* the agent's entry in the daemon's map
  toDaemon,    \* requests on their way
  toServer,    \* answers and exit events on their way
  subscribed,  \* the daemon sends its exit events to the server
  losses, restarts,
  \* history
  outage,      \* why the last stream went away, and whether anybody was told
  alarms,      \* the outages that a crash notice was posted for
  orphans      \* processes whose spawn was answered to nobody

presence == <<streams, crashTimer, outage>>
crashVars == <<recent, alarms>>
tracking == <<entry, handle, adopted, pidFile>>
procs == <<alive, spawned, exits>>
wire == <<held, toDaemon, toServer, subscribed, losses, orphans>>
boot == <<daemon, listing, listed, restarts>>
vars == <<calls, stopped, presence, crashVars, tracking, procs, wire, boot>>

Procs == 1..MaxProcs
Messages == [kind : {"exit", "spawned", "refused"}, call : Calls \cup {NoCall}, pid : 0..MaxProcs]

Init ==
  /\ daemon \in DaemonModes
  /\ calls = [c \in Calls |-> "idle"]
  /\ entry = 0 /\ handle = 0 /\ stopped = FALSE
  /\ streams = [p \in Procs |-> 0] /\ crashTimer = FALSE /\ recent = 0
  /\ adopted = FALSE /\ listing = FALSE /\ listed = 0
  /\ pidFile = 0 /\ alive = {} /\ spawned = 0 /\ exits = {}
  /\ held = 0 /\ toDaemon = <<>> /\ toServer = <<>> /\ subscribed = TRUE
  /\ losses = 0 /\ restarts = 0
  /\ outage = "none" /\ alarms = {} /\ orphans = {}

isOnline == \E p \in Procs : streams[p] > 0

----------------------------------------------------------------------------
(* startAgent *)

\* startAgent up to its first real await: the stop mark goes whatever happens next,
\* and an agent with an entry is refused.  `tracked' is the entry it finds.
Begin(c, tracked) ==
  /\ calls[c] = "idle"
  /\ stopped' = FALSE
  /\ calls' = IF tracked # 0 THEN calls ELSE [calls EXCEPT ![c] = "preparing"]

\* POST /api/agents/:name/start refuses an agent that is online, the WeChat command
\* does not.
RestStart(c) ==
  /\ ~isOnline
  /\ Begin(c, entry)
  /\ UNCHANGED <<presence, crashVars, tracking, procs, wire, boot>>

WechatStart(c) ==
  /\ Begin(c, entry)
  /\ UNCHANGED <<presence, crashVars, tracking, procs, wire, boot>>

Register(p) ==
  /\ entry' = p /\ pidFile' = p
  /\ handle' = (IF daemon THEN p ELSE handle) /\ adopted' = FALSE

\* A new process of the agent.
Spawn(p) ==
  /\ p = spawned + 1 /\ p \in Procs
  /\ spawned' = p
  /\ alive' = alive \cup {p}

\* The configuration is written, ccrouter runs, the credential is leased.  Then the
\* terminal is spawned at once, or asked of the daemon.
SpawnLocally(c) ==
  /\ ~daemon /\ calls[c] = "preparing"
  /\ calls' = [calls EXCEPT ![c] = "idle"]
  /\ \E p \in Procs : Spawn(p) /\ Register(p)
  /\ UNCHANGED <<stopped, presence, crashVars, exits, wire, boot>>

RequestSpawn(c) ==
  /\ daemon /\ calls[c] = "preparing"
  /\ calls' = [calls EXCEPT ![c] = "spawning"]
  /\ toDaemon' = Append(toDaemon, c)
  /\ UNCHANGED <<stopped, presence, crashVars, tracking, procs, held, toServer, subscribed,
                 losses, orphans, boot>>

\* No credential lease, no claude.cmd, no daemon.
StartFails(c) ==
  /\ calls[c] = "preparing"
  /\ calls' = [calls EXCEPT ![c] = "idle"]
  /\ UNCHANGED <<stopped, presence, crashVars, tracking, procs, wire, boot>>

----------------------------------------------------------------------------
(* stopAgent *)

\* Mutant: the PID file is not looked at.
KnownByEntry == {entry}
Known == {entry, pidFile}

\* What is known and whatever the scan of the command lines finds is killed
\* (synchronously); the streams are ended, their close events follow later.
Stop ==
  /\ stopped' = TRUE
  /\ \E scan \in SUBSET alive :
       LET killed == alive \cap (Known \cup scan)
       IN /\ alive' = alive \ killed
          /\ exits' = IF daemon THEN exits ELSE exits \cup killed
  /\ toDaemon' = IF daemon /\ entry # 0 THEN Append(toDaemon, Kill) ELSE toDaemon
  /\ entry' = 0 /\ pidFile' = 0
  /\ outage' = IF outage = "crash" THEN "stop" ELSE outage
  /\ UNCHANGED <<calls, handle, adopted, streams, crashTimer, crashVars, spawned, held, toServer,
                 subscribed, losses, orphans, boot>>

----------------------------------------------------------------------------
(* The end of a process *)

\* The agent ends by itself (external).
Die(p) ==
  /\ p \in alive
  /\ alive' = alive \ {p}
  /\ exits' = IF daemon THEN exits ELSE exits \cup {p}
  /\ UNCHANGED <<calls, stopped, presence, crashVars, tracking, spawned, wire, boot>>

\* onExit of a local terminal: the entry and the file go, whosever they are now.
LocalExit(p) ==
  /\ p \in exits
  /\ exits' = exits \ {p}
  /\ entry' = 0 /\ pidFile' = 0
  /\ UNCHANGED <<calls, stopped, presence, crashVars, handle, adopted, alive, spawned, wire, boot>>

----------------------------------------------------------------------------
(* The daemon *)

\* Mutant: the daemon spawns whatever it is asked for.
RefusesNothing == FALSE
Refuses == held # 0

\* spawnAgent: one terminal per agent.
HandleSpawn(c) ==
  /\ toDaemon # <<>> /\ Head(toDaemon) = c
  /\ toDaemon' = Tail(toDaemon)
  /\ IF Refuses
     THEN /\ toServer' = Append(toServer, [kind |-> "refused", call |-> c, pid |-> 0])
          /\ UNCHANGED <<alive, spawned, held, orphans>>
     ELSE \E p \in Procs :
            /\ Spawn(p) /\ held' = p
            /\ toServer' = Append(toServer, [kind |-> "spawned", call |-> c, pid |-> p])
            /\ orphans' = IF c = NoCall THEN orphans \cup {p} ELSE orphans
  /\ UNCHANGED <<calls, stopped, presence, crashVars, tracking, exits, subscribed, losses, boot>>

\* killAgent; nobody waits for the answer.
HandleKill ==
  /\ toDaemon # <<>> /\ Head(toDaemon) = Kill
  /\ toDaemon' = Tail(toDaemon)
  /\ alive' = alive \ {held}
  /\ UNCHANGED <<calls, stopped, presence, crashVars, tracking, spawned, exits, held, toServer,
                 subscribed, losses, orphans, boot>>

\* proc.onExit of the daemon: the name is free again, and the event is sent.
DaemonExit ==
  /\ held # 0 /\ held \notin alive
  /\ held' = 0
  /\ toServer' = IF subscribed
                 THEN Append(toServer, [kind |-> "exit", call |-> NoCall, pid |-> held])
                 ELSE toServer
  /\ UNCHANGED <<calls, stopped, presence, crashVars, tracking, procs, toDaemon, subscribed,
                 losses, orphans, boot>>

\* onExit of the handle.  The reattach loop installs one that leaves the file alone.
Forget ==
  /\ entry' = 0 /\ handle' = 0 /\ adopted' = FALSE
  /\ pidFile' = IF adopted THEN pidFile ELSE 0

\* The answer to a spawn that a call still waits for.
Told(m) == m.kind = "spawned" /\ m.call # NoCall

\* The server reads k messages at once.  Exit events are handled as they are parsed,
\* by the handle the agent has at that moment; the answers go to promises whose
\* continuations run when the whole chunk has been parsed.  An answer nobody waits for
\* any more is dropped.
ReceiveChunk(k) ==
  /\ k \in 1..Len(toServer)
  /\ toServer' = SubSeq(toServer, k + 1, Len(toServer))
  /\ LET new == {toServer[i].pid : i \in {j \in 1..k : Told(toServer[j])}}
         exited == \E i \in 1..k : toServer[i].kind = "exit"
     IN /\ calls' = [c \in Calls |-> IF \E i \in 1..k : toServer[i].call = c THEN "idle"
                                     ELSE calls[c]]
        /\ \/ new # {} /\ \E p \in new : (\A q \in new : q <= p) /\ Register(p)
           \/ new = {} /\ exited /\ handle # 0 /\ Forget
           \/ new = {} /\ (exited => handle = 0) /\ UNCHANGED tracking
  /\ UNCHANGED <<stopped, presence, crashVars, procs, held, toDaemon, subscribed, losses,
                 orphans, boot>>

Unanswered == {toServer[i].pid : i \in {j \in DOMAIN toServer : Told(toServer[j])}}

\* Ten seconds have gone by since the request: the call fails, and forgets its number.
\* The request and its answer, which go on their way, are nobody's from now on.
RequestTimeout(c) ==
  /\ calls[c] = "spawning" /\ losses < MaxLosses
  /\ losses' = losses + 1
  /\ calls' = [calls EXCEPT ![c] = "idle"]
  /\ orphans' = orphans \cup {toServer[i].pid : i \in {j \in DOMAIN toServer :
                               toServer[j].kind = "spawned" /\ toServer[j].call = c}}
  /\ toDaemon' = [i \in DOMAIN toDaemon |-> IF toDaemon[i] = c THEN NoCall ELSE toDaemon[i]]
  /\ toServer' = [i \in DOMAIN toServer |->
                    IF toServer[i].call = c THEN [toServer[i] EXCEPT !.call = NoCall] ELSE toServer[i]]
  /\ UNCHANGED <<stopped, presence, crashVars, tracking, procs, held, subscribed, boot>>

\* The connection breaks and comes back: what was under way is lost, the calls that
\* wait fail, and nothing subscribes again (PtyLink).
LinkLost ==
  /\ daemon /\ losses < MaxLosses
  /\ losses' = losses + 1
  /\ calls' = [c \in Calls |-> IF calls[c] = "spawning" THEN "idle" ELSE calls[c]]
  /\ orphans' = orphans \cup Unanswered
  /\ toDaemon' = <<>> /\ toServer' = <<>> /\ subscribed' = FALSE
  /\ UNCHANGED <<stopped, presence, crashVars, tracking, procs, held, boot>>

----------------------------------------------------------------------------
(* Presence and crash detection *)

\* addConnection.
Connect(p) ==
  /\ p \in alive /\ streams[p] < MaxStreams
  /\ streams' = [streams EXCEPT ![p] = @ + 1]
  /\ crashTimer' = FALSE
  /\ outage' = "none"
  /\ UNCHANGED <<calls, stopped, crashVars, tracking, procs, wire, boot>>

\* Mutant: every stream that closes counts.
AnyStream(p) == streams[p] > 0
LastStream(p) == \A q \in Procs : streams[q] = IF q = p THEN 1 ELSE 0

\* Mutant: agents that are being started are left alone.
ArmUnlessStarting == crashTimer' = (\A c \in Calls : calls[c] = "idle")
\* scheduleCrashDetection: the timer starts anew.
Arm == crashTimer' = TRUE

\* removeConnection: a stream closes, is found broken, or was ended by stopAgent.
Disconnect(p) ==
  /\ streams[p] > 0
  /\ streams' = [streams EXCEPT ![p] = @ - 1]
  /\ IF LastStream(p)
     THEN Arm /\ outage' = IF stopped THEN "stop" ELSE "crash"
     ELSE UNCHANGED <<crashTimer, outage>>
  /\ UNCHANGED <<calls, stopped, crashVars, tracking, procs, wire, boot>>

\* The timer fires for an agent that is back, or was stopped.
CrashTimerSkips ==
  /\ crashTimer /\ (isOnline \/ stopped)
  /\ crashTimer' = FALSE
  /\ UNCHANGED <<calls, stopped, streams, outage, crashVars, tracking, procs, wire, boot>>

RestartAllowed == AUTO_RESTART_ENABLED /\ recent < MAX_RESTARTS

\* It fires for one that is gone: the notice is posted, and within the limit a
\* restart begins, with the entry out of its way.
CrashDeclared ==
  /\ crashTimer /\ ~isOnline /\ ~stopped
  /\ crashTimer' = FALSE
  /\ alarms' = alarms \cup {outage}
  /\ outage' = "told"
  /\ IF RestartAllowed
     THEN /\ recent' = recent + 1
          /\ entry' = 0
          /\ \E c \in Calls : Begin(c, 0)
     ELSE UNCHANGED <<recent, entry, calls, stopped>>
  /\ UNCHANGED <<streams, handle, adopted, pidFile, procs, wire, boot>>

\* A restart falls out of the window.
RestartForgotten ==
  /\ recent > 0
  /\ recent' = recent - 1
  /\ UNCHANGED <<calls, stopped, presence, alarms, tracking, procs, wire, boot>>

----------------------------------------------------------------------------
(* A restart of the server *)

\* The maps, timers and streams are gone.  Local terminals may or may not survive;
\* the daemon keeps its own, and the reattach loop will ask for them.
ServerRestart ==
  /\ restarts < MaxRestarts
  /\ restarts' = restarts + 1
  /\ calls' = [c \in Calls |-> "idle"]
  /\ entry' = 0 /\ handle' = 0 /\ stopped' = FALSE
  /\ streams' = [p \in Procs |-> 0] /\ crashTimer' = FALSE /\ recent' = 0
  /\ outage' = "none"
  /\ IF daemon THEN UNCHANGED alive ELSE alive' \in SUBSET alive
  /\ exits' = {}
  /\ orphans' = orphans \cup Unanswered
  /\ toDaemon' = <<>> /\ toServer' = <<>> /\ subscribed' = TRUE
  /\ adopted' = FALSE /\ listing' = daemon /\ listed' = 0
  /\ UNCHANGED <<daemon, pidFile, spawned, held, losses, alarms>>

\* pty.list, then the scrollback of the process found.
ListPtys ==
  /\ listing
  /\ listing' = FALSE /\ listed' = held
  /\ UNCHANGED <<calls, stopped, presence, crashVars, tracking, procs, wire, daemon, restarts>>

\* reattachExistingAgent: an agent that has an entry by now is left alone.
Reattach ==
  /\ listed # 0
  /\ listed' = 0
  /\ IF entry # 0 THEN UNCHANGED tracking
     ELSE entry' = listed /\ handle' = listed /\ adopted' = TRUE /\ UNCHANGED pidFile
  /\ UNCHANGED <<calls, stopped, presence, crashVars, procs, wire, daemon, listing, restarts>>

Next ==
  \/ \E c \in Calls : \/ RestStart(c) \/ WechatStart(c) \/ SpawnLocally(c)
                       \/ RequestSpawn(c) \/ StartFails(c) \/ RequestTimeout(c)
  \/ \E c \in Calls \cup {NoCall} : HandleSpawn(c)
  \/ \E p \in Procs : Die(p) \/ LocalExit(p) \/ Connect(p) \/ Disconnect(p)
  \/ \E k \in 1..Len(toServer) : ReceiveChunk(k)
  \/ Stop \/ HandleKill \/ DaemonExit \/ LinkLost
  \/ CrashTimerSkips \/ CrashDeclared \/ RestartForgotten
  \/ ServerRestart \/ ListPtys \/ Reattach

Spec == Init /\ [][Next]_vars

----------------------------------------------------------------------------
(* Properties *)

\* Every variable keeps its type: the maps name processes that were spawned, and no
\* window counts more restarts than MAX_RESTARTS (sse.mjs, scheduleCrashDetection).
TypeOK ==
  /\ daemon \in DaemonModes
  /\ calls \in [Calls -> {"idle", "preparing", "spawning"}]
  /\ entry \in 0..MaxProcs /\ handle \in 0..MaxProcs /\ pidFile \in 0..MaxProcs
  /\ adopted \in BOOLEAN /\ stopped \in BOOLEAN
  /\ streams \in [Procs -> 0..MaxStreams] /\ crashTimer \in BOOLEAN
  /\ recent \in 0..MAX_RESTARTS
  /\ listing \in BOOLEAN /\ listed \in 0..MaxProcs
  /\ alive \subseteq Procs /\ spawned \in 0..MaxProcs /\ exits \subseteq Procs
  /\ held \in 0..MaxProcs
  /\ toDaemon \in Seq(Calls \cup {Kill, NoCall}) /\ toServer \in Seq(Messages)
  /\ subscribed \in BOOLEAN
  /\ losses \in 0..MaxLosses /\ restarts \in 0..MaxRestarts
  /\ outage \in {"none", "crash", "stop", "told"}
  /\ alarms \subseteq {"none", "crash", "stop", "told"} /\ orphans \subseteq 0..MaxProcs

\* A crash timer never runs while the agent has a stream: removeConnection arms it
\* with the last stream only, addConnection cancels it, and no late close event of an
\* old stream arms it again.
CrashTimerMeansOffline == crashTimer => ~isOnline

\* An agent that lost its last stream without being stopped is under the timer until
\* it is back, stopped, or reported, whatever starts were under way meanwhile.
LossIsWatched == outage = "crash" => crashTimer

\* The daemon never runs two terminals of one agent, although startAgent is called
\* again for an agent that runs (crash detection removes the entry that would refuse).
OnePty == daemon => \A p, q \in alive : p = q

\* README.md:225 (PID files track processes across restarts of the server): what runs
\* in the daemon can always be stopped, the PID file names it, whatever has become of
\* its entry, or a call waits for the answer that is on the way.  The one hole is the
\* answer that did not find its call: the connection broke, the server restarted, or
\* the call had given up after ten seconds.
StopReaches == daemon => alive \subseteq {pidFile} \cup Unanswered \cup orphans

\* README.md:228: intentionally stopped agents do not trigger false alarms.
NoFalseAlarms == "stop" \notin alarms
=============================================================================
