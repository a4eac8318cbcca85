# A TLA+ model of TeamMCP

TeamMCP is a collaboration server for coding agents.  One Node.js process (`src/server`)
keeps a SQLite database, offers an HTTP API, pushes messages to the connected agents over
server-sent events, and starts, supervises and authenticates the agents' processes.  On
Windows the agents' terminals may live in a second process, the PTY daemon, that survives
restarts of the server.

This directory holds TLA+ modules of the core of that system, TLC configurations that check
them on small instances, and TLAPS proofs for all instances.  `PROJECT.json` maps every
definition to the lines it models and lists runs, hazards, findings and theorems.

    tlc -workers 2 -config MCPtyLink.cfg PtyLink     # check a run
    tlapm PtyLink_proofs.tla                         # check the proofs of a module

Contents: [inventory](#inventory) · [execution model](#execution-model) ·
[modules](#modules) · [runs](#runs) · [fairness](#fairness) · [proofs](#proofs) ·
[findings](#findings) · [not modelled](#not-modelled) · [plan](#plan)

## Inventory

### Components, their state and operations

| component | code | state | operations |
|---|---|---|---|
| Shared state | `db.mjs` 1380–2290, `router.mjs` (`/api/state`, `/api/discussions/:ch/conclude`) | tables `state_kv`, `change_log`, `pending_approvals`; `agent_profiles.last_knowledge_check` | create, write, propose, approve, reject, conclude a batch, write by a system engine or a task link |
| Delivery | `router.mjs` (`/api/send`, `/api/inbox`), `sse.mjs`, `db.mjs` | tables `messages`, `read_status`; maps of event streams, batch buffers, timers | send, inject memory, push staggered or batched, replay or summarise on reconnect, pull and acknowledge the inbox |
| PTY daemon link | `pty-daemon-client.mjs`, `pty-daemon-ipc.mjs`, `pty-daemon.mjs`, `index.mjs` | client: socket, timer, health failures; daemon: sessions, credit, pending queue, event buffer | connect, handshake, ping, subscribe, emit output, acknowledge, pause and resume, reattach |
| Agent processes | `process-manager-impl-win.mjs`, `spawn-pty-via-daemon.mjs`, `sse.mjs` | maps `processes`, `_handlesByAgent`, `stoppedAgents`, `crashTimers`, `restartHistory`; `.agent.pid` files; the daemon's map of terminals | start, stop, exit, connect, disconnect, detect a crash, restart, reattach |
| PTY daemon supervision | `daemon-launcher.mjs`, `pty-watchdog.mjs`, `index.mjs` | `pty-daemon.pid`, token file, timestamps of respawns, sticky escalation | reserve, spawn, probe, verify, respawn, escalate, reset, restart lost agents |
| PTY fallback | `pty-fallback-state-machine.mjs` | state (connected, degraded, reconnecting, failed), write buffers, spawn log | buffer a write, drain, replay spawns, recover |
| PTY security | `pipe-token.mjs`, `ipc-protocol.mjs`, `boot-checks.mjs`, `path-a-constants.mjs` | token files with access control | write, verify and rotate a token; parse frames |
| In-process terminals | `pty-manager.mjs` | terminals, scrollback, browser sockets | spawn, fan out, resize |
| Codex agents | `codex-pty-runner.mjs` | a second runtime on the daemon | start, stop |
| Process managers of macOS and Linux | `process-manager-impl-{mac,linux}.mjs` | as Windows, without the daemon | start, stop |
| Credential leases, busy lock | `credential-lease.mjs`, `auth-token-utils.mjs` | tables `credential_lease_rate`, `path_a_busy_agents`; maps of used tokens and of mints | mint, verify, lease, acquire, heartbeat, release, revoke |
| Credential manager | `credential-manager.mjs`, `cred-crypto.mjs` | the token store with `rotation_seq`, a lock file, timers, agents' credential files | refresh, log in, distribute, collect |
| Credential probes, auth monitor | `credential-probe*.mjs`, `auth-monitor.mjs` | last results | poll, raise an alarm |
| Tasks, schedules, gaps | `db.mjs`, `router.mjs` 2200–2400, `index.mjs` 495–525 | tables `tasks`, `scheduled_messages`, `knowledge_gaps` | create, transition, fire when due |
| Channels and content | `db.mjs`, `router.mjs` | tables of channels, members, reactions, pins, files | single-statement writes and queries |
| Memory engine | `memory*.mjs`, `skill-nudge-provider.mjs` | tables of memories, LLM budgets | store, rank, inject |
| Retention | `retention*.mjs` | sweep flag, heartbeats | sweep in batches, watch |
| WeChat bridge | `wechat-bridge.mjs`, `db.mjs`, `integration/wechat-bridge` | session, cursor and context token, in memory and in a file; table `notifications`; the flush in flight | log in, poll, acknowledge, execute or forward, queue and flush notifications, unbind |
| Start, authentication, event bus | `index.mjs`, `auth.mjs`, `eventbus.mjs` | subscribers | publish (synchronously), authenticate |
| MCP client | `mcp-client/teammcp-channel.mjs` | event stream, `pendingPermissions`, `pendingApprovals`, seen message ids | relay a permission request, retry, time out, reconnect |
| Integrations, dashboard, scripts | `integration/`, `dashboard/`, `scripts/`, `bin/`, `templates/` | none of their own | proxying, presentation, installation |

### How they interact

* HTTP handlers call `db.mjs` synchronously; `db.mjs` publishes on the event bus, whose
  subscribers run inside the publishing call.
* A send goes `router.mjs` → `db.mjs` (row) → memory injection (await) → `sse.mjs` (push) →
  the client's stream.  `read_status` links sending, replay and inbox: each of the three moves
  the same marker.
* `sse.mjs` tells the process manager of lost agents (crash detection imports `startAgent`);
  the process manager tells `sse.mjs` who was stopped on purpose (`stoppedAgents`).  Both are
  keyed by the agent's name alone, whatever process or stream an event came from.
* Server and daemon exchange frames over a named pipe: requests with answers (spawn, list,
  subscribe), notifications without (data, ack, exit, kill).  The PID file, the daemon's map
  and the handle map are three records of the same process.

### Hard behaviours

Interleavings across `await`s and timers; streams of two processes of one agent; exit events
that arrive after the next start; answers lost with a connection; credit that leaks to a
connection nobody reads; a restart that forgets maps and timers but neither the database nor
the daemon; batches rolled back after their events went out.  `PROJECT.json` lists the 40 that
matter most, at their lines, with the properties that cover them or the reason why none does
yet.  Smaller ones seen while reading, and left aside so far:

* Delivery: replayed urgent messages are recorded before older ones (`sse.mjs:741`); ties of
  `created_at` (`db.mjs:831`); `last_seen` is touched before the replay reads it
  (`router.mjs:1170`); an inbox ack fails at a later item (`router.mjs:1332`); a message and its
  search entry are two statements (`db.mjs:718`).
* PTY link: `pty.exit` written to a broken connection counts as delivered
  (`pty-daemon-ipc.mjs:653`); an exit discards queued output (`pty-daemon.mjs:1070`);
  `reattachAgent` clears `paused` without resuming (`pty-daemon.mjs:1338`, no client sends it).
* Agents: a stop inside a start leaves the stop mark on a running agent
  (`process-manager-impl-win.mjs:820`); a crash before the first stream arms no timer
  (`sse.mjs:141`); a restart forgets crash timers (`sse.mjs:77`); late requests set a stopped
  agent online (`auth.mjs:31`); a lock file of a slow sibling counts as stale
  (`process-manager-impl-win.mjs:592`).
* Daemon: an uncaught exception exits with code 0, as an intended end does
  (`pty-daemon.mjs:1665`); the fallback's buffers have limits
  (`pty-fallback-state-machine.mjs:44`).

### What makes each component correct

* **Shared state**: the audit log replays to the state and is never rewritten; an approval is
  applied exactly once; nobody bypasses ownership, approval or `expected_version`.
* **Delivery**: nothing is marked read that was not received; a push in flight ends on the
  stream or with its recipient offline; a buffer never strands.
* **PTY daemon link**: credit is conserved, acknowledgements never overflow, no output is
  dropped while the agent runs, stalls end, the client reconnects and subscribes again.
* **Agent processes**: one terminal per agent; what runs can be stopped; losses are noticed,
  intended stops are not reported.
* **Supervision**: one daemon per server; no window holds more respawns than the budget; the
  PID file names the daemon in use; a crash ends in a connection or in escalation.
* **Leases and busy lock**: a token buys one request; limits hold in every window; a driver
  that holds an agent owns its row.
* **Credentials**: no refresh token is sent twice after it was rotated; a login is asked for
  only when it is needed; each agent gets the token it should have, and no path_a agent a
  refresh token.
* **Tasks**: the history accounts for the row; a message names the live task made from it.
* **Permission relay**: a tool runs only if that very request was approved; every request is
  answered.
* **WeChat bridge**: no notification is sent twice or lost, a message is handled once.
* **Retention**: only swept rows disappear, and the sweep flag never stays up.

## Execution model

Node.js runs one callback at a time and better-sqlite3 blocks, so the code between two real
suspension points is one atomic action of the model.  Suspension points are awaits that wait
for I/O or another callback, timers, and the network.  An await on a module that is loaded
already, or on a settled promise, runs only microtasks in between and does not end an action.

One place looks inside what blocks everyone else: `concludeDiscussion`'s loop is one step
per item, so that a rollback in its middle is visible; other handlers are disabled meanwhile.
One action keeps the order of the microtasks apart: `ReceiveChunk` handles all frames of a
chunk before it runs the promises that these frames settle.

The database, PID files and the daemon survive a restart of the server.  Maps, buffers,
timers and streams do not.  Every module states its bounds as constants (`Max...`) that only
guard the actions which would exceed them.

## Modules

| module | lines it stands for | actions |
|---|---|---|
| `SharedState` | `db.mjs`, `router.mjs` | 14 |
| `Delivery` | `router.mjs`, `sse.mjs`, `db.mjs` | 9 |
| `PtyLink` | `pty-daemon-client.mjs`, `pty-daemon.mjs`, `pty-daemon-ipc.mjs`, `index.mjs` | 18 |
| `AgentLifecycle` | `process-manager-impl-win.mjs`, `spawn-pty-via-daemon.mjs`, `sse.mjs` | 22 |
| `DaemonWatchdog` | `daemon-launcher.mjs`, `pty-watchdog.mjs`, `pty-daemon.mjs`, `index.mjs` | 20 |
| `CredentialManager` | `credential-manager.mjs` | 15 |
| `CredentialLease` | `credential-lease.mjs`, `auth-token-utils.mjs`, `process-manager-impl-win.mjs` | 14 |
| `TaskBoard` | `router.mjs`, `db.mjs` | 7 |
| `PermissionRelay` | `mcp-client/teammcp-channel.mjs`, `db.mjs`, `router.mjs` | 13 |
| `Permission` | the promise of the relay, abstract | 2 |
| `WechatBridge` | `wechat-bridge.mjs`, `db.mjs` | 25 |
| `Tables_proofs` | | theorems of `SharedState`, `TaskBoard` and `Delivery` |
| `PtyLink_proofs`, `AgentLifecycle_proofs`, `DaemonWatchdog_proofs`, `CredentialManager_proofs`, `CredentialLease_proofs`, `PermissionRelay_proofs`, `WechatBridge_proofs` | | theorems of one module each |
| `MC...` | | model values, constants and symmetry for TLC |

`SharedState`, `TaskBoard` and `Delivery` name nothing alike (`TaskSpec`, `DeliverySpec`; `Team`
and `Members` for the agents), so that one module of theorems can extend all three.

Operators marked "Mutant" are deliberate mistakes (a dropped guard, a missing reset).  No
specification uses them; substituted for the definition that follows them, they make TLC find
the property they are listed with violated.  They show that the property depends on the code.

### SharedState

| variable | code |
|---|---|
| `kv` | `state_kv`; version 0 where there is no row |
| `log` | `change_log`, in id order |
| `approvals`, `nextId` | `pending_approvals`; `randomUUID` is the next number, never reused and not rolled back |
| `stale` | agents whose knowledge check is missing or too old |
| `tx` | the running `concludeDiscussion` and what its rollback restores |
| `notified` | the events published |

`setState` has several callers that fix its options, and the model has one action for each way
through it: `CreateField`, `WriteField` (the owner), `ProposeChange` (anyone else, or an owner
of a protected field), `SystemWrite` (`isHumanOverride`/`systemWrite`), `TaskLinkWrite`
(`PATCH /api/tasks/:id`).  `ApproveApproval` and `RejectApproval` are `resolveApproval`;
`ConcludeBegin`, `ConcludeItem`, `ConcludeRefused`, `ConcludeNeedsApproval`, `ConcludeCommit`
are `concludeDiscussion` with its route, which publishes the end of the batch after the commit
and then answers with an error (`router.mjs:2534` uses names it does not have) although
everything is written; `KnowledgeChecked` and `KnowledgeExpires` are the profile and the
clock.  The log rows carry three history fields (`via`, `appr`, `expected`): the path, the
approval and the expected version a row was written with.

Abstracted: values are model values, texts (reason, justification) are dropped, time is only
whether the knowledge check is stale.

### Delivery

| variable | code |
|---|---|
| `msgs`, `marker` | `messages`, `read_status` |
| `streams` | how many event streams each agent has open |
| `handlers` | the sends whose handler awaits memory injection |
| `timers` | staggered pushes, one `setTimeout` each |
| `buffer`, `flushTimer` | batch buffers and their window timers |
| `pull` | the last unacknowledged inbox answer: the message it names, and those it left out |
| `batching` | `TEAMMCP_BATCH_ENABLED` |
| `received`, `summarised` | history: what reached the agent, in full or as a summary |
| `excused` | history: what the agent may have missed, for one of the three reasons below |

`Send` is `POST /api/send` up to the first injection, `Injected` one step of its loop and its
end, `TimerFires` a staggered push, `FlushBatch` the window timer, `Connect` `GET /api/events`
with `sendMissedMessages`, `Disconnect` `removeConnection`, `ServerRestart` the server's,
`InboxGet` and `InboxAck` the two inbox routes.  `BufferedPush` and `StaggeredPush` are
`pushWithPriorityToAgents` with and without the batch window.  Sends overlap as they like, an
agent may send without a stream and open a second one, which is sent the missed messages again.

The limits of the routes and the queries are constants: what counts as short
(`SummaryThreshold`), what an answer shows (`DetailLimit`, `RecentLimit`), what a query
fetches (`FetchLimit`, `MentionLimit`), what a replay may push (`MaxPushes`).  The last one is
for all channels of an agent together: a replay of the one channel that is modelled may push
whatever the channels before it have left, and is skipped when that is nothing (`Skip`).

`ReadMeansReceived` holds in every configuration of these constants with three exceptions, which
are what the code does and not what it means to do:

1. The marker moves when a push is handed to the batch buffer or to a timer, or when a later
   message is pushed (`router.mjs:939`, `router.mjs:1002`); if the recipient's last stream ends, or the
   server, before it is written, the message is not replayed.
2. A send moves the sender's own marker past everything it has not seen, also when it has no
   stream (`router.mjs:883`).
3. A replay that may push less than there is unread, or is skipped, leaves the rest behind the
   next live push, which marks them read (`sse.mjs:563`); a quiet inbox answer of more than
   `detail_limit` messages shows the newest of them and names the last, whose acknowledgement
   marks them all (`router.mjs:1276`: by default 20 count as quiet and 10 are shown).

Abstracted: contents; `created_at` is the row's number, so timestamps are distinct; a summary
is the set of messages it stands for.

### PtyLink

| variable | code |
|---|---|
| `link`, `timer`, `failures` | `_connecting`, `_connected`, `_socket`; `_reconnectTimer`; `_healthFailures` |
| `boot`, `tracked` | the start of `index.mjs`: connect, list, reattach; the agent's entry |
| `session` | the daemon's session of the connection and its subscription |
| `pty`, `read` | the agent's process and the bytes node-pty delivered |
| `credit`, `emitted`, `acked`, `paused`, `queue` | the agent's flow control fields |
| `kept` | `pty.exit` in the event buffer |
| `data`, `acks`, `exiting`, `asking` | frames in flight, in bytes |

`Read` is `onData` → `emitOrBuffer`, `HandleAck` `ackAgent` with its drain loop, `Receive` the
client's data handler with its `pty.ack`, `Exit`/`ReceiveExit` the end of the agent,
`TimerFires`/`WaitForDaemonReady` the two ways a connection is opened, `HandshakeOk`,
`HandshakeFails`, `SubscribeAll`, `PingAnswered`, `PingFails`, `LinkLost`, `Closed` and
`SessionEnds` the life of a connection seen from both ends, `ServerRestart`, `ListPtys`,
`Reattach` a server that finds the daemon running.

Abstracted: output is a stream of byte positions; data and acks in flight are byte counts, so
a chunk may arrive, and be acknowledged, in parts; node-pty delivers at most `MaxLate` chunks
after `pause()` (assumed smaller than the queue bound, which is what the bound is for).

### AgentLifecycle

| variable | code |
|---|---|
| `calls` | how far each call of `startAgent` has come |
| `entry`, `adopted` | `processes.get(name)`, and whether the reattach loop made it |
| `handle` | `_handlesByAgent.get(name)` |
| `stopped`, `crashTimer`, `recent` | `stoppedAgents`, `crashTimers`, `restartHistory` within its window |
| `streams` | the agent's event streams, by the process that opened them |
| `listing`, `listed` | the reattach loop |
| `pidFile` | `.agent.pid` |
| `alive`, `spawned`, `exits`, `held` | processes; local exit events not yet handled; the daemon's map |
| `toDaemon`, `toServer`, `subscribed` | frames in flight and the subscription |
| `outage`, `alarms`, `orphans` | history |

`RestStart`/`WechatStart` begin a start, `SpawnLocally` or `RequestSpawn` go on after its
awaits, `StartFails` ends it; `HandleSpawn`, `HandleKill`, `DaemonExit` are the daemon's;
`ReceiveChunk` the client's frame loop and the promises behind it; `RequestTimeout` the ten
seconds after which a spawn that is not answered fails, while the daemon may run it still: its
answer is dropped when it comes, and the terminal is one of the `orphans`; `Stop` is `stopAgent` with
its three sources (entry, handle, PID file); `Die` and `LocalExit` a process and its exit event;
`Connect`, `Disconnect`, `CrashTimerSkips`, `CrashDeclared`, `RestartForgotten` presence and
crash detection; `LinkLost`, `ServerRestart`, `ListPtys`, `Reattach` the losses.

Abstracted: one agent of the claude runtime; configuration files and the lease are the await
between the two halves of a start, which may fail; time is left out, so a timer may fire at
any later moment.

### DaemonWatchdog

| variable | code |
|---|---|
| `pidFile` | `pty-daemon.pid`: nobody, the launcher's reservation, or the PID of a daemon |
| `proc`, `exits` | how far each daemon process has come; exit events the launcher has not handled |
| `child`, `own` | `_currentDaemonChild`; the daemons that this server process spawned |
| `attempt` | each asynchronous attempt (`Boot` is `ensureDaemon`, the others are respawns): its step, the daemon it spawned, which its identity token names |
| `stamps`, `escalated` | `_respawnTimestamps`, `_escalated` |
| `link`, `timer`, `tracked`, `terminal` | the client's connection and reconnect timer; the agent's entry; the daemon that holds its terminal |
| `respawns`, `orphaned` and the counters | history and bounds |

`EnsureDaemon`, `Replace`, `Verify`, `Ready`, `NotReady` are the steps of an attempt between
its awaits; `HandleExit` is the exit handler of a spawned daemon with the budget of the
watchdog (`RecordRespawn`), `ListPtys` and `RestartLost` the recovery of lost agents;
`CheckExisting`, `WritePidFile`, `Listen`, `Crash`, `Hang` the daemon; `HealthFails` and
`TimerFires` the client that finds a daemon hung or gone; `ServerRestart` a server that ends
and starts again with a daemon of its predecessor running.

Abstracted: time is a clock of ticks; the pipe is free exactly when no daemon listens; one
agent stands for all.  The reading shows, and the model has, what no property denies: nothing
respawns a daemon that ended by itself with code 0 or that an earlier server spawned
(`docs/unified-architecture-design.md:921` and `:247` expect it of every end); resetting the
escalation resumes nothing (`router.mjs:706`); a server that ends before its daemon listens
leaves two daemons behind (`orphaned`); overlapping attempts take each other's daemon for an
impostor and kill it.

### CredentialManager

| variable | code |
|---|---|
| `store`, `lock` | `TOKEN_FILE` with `rotation_seq`; `LOCK_FILE` |
| `file` | the agents' `.credentials.json` |
| `call` | each call of `refreshOAuthToken`: waiting for the lock, holding it, after its exchange |
| `round` | the distribution: the next agent and the credentials it carries |
| `status`, `failures`, `retry` | `refreshStatus`, `consecutiveFailures`, `retryTimeout` |
| `issued`, `valid`, `old`, `expiring` | the OAuth server and the clock |
| `unchecked`, `behind` | history: agents written without a look at their row; agents that may lack the newest token |

`TimerFires` (the timer and the API) and `RetryFires` call `refreshOAuthToken`, whose first
part is `Begin`; `LockTimeout` and `Acquire` end the wait for the lock, the latter with the
second look at the store; `Exchange` sends the token that was read BEFORE the wait;
`Refreshed` is the compare-and-swap on `rotation_seq`, `RefreshFailed` the counting of
failures; `Collect` takes a newer token from an agent's file; `DistributeOne` is one agent of a
distribution.  Between two agents the code awaits a module that is loaded already
(`credential-manager.mjs:719`), so nothing of the server runs in between, and a second
distribution does not overtake a first; an agent's own program does, and so does the call that
`startRefreshTimer` has begun just before `init` distributes.  The OAuth server is external: it may rotate the refresh token, keep it, or fail.

Abstracted: an access token is its number of issue, which is the order of its expiry.  Tokens
grow old by hours only when nothing is under way (`Settled`): an exchange takes seconds.
An exchange whose result is discarded loses a rotated token; the properties excuse what a login
does to an exchange under way with `overtaken`.

A distribution fails one agent at a time, and each failure has its own outcome.  A lookup that
throws is logged (`credential-manager.mjs:721`) or ignored (`:714`) and leaves the agent an
ordinary one: a path_a agent is written the refresh token it must not have, an API-key agent
credentials it has no use for, until the next distribution (`unchecked`).  A file that cannot be
read or parsed counts as older than the store (`:804`) and is overwritten, also when it held a
newer token: `FilesNeverGoBack` is refuted.  A write that fails is passed over (`:815`).
`NoneLeftBehind` says that a distribution leaves no other agent with an older token than the
store's, but for those it had passed when it merged a newer token (`creds` is replaced for the
entries after it only), and for all agents once `collectAgentTokens` has merged one: it saves
the token and distributes nothing, so that the others get it with the next refresh or start
(`behind`).

They also excuse, with `setBack`, what a merge does.  `distributeToAgents` and
`collectAgentTokens` take a token of an agent that was newer than the store when they looked,
and write it without looking again (`credential-manager.mjs:499`).  If a refresh has stored a
newer one meanwhile, the store goes back to a token that is about to expire; a call that has
waited for the lock then finds, at its second look (`credential-manager.mjs:313`), a token that
still needs a refresh, and presents the refresh token it read before it waited, which is the
replaced one.  The attempt to prove `NoTokenSpentTwice` found it.  The run's bounds do not hold
it; without the exception, TLC reaches it in 27 steps with two agents that each refresh once, three
calls, a login, a failed exchange and a restart.  The next refresh that is stored ends the
exception.

### CredentialLease

| variable | code |
|---|---|
| `tokenOf`, `age` | signed tokens with their agents hold |
| `usedJtis`, `mintLog` | `usedJtis`, `_mintTimestamps`: lost with the server |
| `rate`, `busy` | tables `credential_lease_rate`, `path_a_busy_agents` |
| `store` | the token store has an access token |
| `holds`, `live` | what each driver believes, and whether it runs |
| `uses`, `mine`, `leased`, `started` | history; the leases on request and those of starts |

Every handler is one action.  The code compares ages with constants only, so the state holds
ages that stop at the largest constant, and time needs no bound.  A restart forgets used
tokens, so a token may buy one request in each life of the server; no route mints agent or
admin tokens for others.  The comment "sliding window" (`credential-lease.mjs:142`) describes
windows that follow one another: up to twice `RATE_MAX` leases lie within one period across
their border, and `LeasesApart` states what the code gives.  It speaks of leases on
request (`GET /api/credentials/lease/:name`).  `startAgent` calls `leaseTokenForAgent` itself
(`process-manager-impl-win.mjs:615`), and with it every start and automatic restart; these
leases pass no counter (`StartLease`), so that all leases of an agent together have no bound
(`AllLeasesApart`, refuted).  `Passed(s, k, w)` says that
the first `k` ages have left a window; `Recent(s, w)` is the rest, which is what the code keeps
(ages are in order, the oldest first).

### TaskBoard

| variable | code |
|---|---|
| `task`, `history` | tables `tasks` and `task_history` |
| `named`, `shown` | `task_id` and `task_status` in the metadata of the source message |
| `linkedState` | tasks that have set their linked field |
| `request` | PATCH requests that have read their task and await the body |
| `told`, `split` | history: creators that were told; tasks created by a server that ended in between |

`PatchBegin` is the read before the body, `Patch` everything after it: the judgement by the
task read earlier, `updateTask` on the row of the moment, the notices and the linked state.
`CreateCut` is a server that ends within the three writes of `createTask`.  Metadata is
encoded twice by a PATCH (`router.mjs:2307`, `db.mjs:1160`), after which the link is unreadable
and a second PATCH with `progress` throws: the values "plain", "linked" and "nested" are what
`JSON.parse` makes of it.  `HistoryReplays` speaks of neighbours among the updates of a field
(`Of`) and of the last one, so that it needs no function on sequences.

The check of a status lets the empty one pass (`router.mjs:2281`), the table has no check of its
own, and `updateTask` writes it, but leaves `closed_at` alone (`db.mjs:1172`).  `Blank` is that
status; `ClosedMeansDone` excepts a task that was done before it got it (`LeftByBlank`).

### PermissionRelay and Permission

| variable | code |
|---|---|
| `permissionFieldCounter`, `field` | the counter behind the names `perm_N`, which every client uses |
| `step`, `post` | where `handlePermissionRequest` and its HTTP request are |
| `pendingPermissions`, `pendingApprovals` | the client's two maps |
| `fields`, `approvals` | the server's rows |
| `stream` | the event stream of each client and the events on their way |
| `answers` | what each session was sent |

`Permission` is the abstract specification: a set of approved requests and their answers,
where only an approved request is allowed and no request gets two verdicts.  `KeepsPromise`
says that the relay implements it (`approved` is mapped to the requests with an approved row);
it is checked as a property of the run and proved for all instances.

A post whose answer is lost is repeated and files a second approval, unless it was the last
attempt, the error is not one that is repeated, or the answer broke off in its body: `apiRequest`
returns the promise of the body without awaiting it (`teammcp-channel.mjs:73`), so its error
passes the retries by and denies the request.  An event that comes
before the answer of the post, or while the stream is closed, is lost; the client's own
interval denies what is 30 minutes old, at whatever point it is.  Not modelled: the short
codes of the WeChat bridge, which pick the first approval that matches.

### WechatBridge

| variable | code |
|---|---|
| `sess`, `polling`, `buf`, `tok` | `session`, `polling`, `getUpdatesBuf`, a usable entry of `contextTokens` |
| `file` | `wechat-token.json`: session, cursor, context token |
| `loginInProgress`, `poller` | the flag, and `pollLoginStatus` of each code |
| `loops` | each `pollLoop`, by the login that started it (0: the start of the server), and the await it stands at |
| `flush` | `_flushInFlight`: what it has still to send, and to drop |
| `queued`, `delivered` | table `notifications` |
| `mail`, `dead` | the service: what the user wrote to which session, sessions that have expired |
| `overlapped`, `done`, `fwd`, `posts`, `sent` | history |

`Answer`, `PollTimeout`, `PollFailed`, `PollExpired` are the four ends of the request of
`pollLoop`; `AckedText` and `AckedCommand` the acknowledgement of a message and what follows it;
`Replied`, `ReplyFailed`, `ReplyExpired` the answer to a command, which is posted as well; a start
or stop whose answer fails answers a second time, that it failed, and this one nothing catches
(`AgainFailed`);
`AckedUnbound` the same without a session; `Woken` the end of the pause after an error.
`QueueNotification` is `saveNotification` with its event, `NotificationSent`,
`NotificationAborted` and `NotificationFailed` one post of `flushPendingNotifications`: `apiPost`
returns null for a post that it gives up after 15 seconds (`wechat-bridge.mjs:79`), nobody looks at
it, and the notification is marked delivered (`aborted`; `MarkedMeansSent` is refuted).  `StartLogin`, `LoginOver`,
`LoginGone`, `Confirmed` are the login, `DisconnectAndLogout` unbinds, `Restart` reads the file.
`UserWrites` and `ServiceExpires` are the service, as the code uses it: a cursor is a position,
the answer holds the messages of the session behind it, and a session that has expired answers
with error -14.  `TokenAges` is the 23rd hour without a message.

Abstracted: which text is which command, so that every message may be either; the answer to a
command that is aborted is one that came back.  Not modelled: media and
files; pushes that do not use the queue (`index.mjs:577`, forwarded direct messages), which may
send an approval of the Chairman a second time; notifications for anyone but the Chairman, which
nothing delivers.

## Runs

Passing runs check what should hold; a violation run states one promise of the repository's
documents or comments that the code does not keep, and its counterexample shows why.

| run | bounds | shows |
|---|---|---|
| `shared_state` | 1 project, 2 fields, 1 value, 4 log rows, 1 approval; an agent, the CEO, the Chairman, each owner of what they create; 2.7 M states | `LogReplaysToState`, `ApprovalsAppliedOnce`, `OptimisticWritesHold`, `ChangesAnnounced`, `AuditTrailGrows` |
| `push_modes` | a group of three, one sender, 2 messages, both push modes, urgent and mentioning sends, `MAX_BATCH_SIZE` 2; 545 k states | `PushesNotDropped`, `DeliveredInTheEnd` |
| `dm_read_markers` | a pair that both send, 3 messages, both push modes, 2 streams, inbox, all limits 1 or 2, one crash; 3.0 M states | `ReadMeansReceived` |
| `pty_link` | credit 3, queue 2, chunks of 1–2, 7 bytes, 2 lost connections or handshakes, 1 restart | `CreditConserved`, `AcksCovered`, `StreamIntact`, `StallsEnd`, `ReconnectsInTheEnd` |
| `agent_lifecycle` | both spawn modes, 2 concurrent calls, 2 processes with 2 streams each, auto-restart, 1 lost connection or timeout, 1 restart; 4.5 M states | `CrashTimerMeansOffline`, `LossIsWatched`, `OnePty`, `StopReaches` |
| `daemon_watchdog` | 5 daemons, 2 respawn attempts besides the start, budget 2, window 1, 2 crashes or hangs, 1 restart, 2 ticks | `RespawnsApart`, `OneChild`, `PidFileNamesDaemon`, `Repaired` |
| `credential_manager` | 3 agents (path_a, API key, OAuth), 2 calls, 1 login, 1 refresh by an agent, 2 faults; 1.8 M states | `NoTokenSpentTwice`, `LoginReallyRequired`, `RefreshTokensInPlace`, `NoneLeftBehind`, `LoginKept`, `RefreshedInTheEnd` |
| `login_undone` (violation) | 2 calls, 1 login | `LoginNotUndone` |
| `credential_lease` | 1 agent, 2 drivers, 3 tokens, all limits 1–3, 1 lease of a start, time without a bound; 1.36 M states | `TokenUsedOnce`, `MintsApart`, `LeasesApart`, `LockKept` |
| `task_board` | 2 tasks of 1 message, 2 statuses and the empty one, 2 requests at once, 2 updates, a manager and an assignee or none; 776 k states | `HistoryReplays`, `MessageNamesTask`, `ClosedMeansDone` |
| `permission_relay` | 2 clients, 2 requests, 2 approvals, 2 attempts of a post; 1.26 M states | `KeepsPromise`, `AnsweredInTheEnd` |
| `wechat_bridge` | 3 notifications of 2 tasks, 2 logins, 1 message, 1 failed or aborted request or expired session, 1 restart; 338 k states | `SentOnce`, `DeliveredWasSent`, `HandledOnce`, `NotifiedInTheEnd` |

Why the bounds are enough for what they are for:

* `shared_state`: four log rows hold a creation, a change that follows it, an approval (two
  rows) - or a batch of two items after two earlier rows, rolled back in the middle.  One value
  suffices because a version tells two writes apart.  Fields that a request creates for another
  owner were checked too (7.1 M states).
* `push_modes`: two messages fill a buffer of `MAX_BATCH_SIZE` 2, race its window timer with
  an urgent flush, and stagger over two recipients.
* `dm_read_markers`: three messages are one more than what is short (2), so that a replay and an
  inbox answer are summaries, and one more than the queries fetch; two of them overlap, and one
  may wait while a later one moves the marker.  An answer shows one and calls two quiet, as the
  routes show 10 and call 20 quiet.  Replays push 0 to 2.  A group of three was checked too,
  with two messages (8.8 M states).
* `pty_link`: seven bytes are more than twice the credit, so the terminal is paused, resumed
  and paused again; with chunks of two bytes the credit is also left at one, too little for
  the next chunk; the late chunk fills the queue while paused; two losses let a second
  connection fail while the first one's bytes have leaked.
* `agent_lifecycle`: a lost connection and a timeout share one bound, which either uses up; two
  processes and two calls are what a late event needs to hit the wrong one.
* `daemon_watchdog`: two attempts overlap and probe each other's daemon; five daemons are the
  first one, one for each attempt of both servers; two crashes and two ticks use up the
  budget, let the window pass and use it again.
* `credential_manager`: two calls overtake each other, and one of them may begin inside a
  distribution; three agents are one of each kind of authentication, so that a distribution has
  passed one of the two that get credentials when it meets the other's newer token.  Two faults
  are a failed lookup and a restart in the middle of the distribution that would mend it.
* `credential_lease`: with a window of two and limits of one and two, an entry expires while
  the next one still counts; three tokens are one more than the mint limit; one lease of a start
  is what passes the counter by; two drivers suffice for a late heartbeat that meets the row of
  another.
* `task_board`: a second task of the same message needs the first one deleted; two requests
  that both read before either writes are every stale read there is; two updates take a task
  from done to the empty status and to another one.
* `permission_relay`: two requests at two clients have the same field, two at one client
  follow one another; two approvals belong to two requests or, after a lost answer, to one.
* `wechat_bridge`: of three notifications two share a task, so that a flush has one to send, one
  to drop and one in between, and one fault is a post that fails or is aborted at any of them; a
  second login is what a loop of the first one can overlap with; one message suffices because
  nothing in the loop but its order tells two apart.

The runs of `SharedState`, `Delivery`, `CredentialLease` and `TaskBoard` check for deadlock.
The others do not: the system may come to rest there, for instance when the agent has exited,
every request is answered, or the bounds on losses and restarts are used up.

Every module states its type invariant.  All are proved (`TypeCorrect`, `DeliveryTypes`) but that
of `TaskBoard`, which was checked on the same instance while the module was written; the
invariant of its proof holds what it needs of the types.

## Fairness

Weak fairness is assumed of what the event loops do by themselves, and of nothing else.

* `Delivery`: the handler of a send goes on (`Injected`: memory injection has a timeout and
  falls through), timers fire (`TimerFires`, `FlushBatch`).  Clients need not connect, send,
  pull or acknowledge.
* `PtyLink`: both processes handle what arrives (`HandleAck`, `Receive`, `ReceiveExit`,
  `Closed`, `SessionEnds`), the reconnect timer fires, a handshake with a daemon that is alive
  is answered (`HandshakeOk`; it may fail `MaxLosses` times before), the start of the server
  goes on.  Nothing makes an agent print, a connection break or a server restart.

* `DaemonWatchdog` (`Repaired`): an attempt goes on and a daemon boots, exit events are
  handled, the reconnect timer fires, a failing health check is noticed.  Crashes, hangs,
  restarts, the agent and whoever resets an escalation are under no obligation.
* `CredentialManager` (`RefreshedInTheEnd`): the timers fire, a call and a distribution go on,
  a lock file grows old.  Nobody must log in, and an agent need not refresh by itself.
* `PermissionRelay` (`AnsweredInTheEnd`): the client's own interval denies what is too old, and
  that alone is assumed: neither server nor network nor approver owes an answer.
* `WechatBridge` (`NotifiedInTheEnd`): every post and every poll comes back (`apiPost` has a
  timeout, `NotificationAborted` is its end), the pause after an error ends.  Nobody must log in, write or unbind, and no
  particular poll must succeed.

`SharedState`, `AgentLifecycle`, `CredentialLease` and `TaskBoard` are checked for safety only.

## Proofs

Every safety property and every action property of a passing run is proved.  The `TypeCorrect`s,
`DeliveryTypes`, `DirectWritesOwned`, `PausesAreForCredit` and `LockExcludes` state what has no run of its own:
TLC checked it on the same instances before it was proved.

The theorems hold for every value of the constants that satisfies the named assumptions:
any number of projects, fields, agents and values; any credit, chunk size and number of losses;
any number of processes, streams, calls and restarts.  The assumptions are those a deployment
meets: agents are distinct from the system writer and from `NULL`, bounds are natural numbers,
a chunk is no larger than the initial credit, and fewer chunks arrive after `pause()` than the
queue holds.

### Tables_proofs: the shared state

`TypeCorrect`, `LogReplays` (`LogReplaysToState`), `AuditTrailAppendOnly` (`AuditTrailGrows`).

That the log agrees with the tables is not inductive: a rollback puts older tables back.  The
invariant `LogInv` adds that while a batch runs the pair it would restore agrees as well, and
that the restored log is a beginning of the live one.  Each write path reduces to one lemma
about appending one row with the next version to a log that agrees; approving appends two.
The action property follows from the same invariant: outside a batch the log only grows,
inside one the committed log is the snapshot, and a rollback returns exactly to it.

`DirectWritesOwned` (`DirectWritesAreOwned`), `ExpectedVersionsHold` (`OptimisticWritesHold`),
`ApprovalsApplied` (`ApprovalsAppliedOnce`), `EveryChangeAnnounced` (`ChangesAnnounced`).

All four speak of rows of the log, and a batch may put an older log back.  `WritesInv` therefore
says them twice (`RightRows`): of the live log, and of the log that a rollback would restore.
Per row it says that the change was announced (`Announced`), that a named version was the one
replaced (`Expected`), that a direct write is the owner's (`Owned`) and that the approval it
claims was granted (`Granted`); over the log, that each granted approval has a row
(`AllApplied`) and no two rows claim the same one (`AppliedOnce`).  It is inductive because the
owner and the approval rule of a field never change once it has a row, an approval that was
granted stays as it is, and events are never taken back; inside a batch approvals are only
filed, so that those a rollback removes were not granted.

### Tables_proofs: the task board

`HistoriesReplay` (`HistoryReplays`), `MessagesNameTasks` (`MessageNamesTask`), `ClosedAreDone`
(`ClosedMeansDone`).

`BoardInv` adds to the three what a request may rely on when its body comes: it has read a task
that exists (`Begun`), and a task that was never created has no history (`Unmade`).  Nothing
else of what it read needs to be true any more, because `updateTask` takes the old values from
the row of the moment.  `ChainGrows` is the fact about sequences behind `HistoryReplays`: an
update whose old value is the one of the row continues the chain of its field, and one that
leaves the field out leaves the chain as it is.

### Tables_proofs: delivery

`PushesArrive` (`PushesNotDropped`), for a dm or a group of any size in either push mode.
`PushInv` says that a handler that waits has its row, so that a new message takes no other
handler's place; `PushKeeps` that neither push path takes anything from a timer or from a
buffer without writing it to the stream, `PushReaches` that the one recipient of a push
gets it or has it in the buffer.

`DeliveryTypes` (`DeliveryTypeOK`): the lemmas `UnreadRows` and `MaxOfRows` say that what the
queries return are rows that exist, and that the marker a replay or an inbox answer names is one
of them.

`ReadsAreReceived` (`ReadMeansReceived`), for every channel and every value of the limits, with
no hypothesis of its own; the three exceptions are in the property (`excused`).  `ReadInv` calls a
message `Covered` for an agent that sent it, got it, was told of it in a summary, is excused, or
is connected while its push is in flight, and says that every message is covered that lies
behind the agent's marker (`MarkedCovered`), behind an inbox answer that may still be
acknowledged, however late, unless the answer left it out (`PulledCovered`), and for an agent
with a stream every message there is (`OnlineCovered`).  The last part is what makes the first one
inductive: a send that pushes to somebody with a stream moves the marker past everything older.  `CoveredStays` is the lemma on
steps that move no stream; `StreamsEnd` shows that what a stream or a server takes with it is
excused exactly when it is marked, or will be by an answer the agent holds (`Ahead`);
`SendRead`, `ConnectRead` and `InboxRead` are the actions that move the marker.

### PtyLink_proofs

`TypeCorrect`, `CreditIsConserved`, `AcksAreCovered`, `StreamIsIntact`, `PausesAreForCredit`.

The invariant `LinkInv` adds to the properties that the queue is gapless - each chunk begins
where the one before ended, and the last one ends at `read` - so that the bytes of a prefix of
it are a difference of two positions, and that an open connection is below the limit of failed
pings.  The drain loop of `ackAgent` is modelled by the number `k` of chunks it
sends (`Covers`): `k` chunks fit into the credit and `k + 1` do not.  The lemmas about `First`
turn that into arithmetic, and `PausesAreForCredit` is what the loop leaves behind.

### AgentLifecycle_proofs

`TypeCorrect`, `TimersAreForOffline` (`CrashTimerMeansOffline`), `LossesAreWatched`
(`LossIsWatched`), `OnePtyPerAgent` (`OnePty`), `StopAlwaysReaches` (`StopReaches`).

`AgentInv` has two halves.  `PresenceInv`: the two presence properties, and that a stop settles
an outage that crash detection was watching.  `DaemonInv`, for
terminals in the daemon: the running process is the one the daemon holds, and the newest;
the PID file names it or its answer is on the way (or was lost); and, what makes this
inductive, whenever an exit event or an older answer is still unread in the connection, the
answer of the running process comes after it.  The last part says that a late event can make
the server forget the running process only before it learns of it.

### DaemonWatchdog_proofs

`TypeCorrect`: the three invariants below, and `RestOK` for what they do not speak of.
`RespawnsAreApart` (`RespawnsApart`): the invariant `BudgetInv` says that the watchdog's
timestamps are the end of the history of respawns and that what it has forgotten is older than
the window; a respawn beyond the budget would need a forgotten one within it.

`OneChildLives` (`OneChild`): `LaunchInv` says that of a server's own daemons one lives, or one
exit event is left to handle, or neither; and that the start of a server has spawned nothing
before it reserves the PID file.  Every step of an attempt reduces to one lemma about steps
that end at most one daemon and spawn none; the two steps that spawn do so only where the
invariant says that neither a daemon nor an event is left.

`PidFileStays` (`PidFileNamesDaemon`): the exit handler and each attempt remove the PID file of
the daemon they believe to be gone, and attempts overlap, so the question is whose name they remove.
`FileInv` says that, unless a server left a booting daemon behind (`orphaned`), one daemon lives
at most, the file names it from its write to its end, and a server that has spawned a daemon has
no other (`Alone`); and which daemon a step of an attempt may speak of (`ChildOK`).  The
proof shows the property of every moment, not only of a server at rest; it says "at rest"
because the daemon's end takes time after the kill that the model makes one step.

### CredentialManager_proofs

`TypeCorrect`, `LockExcludes` (one call at a time between the lock and its answer),
`NotSpentTwice` (`NoTokenSpentTwice`), `LoginRequired` (`LoginReallyRequired`), `TokensInPlace`
(`RefreshTokensInPlace`), `LoginStays` (`LoginKept`), `ServesAll` (`NoneLeftBehind`).

None of them is inductive.  `IInv` has six parts beside the types.  `TokenOrder` orders tokens
by their issue: nothing is newer than the last one, and an answer under way is newer than every
token that is hours old.  `LockHeld`: whoever is past the wait is the one that the lock file
names.  `SpentTokens` is the heart: a token whose successor is stored is neither valid nor in
the store nor in an answer on its way to it, and a call that still waits with one will find,
under the lock, a token in the store that is young enough to end it - unless a merge has set the
store back.  `DeadTokens` adds that without a login in between a call presents the token of the
store, so that a refusal tells something of it.  `PlaceInv` follows refresh tokens through
agents' files and distributions, `LoginInv` the login that each of them stems from.  `Served` says
of a distribution under way that it carries what the store holds and that the agents it has
passed have it, and so do all between two distributions, but for those in `behind`.

### CredentialLease_proofs

`TypeCorrect`: the four invariants below, and `Others` for what they do not speak of.
`TokensAreUsedOnce` (`TokenUsedOnce`): `TokenInv` says that the entry of a used token is never
older than the token, so that it outlives it whenever `TOKEN_TTL_MS <= JTI_EVICTION_MS`.
`LocksAreKept` (`LockKept`): `LockInv` adds that a driver whose belief a revocation has
overtaken is marked as such, which is what a restart of the server does not change.

`MintsAreApart` (`MintsApart`) and `LeasesAreApart` (`LeasesApart`) are about windows of time.
`MintInv` says that each token of the window that this server minted has an entry of its own, of
its age, in what the server remembers; the limit on the entries is then one on the tokens.
`LeaseInv` splits the leases of the window (`Booked`): those before the row's window began are
no more than the limit, and the others are counted in the row.

### PermissionRelay_proofs

`RelayKeepsPromise`: every step of the relay is a step of `Permission` or leaves its variables
alone.  The invariant `RelayInv` (`RelaySafe`) says that the two maps agree, that an approval a
client knows is one the server filed for that request, that an answer in flight fits its post,
and that an entered request is unanswered; an answer "allow" then comes from an event that was
sent for an approved row of the same request.  `TypeCorrect` adds the counters (`Counts`).

### WechatBridge_proofs

`TypeCorrect`: the two invariants below, and `FlagsOK` for what they do not speak of.
`NotificationsAreSentOnce` (`SentOnce`), `DeliveredWereSent` (`DeliveredWasSent`): `QueueInv`
says that what is not delivered has not been posted, but for the one notification a flush waits
for, and that whatever a flush means to drop is superseded by something it sent or will send
before.  That the newest notification of a task is among those to send is an argument about
largest elements, which rests on the well-founded order of the library.

`MessagesAreHandledOnce` (`HandledOnce`): `MessageInv` says that as long as no two loops have
overlapped, everything a session's messages have had done to them lies at or below the cursor in
memory, the one in the file and the one of the request under way; that the batch in hand lies
below the first two and is untouched, except for the command that is being answered; and that
nothing names a session before its code is confirmed.

### What is model-checked only

* Liveness (`DeliveredInTheEnd`, `StallsEnd`, `ReconnectsInTheEnd`, `Repaired`,
  `RefreshedInTheEnd`, `AnsweredInTheEnd`, `NotifiedInTheEnd`): fairness and ENABLED are out of
  the prover's reach.
* The types of `TaskBoard`: its updates are counted by operators of the libraries that are
  defined by recursion.
* No module that is proved about declares a RECURSIVE operator (the prover gives up its SMT
  backend there), and facts that need induction over data are avoided: loops are modelled by
  the outcome that their exit condition fixes.

## Findings

One run expects a violation; `PROJECT.json` quotes the promise that it refutes.  A login while
an exchange is under way resets `rotation_seq` to the value that the exchange compares with, and
is overwritten (`credential-manager.mjs:653`; `login_undone`).

These statements stand in the modules without a run of their own; TLC refutes each of them
within a few steps when it is added to the configuration that is named:

| statement | module, configuration | what the code does |
|---|---|---|
| `AnnouncedChangesHappened` | `SharedState`, `MCSharedState` | a batch that is rolled back has already announced its earlier items (`db.mjs:1520` against `db.mjs:2169`) |
| `ProtectedFieldsConfirmed` | `SharedState`, `MCSharedState` with two values | a task link changes an approval-required field without an approval (`router.mjs:2369` against `db.mjs:1473`) |
| `FilesNeverGoBack` | `CredentialManager`, `MCCredentialManager` | a distribution that cannot read an agent's file overwrites it, also with an older token (`credential-manager.mjs:804`) |
| `AllLeasesApart` | `CredentialLease`, `MCCredentialLease` | the leases of starts are not counted (`process-manager-impl-win.mjs:615`) |
| `MarkedMeansSent` | `WechatBridge`, `MCWechatBridge` | a post that is aborted after 15 seconds is taken for one that was sent, and its notification marked delivered (`wechat-bridge.mjs:79` and `:790`) |
| `OutputResumes` | `PtyLink`, `MCPtyLink` without losses | output sent while no server listens spends credit for good, and an agent may stay paused after a restart (`pty-daemon.mjs:930` against `docs/unified-architecture-design.md:300`) |
| `Resubscribed` | `PtyLink`, `MCPtyLink` without restarts | after a reconnect the client does not subscribe again (`pty-daemon-client.mjs:624` against `docs/unified-architecture-design.md:687`) |
| `NoFalseAlarms` | `AgentLifecycle`, `MCAgentLifecycle` | an agent that is stopped, started again and not yet connected when the old timer fires is reported as crashed (`process-manager-impl-win.mjs:162` against `README.md:228`) |
| `StaleLockReclaimed` | `CredentialLease`, `MCCredentialLease` under `FairSpec` | over a stale row the insert of `busyAcquire` violates the primary key, and the update that would reclaim it is not reached (`credential-lease.mjs:403` against `:371`) |
| `LostAgentsRestart` | `DaemonWatchdog`, `MCDaemonWatchdog` with one crash and no restart | agents lost with the daemon are restarted through `startAgent`, which refuses every agent that still has an entry; the lost ones are exactly those (`index.mjs:197` against `:186`) |
| `NeverOlder` | `WechatBridge`, `MCWechatBridge` | superseded notifications are marked at the end of a flush only: if a later post of it fails, the next flush sends the older one after the newer (`wechat-bridge.mjs:794` against `:797`) |
| `OwnSessionEnds` | `WechatBridge`, `MCWechatBridge` | a loop that comes back from a request of an expired session ends the session of a login made meanwhile (`wechat-bridge.mjs:744`) |
| `CommandsNotForwarded` | `WechatBridge`, `MCWechatBridge` | a command whose reply fails is forwarded as a message of the Chairman as well (`wechat-bridge.mjs:731` against `:729`) |
| `CompletionTold` | `TaskBoard`, `MCTaskBoard` | a task reopened between the read and the body is completed without a notice (`router.mjs:2339`) |

Some properties hold with an exception that the model names: `ReadMeansReceived` has the three of
`excused` (a message marked read on its way to a stream that ends, `router.mjs:1002` against
`README.md:37`; a send without a stream; an answer or replay that shows less than is unread,
`router.mjs:1276` against `README.md:196`); `ClosedMeansDone` a task that the empty status took from
"done" (`LeftByBlank`); `RefreshTokensInPlace` agents whose row was not found when they were last
written (`unchecked`); `NoneLeftBehind` agents that a merge or a failed write passed by
(`behind`); `DeliveredWasSent` posts that were aborted (`aborted`); `StopReaches` excepts terminals
whose spawn answer was lost with the connection or came after the timeout of the request
(`orphans`), `StallsEnd` asks that no more
credit leaked than leaves room for one chunk, `LoginReallyRequired` and `LoginKept` except a
login that was completed while an exchange was under way (`overtaken`), and `HandledOnce` a
second polling loop, which a login starts that follows an unbinding within the 42 seconds of a
request (`overlapped`).  `NoTokenSpentTwice` and `LoginReallyRequired` except a store that a merge
has set back (`setBack`): without the exception a replaced refresh token is presented again
(`credential-manager.mjs:499` against the second look at `:313`).  A refresh counts as refused for
good also when the OAuth server refuses the client and not the token
(`credential-manager.mjs:248`), which the model's OAuth server does not do.

## Not modelled

* In the modelled components: several channels at once (of those that share the replay limit the model has what they leave), edits and
  deletes, offline notices (`Delivery`); v1.0 clients, keyboard input, scrollback, several
  agents (`PtyLink`); the mac, linux and codex variants, `agents.status` (`AgentLifecycle`);
  subscriptions and reports (`SharedState`); two servers at once, the published escalation,
  whose write throws because its arguments are in one object (`DaemonWatchdog`); stores without
  a refresh token, failing writes of the token file, the pending login sessions
  (`CredentialManager`); names and signatures of tokens, owners of files (`CredentialLease`);
  wording and recipients of notices, reading and sorting (`TaskBoard`); the tools of the client,
  each one an HTTP call, and its filter of messages (`PermissionRelay`); texts, media, direct
  pushes and the stand-alone bridge (`WechatBridge`).
* Ties of `created_at`: rows are taken to have distinct timestamps.
* Retention: an hourly sweep is one synchronous call that the flag for deletions brackets in a
  `finally`; the audit log it shortens is the one of `SharedState`, whose theorems speak of a
  program without sweeps.  The watchdog of the sweeps is started by hand only.
* Schedules: a due schedule is fired before its next run is stored (`index.mjs:499`), and a
  time written with "T" compares with one written with a space as text; nothing runs
  concurrently with the loop.  The checks for overdue tasks (`index.mjs` 350–493) are called by
  nothing.
* The fallback state machine of terminals: no module of the server creates one.
* Components without state of their own, or whose subject is text and ranking: memory engine,
  dashboard, integrations, scripts, probes.
* Checks of files and frames that are one computation: tokens, access control, frame parsing.

## Plan

Done in the order of the first plan: what runs agents and can lose them (`AgentLifecycle`,
`PtyLink`, `DaemonWatchdog`), what guards shared credentials (`CredentialManager`,
`CredentialLease`), the task board, the permission relay with its abstract specification, the
WeChat bridge.
What is left, in order of worth:

| module | code | hard part | properties |
|---|---|---|---|
| `Delivery` extended | `sse.mjs` 563–745, `mcp-client/teammcp-channel.mjs` | two channels that share `MAX_TOTAL_PUSHES`, the client's deduplication of what is pushed twice | what one channel's replay leaves the other gets next |
| `AgentLifecycle` with `DaemonWatchdog` | both | entries of agents over a respawn of the daemon | a lost agent is restarted or reported |
| `PermissionRelay` with `WechatBridge` | both | short codes of approvals, the first match wins | a code answers the approval it was sent for |
| `Retention` | `retention.mjs`, `retention-watchdog.mjs` | the sweep flag over a failure, a rollback under way while the watch is restarted | the log keeps its suffix; a watch that runs has its timers |

Abstract specifications worth stating next: a credit channel (`PtyLink`), one terminal per agent
with presence and outage (`AgentLifecycle`), a versioned register with an append-only history
(`SharedState`).  Theorems worth proving next: that these
modules implement them.
