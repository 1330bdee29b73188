# Formal model of NodeLite

NodeLite monitors servers. An **agent** on every node keeps a WebSocket to the
**server**, sends metrics and logs and receives its session tokens; the server
shows the nodes to **browsers**, keeps a history, raises alerts, and shares a
registry file of node tokens with an operator **CLI**. This directory models
the parts whose correctness depends on interleaving, ordering, failure and
bounds, checks the models with TLC and proves their main invariants with TLAPS.
Paths below are relative to `src/nodelite-server/src/` unless they begin with
`nodelite-` or `web/` (`src/nodelite-server/web/`).

## 1. Inventory

| Component | State | Operations | Interacts with |
|---|---|---|---|
| Runtime registry (`state.rs`, `state/registry.rs`) | one entry per node under a read-write lock: status, `active_session_id`, control handle; an atomic session counter | `register_node`, `attach_session_control`, `update_snapshot`, `update_latency`, `mark_disconnected`, `mark_stale`, `session_control` | every agent session, the stale reaper, HTTP |
| Agent session (`ws/handshake.rs`, `ws/session.rs`, `ws/refresh.rs`) | session id, cached token generation and registry revision, control channel | hello and authorization, the frame loop, ping tick, commands, disconnect | runtime registry, token registry, agent |
| Session control (`state/session_control.rs`) | a channel of capacity 8 and a `refresh_pending` flag per session | enqueue with a permit, drop of the permit | HTTP refresh requests, sessions |
| Token registry (`registry.rs`, `registry/*.rs`) | JSON file with a version; a copy in memory with a revision; the fingerprint of the last reload | authorize, token check, refresh, consume, issue, reload, poll | sessions, install requests, CLI processes, background poll |
| Alert runtime (`alerts/*.rs`) | tracker of active alerts, inspection dates, delivery queue of 1024, result queue | tick: results, evaluation, enqueue, inspection; dispatcher | runtime registry, settings, deliveries |
| Delivery (`alerts/delivery*.rs`) | none that outlives a delivery | webhook attempts, SMTP dialogue, retries | mail server, webhook |
| View cache (`state/view_cache.rs`, `state.rs`) | revisions and one cached body per view, build locks | bump, cached read, build, store | registry writers, HTTP reads |
| Browser push (`ws/browser.rs`) | dirty flag and last sent rows per session | initial state, debounced differences, resynchronisation | broadcast of the registry, web page |
| Web page (`web/src/ws/client.ts`, `web/src/stores`, `DashboardView.vue`) | socket, connection state, timers; rows and totals with a time stamp | connect, retry, heartbeat, visibility; apply messages, REST fallback, mount and unmount | browser push, HTTP reads |
| History store (`history.rs`, `history/*.rs`) | throttle per node, channel, batch, SQLite table | record, flush, prune, query, drain | sessions, HTTP, shutdown |
| Audit log (`audit/*.rs`) | channel, batch, SQLite table | record, flush, query, prune, drain | HTTP, shutdown |
| Snapshot file (`snapshot.rs`, `startup.rs`) | file, temporary file, checkpoint | periodic write, final flush, load | runtime registry, shutdown |
| Agent log store (`agent_logs.rs`) | 16 shards of ring buffers, global counters | record, global eviction, forget, query | sessions, background |
| Admission (`admission.rs`) | connection counts, failures and blocks per address | acquire, release, record failure, sweep, cut | WebSocket and HTTP entry points |
| Login and settings (`auth.rs`, `handlers/auth_routes.rs`, `handlers/settings/*`) | sessions, used one-time codes, configuration file and running copies | login, 2FA, edits in several steps under no common lock | alert runtime, HTTP |
| Install route (`handlers/install.rs`) | failures and blocks per address | check, consume, answer | token registry, audit log |
| Agent (`nodelite-agent/src/session.rs`, `config_io.rs`) | token in memory and on disk, log buffer, backoff | connect, hello, ship logs, take over a token | agent session |
| Collectors and sanitising (`nodelite-agent/src/collector*`, `sanitize.rs`) | counters of the last sample; anomaly window of a session | sample, rates, list disks; repair a report, cut a session | agent, agent session |
| Wire types, configuration parsing, pages, load test | none that outlives a call | conversions | |

What makes the parts correct, and what makes that hard:

* **Runtime registry.** One session owns a node; a superseded or reaped session
  changes nothing any more; an online node always has a task that will take it
  offline. Hard because ids are drawn before the lock is taken, because
  registering and attaching the control handle are two lock periods, and
  because the reaper, late messages and late disconnects interleave.
* **Session control.** A permit is held by one command and survives none.
  Hard because senders are cloned, receivers are dropped with commands in them,
  and HTTP clients give up while their command stays queued.
* **Token registry.** A file operation is atomic although it is prepared without
  a lock; memory catches up with the file; the lock-free check on every message
  is sound. Hard because up to four kinds of processes copy the file to memory,
  in three steps of their own each.
* **Alert runtime.** No all-clear without an alarm, no alert that falls silent,
  one inspection summary a day. Hard because deliveries end late, in any order,
  or not at all, while the queue is bounded and the settings change. **Delivery**:
  what counts as delivered has reached everybody.
* **View cache, browser push, web page.** What is served is not older than its
  request, and a browser converges to the registry. Hard because revision, body
  and store are separate moments, signals get lost in a full channel, and a
  socket can die unnoticed.
* **History, audit log, snapshot.** What was accepted is written, a query sees
  what was recorded before it, a file is whole whenever the process dies. Hard
  because of batches, failing transactions and the order of a shutdown.
* **Log store, admission.** Counters match contents and permits, blocks last.
  **Login.** A code serves once. **Settings.** File and running copy agree.
  **Agent.** It keeps a usable token, and hands over each log line once.
  **Collectors.** A rate is traffic, a row is what an ordinary host has reported,
  and only frequent repairs end a session.

`PROJECT.json` lists every hazard with its line and the properties that cover it.

## 2. Modules

| Module | Models |
|---|---|
| `NodeOwnership` | abstract: a node has at most one owner, a session owns once, data comes from the owner |
| `SessionRegistry` | runtime registry, sessions, reaper, live-refresh requests |
| `MCSessionRegistry` | symmetry of the connections |
| `AtomicRegistry` | abstract: rotate, issue, consume and prune as atomic steps |
| `TokenRegistry` | registry file, memory copy, poll, token rotation and the hot path |
| `AlertRuntime` | alert tracker, inspection, queue, deliveries as tasks |
| `NodeViews` | rows of the nodes, revisions of the views, dirty signals |
| `ViewCache`, `BrowserPush` | HTTP requests of cached bodies; sessions of `/ws/browser` |
| `ViewClients` | the two composed over the same rows |
| `WebClient`, `Dashboard`, `WebPage` | the page: its socket, its stores, and both composed |
| `MCViews` | chooses which kind of readers is active, and states fairness |
| `HistoryStore`, `AuditLog`, `SnapshotFile`, `AgentLogStore` | one module per store |
| `MCStorage` | chooses which store runs |
| `AuthFailures` | the table of failures and blocks, as operators |
| `Admission`, `Install`, `PanelLogin` | three users of that table; sockets, install requests, login |
| `PanelSettings` | edits of the configuration, on the state of `PanelLogin` |
| `AgentSession`, `Collector`, `Reports`, `Delivery` | agent loop, network rates and disks, sanitising, one delivery |
| `MCServices` | chooses which of these eight runs |
| `SessionRegistry_proofs`, `TokenRegistry_proofs`, `Alert_proofs` | proofs about the module of that name |
| `Views_proofs`, `Storage_proofs` | proofs about `ViewClients` and `MCViews`, and about `MCStorage` and the stores |
| `Access_proofs` | proofs about admission, installation, login and settings in `MCServices` |
| `Services_proofs` | proofs about agent, delivery, collector and reports in `MCServices` |
| `Counting_proofs` | lemmas: how often a value occurs in a sequence, sums over finite sets |

Operators whose comment calls them faulty, and whose name says what was
forgotten (`MarkDisconnectedOfAnySession`), are variants of the definition after
them. No action uses them. For every property of a passing run `PROJECT.json`
names one such variant (`mutants`), and TLC finds the property violated once the
definition is replaced by its variant.

Some components share no state with each other. `MCStorage`, `MCServices` and
`MCViews` put them into one specification with a variable (`part`, `clients`)
that says which of them runs in a behaviour; the others keep one initial state.
The states of such a run are the sum of those of its parts, and nothing is lost,
since no step of one part can disturb another.

### 2.1 SessionRegistry

State: `active`, `online`, `control`, `age`, `source` are the fields
`active_session_id`, `status.online`, `session_control`, `last_seen` and
`snapshot` of a node's entry. `nextSessionId` is the atomic counter. Per
connection, `pc`, `node`, `sid` follow the session's task; `queue`, `pending`,
`serving` are its control channel, the `refresh_pending` flag and the command it
executes. `request` and `target` follow an HTTP refresh request.

Every method of `SharedState` holds the registry lock once and is one action;
between two methods anything may happen. `TakeSessionId` and `RegisterNode` are
two actions since the id is drawn before the lock. `LeaveLoop` is what every way
out of the session loop does: the receiver is dropped with the commands in it,
so their permits return and their requests end. A connection starts authorized:
before that it has no effect on this state. A restart restores entries offline,
which is the initial value. Agent logs and refreshes requested by the agent do
not touch this state and are left out, as are payloads.

`NodeOwnership` is the specification it implements: the owner of `n` is the
session whose id is `active[n]`, a session is `spent` once it has registered,
and `shown` is `source`. `Take` needs a session that has not been an owner
before, so a superseded or reaped session can never regain its node.

### 2.2 TokenRegistry

A token is a node and a generation, a file a version, the generation per node
and the generation a pending install session holds. Four kinds of processes
share one program counter per process: sessions that rotate their own token,
install requests that consume, CLI processes that issue, and the poll.
`Prepare`, `Commit` and `Conflict` are `mutate_registry_file`: read and modify a
copy, compare the version under the file lock, rename, or start over. `Stat`,
`Load`, `Replace` and `Mark` are the reload, whose fingerprint, content,
replacement and checkpoint are separate moments in the code. `Apply` is a
consume that stores its own copy. `BeginVerify` and `FinishVerify` are the two
rounds of `authorize`; `CheckToken` is the hot path; `SendToken` and `SendFails`
are the hand-over of a rotated token. Install sessions expire at any time: each
operation prunes an arbitrary set `S` of them.

`overlapped` and `selfRotated` are history variables, which restrict the two
properties that do not hold without a condition (section 4).

### 2.3 AlertRuntime

An alert is a rule on a node; which alerts match is up to the environment. `pc`
walks through a tick: drain the results, evaluate, enqueue, inspect. `active`,
`delivered`, `resolved` and `wait` are the tracker's entries, with
`last_notified_at` turned into the ticks that are left. `lastSent`,
`pendingDate` and `failWait` are `InspectionDispatchState`. `queue`, `tasks` and
`results` are the delivery channel, the running tasks and the result channel;
tasks end in any order, well or badly. Operators switch alerting, rules and the
inspection at any moment.

### 2.4 The views: NodeViews, ViewCache, BrowserPush

`rows` is the registry as its readers see it, `revision` the three counters of
the views, `signals` the number of dirty signals sent. A change of the rows and
its bump are one action: the write lock covers both, so a reader sees rows from
after the bump. A request of `ViewCache` reads its revision, looks into the slot,
waits for the build lock, looks again, renders, compares the revision, stores: a
step each, and other requests, changes, the expiry of a body and the client's
disappearance come between. `seen` is a history variable: everything the rows
were since the request began. A session of `BrowserPush` has a `position` in the
broadcast of capacity `ChannelCapacity`; falling behind by more is `Lagged`.

### 2.5 The page: WebClient, Dashboard, WebPage

`state` is the connection state of `client.ts`, `socket` the socket that the
browser drives for it: `close()` only begins to close it, and the client learns
the end from `onclose`. `heart` is the heartbeat timer that runs. The network
goes and comes any number of times, and while it is gone a connection may break,
or fall silent unnoticed. `nodesById`, `stats` and `stamp` are the two stores;
`mounted`, `fallback` the dashboard and its timer of three seconds; `rest` the
two REST requests. The session of the server is reduced to what `BrowserPush`
shows of it: it sends the initial state, and then every row that differs from
what it sent last.

### 2.6 The stores: HistoryStore, AuditLog, SnapshotFile, AgentLogStore

`HistoryStore` has the throttle in its two steps (a check, and a check and set
after the channel has room), the channel, the batch with its size and timer, the
transaction, which may fail with all its points, pruning, and the shutdown that
drops the sender. `Represented` is the grouping of a query into buckets under a
LIMIT. `AuditLog` has the same writer with a flush command that passes the
channel of the events. `SnapshotFile` keeps contents by inode: a writer goes on
with the file it opened although its path has been truncated and renamed by the
other. `AgentLogStore` has the counter of all entries, which moves before the
entry is in its shard, and the eviction, which finds the oldest entry under one
lock after the other and pops it under another.

### 2.7 The services

`Admission`, `Install` and `PanelLogin` use the table of `AuthFailures`: failures
in a window, a block of fixed length, a sweep above the soft limit and a cut at
the hard limit. `Admission` follows sockets from the upgrade through the hello to
the drop of the permit. `PanelLogin` follows tabs through password, code, mark
and session, with a wall clock that may be set back and a monotonic one.
`PanelSettings` follows edits through confirmation, the rewriting of the one
temporary file, the rename and the replacement of the running copy, any of which
may fail, and a restart. `AgentSession` is one agent with its process, its
connection and the server's session; each can end without the others. In
`Collector` interfaces come, go and restart their counters between samples, and
counters have a width. `Reports` takes a report from collector to row: mounts
become disks, the server repairs memory, swap and disks, cuts long names, drops
blank, repeated and surplus disks, hides those its operator has listed, and closes
the session whose window of anomalies is full. Of names the model keeps what this
depends on: blank, with blanks around it, too long, equal to another. Figures that
are only clamped (loads, rates, percentages) are one flag, `strange`. An agent of
Linux or macOS reports what its collector makes of any mounts and any memory; a
third kind of host reports anything. `repaired` is the history of the instants at
which reports of the session were repaired.
`Delivery` is one delivery over both channels.

## 3. Runs

| Run | Question | Result |
|---|---|---|
| `session_ownership` | Does a node have one owner, whatever the interleaving of three sessions of two nodes, reaper and a refresh request? | holds (513,000 states) |
| `session_liveness` | With two sessions and two concurrent refresh requests of a node: is the permit neither leaked nor duplicated, do superseded sessions end, do silent nodes go offline, are requests answered? | holds (21,000) |
| `session_refresh_target` | Is a live refresh executed by the session that is online? | violated |
| `token_registry` | Are file operations atomic, are caches sound, is staleness noticed? | holds (2.5 million) |
| `token_hot_path` | Does the hot path notice every rotation the server knows of? | violated |
| `token_handover` | Is the token that a consume hands out the current one? | violated |
| `alert_notifications` | Is every all-clear preceded by an alarm of its own, and does an alert that stays on keep being attempted? | holds (1.5 million) |
| `alert_inspection` | Does a pending date have a delivery under way, and is a date summarised once? | holds (2.8 million) |
| `views` | Is no body older than its request, does a stale browser session know it, and do sessions and the page converge? | holds (1.2 million) |
| `storage` | Is what was taken stored, shown and within its budget, is every file whole? | holds (354,000) |
| `services` | Do counters match permits, blocks and used codes last, file and running copy agree, tokens, lines, rates, rows and mails arrive as they should, do only frequent repairs end a session? | holds (618,000) |
| `final_snapshot` | Does the snapshot of the shutdown stay? | violated |

What the properties of the last runs say:

* `views`: `BodiesAreCurrent` (the rows a body shows were the rows at a moment of
  its request; an overview may lag in its figures, not in which nodes exist and
  are online), `StaleMeansNotified`, `BrowserConverges`, `PageTypeOK` (with
  `OneSocket`: the client never opens a second socket before the first has
  ended), `PageFollows` (a dashboard in view with a reachable server ends up
  with the registry's rows).
* `storage`: `SamplesAreSpaced`, `SamplesReachTheStore`, `QueryShowsEverything`,
  `DrainLosesNothing` (both writers at shutdown), `QuerySeesRecorded` (the flush
  barrier), `CheckpointOnDisk`, `SnapshotIsWhole`, `LogBudgetHolds`.
* `services`: `TypeOK` (with `PermitsMatchSockets`), `BlocksLast`,
  `SpentStepsAreRefused`, `RuntimeFollowsFile`, `TokenReachesAgent`,
  `LinesHandedOverOnce`, `RatesAreReal`, `SuccessReachesEverybody`,
  `RowsCanBeTrusted` (rows are consistent; what an ordinary host of Linux reports is
  kept unchanged and never ends its session; as many repairs as the limit within one
  window end a session, and nothing less does: `CutOffsAreEarned`).

Some properties exempt, through a history variable, a case in which the code does
not keep them: `StalenessIsNoticed` (`overlapped`), `FastPathIsSound`
(`selfRotated`), `RuntimeFollowsFile` (`overlapped`), `TokenReachesAgent`
(`tokenLost`), `SummaryOncePerDate` (`disturbed`), `PageFollows` (`watched`).
`OrdinaryReportsPass` is about ordinary reports only (`Ordinary`). Section 4 names
the cases.

Bounds, and why they suffice:

* Sessions: three connections let a session be superseded twice and a late
  disconnect or message meet the successor of its successor; two nodes show that
  a session touches its own node only. `StaleAfter = 2` gives a silent node a
  moment in which it may still come back. Two requests compete for a permit. The
  control capacity is the real one, 8; `PermitHeldByOneCommand` implies that one
  place would do, so `QueueFull` cannot happen. `ConnSymmetry` permutes
  connections, which no definition distinguishes (`Init` takes all assignments
  of nodes to connections); runs with liveness do not use it. The type invariant
  of this module is proved, and no run repeats it.
* Tokens: one node, for files of several nodes only multiply independent
  generations; one process of each kind is enough for every pair of operations
  to race. `MaxVersion = 3` allows three commits, `MaxRevision = 4` is where
  consumes stop (each raises the revision, even without a write), and two write
  attempts let a retry both succeed and give up. The proofs need none of these
  bounds.
* Alerts: one alert, since alerts share nothing but the queue; a queue of one
  place is full as soon as the inspection is in it. `Cooldown = 2` and
  `RetryDelay = 1` keep the two waits apart. `MaxInFlight` bounds running
  deliveries per job and unread results; with the queue a job may still be
  present three times. Inspections are checked apart from alerts, over three
  dates and with two deliveries in flight, because the two halves together
  exceed what TLC finishes in minutes. `MaxAlarms` and `MaxSummaries` bound
  history counters.
* Views: two requests of one view are what the build lock and the slot see at
  once; they share one changing node since bodies are compared whole. Two changes
  let a body be outdated twice during a request. Of the views with a time to live
  the metrics one is taken, since only it compares the readiness. The browser
  session has two nodes, so that a difference is sent in pieces, and a channel of
  one signal, so that two changes overrun it. The page has one node and one
  change: rows of different nodes are independent, and one change is enough to be
  missed by a dead socket, lost with one, or overtaken by a REST answer. A push
  waits for an empty wire.
* Storage: two recorders race for one throttle of two ticks; channels of one or
  two places and batches of two fill, overflow and leave a rest for the timer or
  the drain; `MaxTime = 4` spans retention and pruning. Two queries and three
  events put events before, between and behind flush commands. Three versions
  and three inodes give both writers of the snapshot a file each and one to
  replace. Two sessions, two shards and a budget of one entry make every push
  evict, also what the other session pushes.
* Services: three clients with limits of one and two make the failure table
  overflow with blocks in it; two sockets, two tabs and two editors are the pairs
  that can overlap. Codes are numbered steps, the clock goes back by at most one.
  A buffer of three lines and batches of two leave a rest; one retry of each
  class separates short and long backoff; counters of two bits wrap within three
  bytes; two interfaces let one come and one go. With two kept disks, three
  mounts exceed the limit, or repeat a device and still leave two rows; a limit of
  two anomalies and a window of one let two repairs fall inside the window or
  outside of it. Three attempts are the number in the code.

Deadlock is not checked: when all connections are closed, or all bounds used
up, nothing is left to happen.

### Fairness

`SessionRegistry!Fairness`: a task that can run is run by tokio; time passes; the
reaper fires every second; a write to a socket ends. `DetectSuperseded` is fair
because every ping tick compares the session with the registry, even when the
peer is silent. The session loop polls frames before commands and ticks, so
this, and `ReceiveCommand`, also rely on a peer that does not deliver frames
without end faster than they are handled. `RegisterNode` is fair but
`TakeSessionId` need not be. Nothing is assumed of agents or operators.

`AlertRuntime!Fairness`: the interval fires every 30 seconds, the dispatcher
runs, a delivery ends because its attempts have timeouts. Deliveries may fail
every time. `FiringKeepsNotifying` has one more premise, `DispatcherKeepsUp`:
from some moment on the dispatcher has started every job of a tick before the
next tick. It never waits for anything and has 30 seconds, but weak fairness
alone would let it stall for whole ticks, and then inspection jobs could occupy
a small queue each time the trigger is due.

`MCViews!FairSpec`: a browser session that can go on is run (`SessionsAreRun`);
timers of the page fire, the browser ends handshakes and the closing of a socket,
the server pushes what has changed and what it sent arrives (`PageIsRun`). That a
live server answers a ping within ten seconds is the guard of `PongTimeout`. No
fairness is given to pongs, to the breaking of a silent connection, to users or
to the network.

`MCStorage!FairSpec`: a record call does not wait for I/O and ends, the writer
task is run, and transactions end, well or badly. The other runs have safety
properties only.

## 4. Where the code differs from what it says

Shown by a run each:

* `session_refresh_target`: `handle_session_command` does not compare the session
  with the registry. A session that was superseded or reaped with a command in
  its channel still rotates the token of the node and sends it over its own
  socket, although `ws/refresh.rs:131` and `handlers/settings/updates.rs:99`
  speak of the session that is online.
* `token_hot_path`: `refresh_session_token` stores the generation of its own
  rotation with the revision of a later moment. If a rotation by the CLI was
  reloaded in between, the session passes the revision comparison with an old
  generation until the registry changes again. `FastPathIsSound` shows that this
  is the only such case.
* `token_handover`: a rotation leaves a pending install session with the previous
  token, and a consume still hands that token out.
* `final_snapshot`: `drain_server_shutdown` speaks of aborting a task that does
  not end in five seconds (`startup.rs:238`), but dropping its handle lets it run
  on. A stalled snapshot write then shares its temporary file with the final
  flush, and the file may end incomplete or older than the flush.

Exempted by a property, or left without one:

* Two overlapping reloads, or a reload and a consume, can leave the older content
  in memory under the newer fingerprint, and the poll skips the file from then
  on. `StalenessIsNoticed` shows that overlap is necessary.
* The dashboard misses the initial state of its connection when another route was
  open as it arrived (the socket is kept over routes, `web/src/App.vue:9`, while
  only `DashboardView.vue` listens). Its fallback "if WS hasn't delivered
  InitialState within 3s" (`DashboardView.vue:41`) asks for `lastGeneratedAt`,
  which a single `node_upsert` sets: the list then has only the nodes that have
  changed since, and nodes that are offline stay away. On the way back from
  another route rows stay as they were until they change again. A REST answer
  made before the initial state and arriving after it replaces newer rows, the
  time guard of `stores/nodes.ts:11` notwithstanding, and one taken under a
  browser clock that is ahead has later messages rejected. `PageFollows` exempts
  these with `watched`.
* The client gives up after three failed handshakes, so the delay never reaches
  the 30 seconds it is capped at.
* Overlapping edits of settings each start from the copy they have read: the
  later rename undoes the earlier edit, or file and running copy differ.
* Two verifications that overlap can share a one-time code: it is checked and
  marked in two steps (`handlers/auth_routes.rs:44`). A pending session survives
  a change of the password.
* A token that is rotated and then lost with its connection, or with a process
  that could not write its file, leaves the agent without one; it has to be
  reinstalled.
* `config/server.example.toml:35` and `:39` offer `max_sanitized_disks` and
  `metric_anomaly_session_limit`; the code uses constants.
* The agent for Linux sends what the server repairs each time, and so loses its
  session with the fifth report: a device or mount point over 256 bytes
  (`collector_linux.rs:355`, `sanitize.rs:204`), more available memory than there
  is in total (`collector_linux.rs:240`), more than 64 disks. Device names with
  blanks around them are trimmed without an anomaly, but two that differ in
  nothing else count as one repeated disk. `Ordinary` names these cases.
* The result of an inspection ends the pending state whatever its date
  (`alerts/runtime.rs:411`), and switching alerting off clears it: a summary can
  then be sent twice. `SummaryOncePerDate` exempts both with `disturbed`. An alert
  of which one channel failed is repeated over both.
* The macOS collector does not drop a device that is mounted twice, so the server
  counts every report of such a host as anomalous and ends its session with the
  fifth. On Linux an interface that appears or goes distorts one rate.
* The readiness in the key of a metrics body may differ from the one in the body,
  when it flips between the two.
* A mail whose acceptance is lost on the way is sent again. An install token is
  spent although its answer is lost.

## 5. Proofs

All theorems hold for every value of the constants under the assumptions named
in the modules: bounds and capacities are positive (or natural) numbers
(`CapacityAssumption`, `StaleAssumption`, `RetriesAssumption`, `BoundAssumption`,
`DelayAssumption`, `CacheAssumption`, `HistoryAssumption`, `AuditAssumption`,
`SnapshotAssumption`, `LogAssumption`, `AdmissionAssumption`, `FailuresAssumption`,
`InstallAssumption`, `LoginAssumption`, `SettingsAssumption`, `AgentAssumption`,
`CollectorAssumption`, `ReportsAssumption`, `DeliveryAssumption`); identities that
stand for nobody are not used for somebody (`NoConnAssumption`, `DistinctProcs`);
what is counted by cardinality is finite: nodes (`ChangesAssumption`), sockets and
clients, shippers of logs, network interfaces. Beyond that they say what the code
fixes at compile time: a soft limit of the failure table that is not above the
hard one, and a replay cache that keeps a step longer than the clock may be set
back (`ReplayRetention > MaxSetback`), without which `SpentStepsRefused` is false.

Every theorem about a state follows the same pattern: an inductive invariant, a
lemma for the initial states, one for the steps, and a conclusion. What follows
says what each invariant has to add, and why the property is not inductive
without.

`SessionRegistry_proofs`:

* `TypeCorrect` — the type invariant.
* `EntryInvariant` — `EntryInv` adds to the two safety invariants of the entry that
  session ids are below the counter (`IdsFresh`) and never shared (`IdsUnique`).
  Neither `OnlineHasLiveSession` nor `ControlReachesActive` is inductive
  without them: that the id in an entry equals a session's id says nothing
  unless no other session has it. `OnlineIsOwned` and `ControlIsCurrent` follow.
* `OfflineReason` — the action property, from `EntryInv`.
* `OwnershipImplemented` — refinement: each step maps to a step of `NodeOwnership`
  or a stutter under `EntryInv`. The sweep of the reaper is one `Release`.
* `PermitIsHeldByOneCommand` — the permit invariant, with a strengthening that says
  where a request's command is: exactly once in a queue, or served.

`TokenRegistry_proofs`:

* `TypeCorrect` — the type invariant.
* `CacheIsNotAhead`, `FastPathSound` — from `FastInv`: a cached revision is never
  ahead, and a cache filled under the lock agrees with memory as long as its
  revision is current. Without `CacheNotAhead` a cached revision could be
  reached again by the counter after memory has changed.
* `RegistryImplemented` — refinement, from `WriteInv`: a prepared draft whose base
  is still the version of the file is one abstract operation away from the file
  (`DraftsFit`), and no pending install session holds a generation that was
  handed out already (`Issuance`). A commit compares the version, so it is that
  abstract operation; every other step leaves the file alone.
* `StalenessNoticed` — from `NoticeInv`. The fingerprint of a reload is taken before
  the content, so no fingerprint is newer than the file (`SeenEarlier`), and one
  that equals the file's vouches for the copy that follows it: in memory
  (`MemoryIsNoticed`), in a draft on its way there (`DraftsAreNoticed`), and
  between the replacement and the checkpoint (`MarksAreNoticed`). That this
  survives the other processes needs one carrier at a time (`OneCarrier`), which
  is why the property excludes copies that overlap.

`Alert_proofs`, from `AlertInv`:

* `AlarmsComeFirst` — each delivered trigger is held by the entry of its alert,
  reported by a result nobody has read, or spent on one all-clear (`Paid`).
* `PendingDatesAreServed` — from the calendar: what is under way is of a date that
  has come, so that the pending date is today's only if its job is on its way.
* `OneSummaryPerDate` — as long as neither a full queue nor a changed configuration
  has disturbed the inspection state, a date has one delivery or one success
  (`OneDelivery`), wherever it is: in the queue, as a task, or as a result.
  Results stay in a sequence until the next tick, hence the counting lemmas.
* `AlertTypes` — the type invariant.

`Views_proofs`:

* `TypeCorrect` — the type invariant of `ViewClients`.
* `BodiesCurrent` — for any number of requests and changes, from `CacheInv`. A
  stored body is served under the revision that its builder has read, so the
  invariant has to say that the revision determines the body: a revision that a
  slot or a request holds is not ahead (`RevisionsBehind`), and if it is the
  current one, what the slot holds (`SlotsMatch`) or the request has rendered
  (`BuiltIsRight`) shows the rows as they are. `RequestsWatch` says that what a
  request may answer with is in `seen`, `LookupIsRight` and `ServedIsRight` carry
  that to its end.
* `StaleNotified` — `StaleMeansNotified` is inductive together with the types,
  which say that no session is ahead of the signals.
* `OnePageSocket` — from `PageInv`: one socket at a time is inductive once a socket
  that answers is known to be open or closing, and a client that has not given up
  to have a handshake left (`ClientInv`); the stores stay typed since what the
  socket carries is one of the three kinds of `Messages`.
* `ViewsKeepPromises` — the page's steps are stuttering steps of rows, cache and
  browser sessions (`PageStutters`), so `BodiesAreCurrent` and `StaleMeansNotified`
  hold in the composition `MCViews` that the run checks.

`Storage_proofs`. One store runs in a behaviour, and the theorems about `Spec` of
`MCStorage` conjoin the invariants of all (`StorageInv`), with `StorageTypes`:

* `SamplesSpaced` — from `HistoryInv`: the throttle knows the latest sample unless
  it has forgotten the node since (`ThrottleKnows`).
* `QueriesAreComplete` — what a query returns shows the whole range whatever the
  range and the limit of points: the width of a bucket, rounded up, times the
  limit is never short of the range (`BucketsSuffice`).
* `StoresDrain` — each sample, and each event, that the channel took is in the channel,
  the batch, the transaction or the table, or is lost or expired (`NoneAstray` of
  the history, `NothingAstray` of the audit log), and the writer ends only when
  the sender is gone and the channel is empty (`WriterTurns`). `AuditDrainIsComplete`
  is its part about the audit log.
* `QuerySeesWhatWasRecorded` — events recorded before a query stay ahead of its flush
  command, in the channel (`FlushIsBehind`), when the writer holds both
  (`WriterHolds`), and in the transaction that answers it (`AckIsBehind`,
  `QueryIsAhead`), for any capacity, batch size and number of queries.
* `LogBudgetKept` — from `LogInv`. The counter of the log store differs from its
  entries by what the sessions at work owe it and by what a forgotten node has not
  been discounted yet (`Counted`, a sum over the sessions). That the last session
  to go idle leaves the budget kept needs more: one session evicts at a time
  (`OneEvictor`), and a scan that has found nothing in the shards behind it has
  overlooked nothing unless somebody who filled them is still at work
  (`ScanTells`).
* `CheckpointIsOnDisk`, `SnapshotWhole` — from `SnapshotInv`: versions noted and listed
  are ordered (`Ages`), the final flush waits for the task unless the disk stalls
  (`TakeTurns`), and the file being written and the one in place are what their
  writers listed (`FilesMatch`). The first holds for every value of `DiskMayStall`,
  the second when it is `FALSE`; the run `final_snapshot` shows that this premise
  is needed.
* `StoresKeepPromises` — these two and `QuerySeesWhatWasRecorded` in the composition
  `MCStorage` that the run checks, from `StorageInv`.

`Access_proofs`:

* `BlocksHold` — the action property of the failure table, for sockets and for install
  requests. Its lemmas say what each operation of `AuthFailures` (check, record,
  clear, sweep, cut) makes of a table: it stays within the hard limit and no block
  in it outlasts one that begins now (`FitsTable`), and a block neither ends early
  nor gets lost (`KeepsBlocks`) unless the client is cleared, or the table was cut
  and every entry it kept is a block at least as long. That the cut keeps as many
  entries as it says is `TopIs`: of a finite set in a strict order exactly `n`
  elements have fewer than `n` before them.
* `PermitsAreCounted` — from `AdmissionInv`: the counter of an address is the number of
  its sockets and the total is the sum of the counters (`PermitsCounted`). The sum
  is needed because the code tests and changes both without ever comparing them.
* `SettingsFollowFile` — from `SettingsInv`: an edit that is alone finds the file as
  the running copy says, and at each of its steps the new content is where it has
  got to (`Alone`, `OneAtATime`).
* `SpentStepsRefused` — the action property that a spent one-time step is never
  accepted again, from `SpentInv`: a spent step is before the clock, or still in
  the replay cache with an expiry after which the clock cannot show it any more
  (`SpentIsKnown`), and a code that waits to be marked is not of a distant future
  (`CodesAreNear`). An expiry that counts from the moment of marking suffices only
  because of the latter.
* The types of the login (`LoginInv`), for `ServicesTypes` below.

`Services_proofs`:

* `ServicesTypes` — the type invariant of `MCServices`, from the invariants of all its
  parts, with what they leave open: bounds of the agent's tokens (`AgentNumbers`),
  one accepted message per attempt (`AcceptedOnce`), and a cached list of
  interfaces that is no longer than two entries for each (`CacheFits`).
* `TokensArrive` — from `TokenInv`: tokens travel in rising order, all newer than the
  one in memory (`TokensRise`), the one being rotated is newer than all of them
  (`RotatedIsAhead`), a cut connection carries nothing (`CutIsEmpty`), a hello is
  alone in its connection (`HelloComesFirst`), and only an attached session sends
  tokens (`NoticesMatch`).
* `LinesArriveInOrder` — from `LinesInv` beside it: lines delivered, in flight and in
  the buffer rise in this order (`LinesRise`), and each line is delivered, in
  flight, in the buffer, or gone (`LinesCounted`).
* `DeliveriesAreHonest` — from `DeliveryInv`: the mail server has the whole envelope
  before it is asked to take the message (`Dialogue`), and a channel whose turn is
  over was tried iff it was routed to (`Turns`).
* `RatesAreTraffic` — from `CollectorInv`: a remembered total is the sum of the
  counters of some set of interfaces, and its signature tells which
  (`SampleIsASum`, a different set per platform and per way to read the counters).
  That two equal signatures mean sums over the same interfaces is
  `SignaturesTell`; sums are taken apart with `Counting_proofs`.
* `RowsAreTrusted` — from `ReportsInv`, for any number of disks. The repair of a
  report is a fold over its disks; `FoldBySteps` proves what a fold does from what
  one step does, by the existence of the recursive function of its results
  (`RunExists`) and the least index that would be a counterexample, since the
  induction theorems of the library take operators. For an ordinary report the
  fold drops and repairs nothing, so its disks are those that are not hidden
  (`FoldKeepsOrdinary`).
* `CutOffsEarned`, the third part of `RowsCanBeTrusted` — from `ReportsInv`: the
  window is the end of the history of repairs, everything in it is recent with
  regard to the last repair, and everything before it is not (`Recent`). The
  history itself does not tell whether the session is open; with the window it
  does, since a session is open iff its window has room.

`Counting_proofs` proves with the same device (a well-founded minimum in place of
an induction theorem) that `MapThenSumSet` sums: over the empty set, over a set
split in two, over two functions that differ at one element, or by a constant.

Only model-checked: the liveness properties, since fairness and `ENABLED` are
outside TLAPS (`SupersededSessionEnds`, `SilentNodeGoesOffline`, `RefreshRequestEnds`,
`FiringKeepsNotifying`, `BrowserConverges`, `PageFollows`, `SamplesReachTheStore`). The four properties that the code violates are shown by a
counterexample. Every other invariant and action property of a passing run is a
theorem.


## 6. Not modelled

* Token expiry in the registry: a session whose token expires ends, and sessions
  may end at any time.
* The migration of plaintext tokens at startup, which saves the file without the
  version check, and of an old history table, whose statements form no
  transaction (`history/init.rs:76`).
* An I/O error after the rename of a committed write of the token registry: the
  caller reports an error for a write that is on disk.
* Logs of a superseded session, which are filed under its node all the same.
* A wall clock that is set back under the throttle of the history, which the
  code takes as a gap on purpose.
* The text of metrics and pages, formatting of messages, TLS, hashing, signatures,
  cookies, parsing of files under `/proc`, of arguments and of configuration;
  truncation of texts other than the names of disks. They are pure; what they
  return is taken from a small set.
* Of the web client: views other than the dashboard, polling, charts, forms.
* The load test, a tool.

## 7. Plan

1. Proofs: the compositions that follow bring invariants of their own; of the model as
   it is, every invariant and action property that a run checks is a theorem.
2. A page that reads `BrowserPush` itself in place of its reduction, and the other
   routes with their polling.
3. `AgentSession` composed with `TokenRegistry`, so that a rotation by the CLI and
   one by the session meet at one agent.
