--------------------------- MODULE SessionRegistry ---------------------------
(***************************************************************************)
(* The runtime node registry of the server (state.rs, state/registry.rs),  *)
(* the agent sessions that share it (ws/handshake.rs, ws/session.rs), the  *)
(* stale reaper (background.rs) and the HTTP requests that send a command  *)
(* to an online session (state/session_control.rs, settings/updates.rs).   *)
(*                                                                         *)
(* Every method of SharedState takes the registry lock once, so a method   *)
(* is one action; what happens between two methods is interleaved.  A      *)
(* connection that is not yet authorized has no effect on this state and   *)
(* is left to the token registry.  A node without an entry behaves like an *)
(* entry that is offline, and a restart restores every entry offline, so   *)
(* both are the initial value of a node.                                   *)
(*                                                                         *)
(* An operator whose name says what was forgotten or done wrong, such as   *)
(* MarkDisconnectedOfAnySession, is a faulty variant of the definition     *)
(* after it; no action uses it, and a run refutes each (README).           *)
(***************************************************************************)
EXTENDS Naturals, Sequences, FiniteSets

CONSTANTS
  Nodes,            \* node ids
  Conns,            \* accepted WebSocket connections, one session each
  NoConn,           \* no connection
  Requests,         \* concurrent HTTP token-refresh requests
  StaleAfter,       \* stale_after_secs, in reaper ticks
  ControlCapacity   \* SESSION_CONTROL_CHANNEL_CAPACITY

ASSUME NoConnAssumption == NoConn \notin Conns
ASSUME StaleAssumption == StaleAfter \in Nat \ {0}
ASSUME CapacityAssumption == ControlCapacity \in Nat \ {0}

VARIABLES
  nextSessionId,    \* the atomic counter of SharedState
  active,           \* active_session_id of a node's entry; 0 is None
  online,           \* status.online of a node's entry
  control,          \* the session whose control handle the entry holds
  age,              \* ticks since status.last_seen, up to StaleAfter
  source,           \* the session that wrote status.snapshot
  pc,               \* where a session's task is
  node,             \* the node a connection was authorized for
  sid,              \* session_id of a session; 0 before it is drawn
  queue,            \* a session's control channel
  pending,          \* refresh_pending of a session's control handle
  serving,          \* the request whose command a session executes
  request,          \* where an HTTP request is
  target            \* the session whose handle an HTTP request cloned

entryVars == <<active, online, control, age, source>>
sessionVars == <<nextSessionId, pc, node, sid>>
commandVars == <<queue, pending, serving, request, target>>
vars == <<nextSessionId, active, online, control, age, source, pc, node, sid,
          queue, pending, serving, request, target>>

PCs == {"authorized", "numbered", "registered", "running", "refreshing",
        "closing", "closed"}
RequestStates == {"idle", "cloned", "permitted", "waiting", "abandoned"}

None == 0
TypeOK ==
  /\ nextSessionId \in Nat \ {0}
  /\ active \in [Nodes -> Nat]
  /\ online \in [Nodes -> BOOLEAN]
  /\ control \in [Nodes -> Conns \cup {NoConn}]
  /\ age \in [Nodes -> 0..StaleAfter]
  /\ source \in [Nodes -> Conns \cup {NoConn}]
  /\ pc \in [Conns -> PCs]
  /\ node \in [Conns -> Nodes]
  /\ sid \in [Conns -> Nat]
  /\ queue \in [Conns -> Seq(Requests)]
  /\ pending \in [Conns -> BOOLEAN]
  /\ serving \in [Conns -> SUBSET Requests]
  /\ request \in [Requests -> RequestStates]
  /\ target \in [Requests -> Conns \cup {NoConn}]

Init ==
  /\ nextSessionId = 1
  /\ active = [n \in Nodes |-> None]
  /\ online = [n \in Nodes |-> FALSE]
  /\ control = [n \in Nodes |-> NoConn]
  /\ age = [n \in Nodes |-> StaleAfter]
  /\ source = [n \in Nodes |-> NoConn]
  /\ pc = [c \in Conns |-> "authorized"]
  /\ node \in [Conns -> Nodes]
  /\ sid = [c \in Conns |-> None]
  /\ queue = [c \in Conns |-> <<>>]
  /\ pending = [c \in Conns |-> FALSE]
  /\ serving = [c \in Conns |-> {}]
  /\ request = [r \in Requests |-> "idle"]
  /\ target = [r \in Requests |-> NoConn]

------------------------------------------------------------------------------
(* Helpers.                                                                *)

\* The registry still regards session c as the one that owns its node.
IsCurrent(c) == active[node[c]] = sid[c]

\* The receiving half of a session's control channel exists while the session
\* loop runs.
ReceiverOpen(c) == pc[c] \in {"running", "refreshing"}

\* A sending half exists: in the registry entry, or cloned by a request.
SenderExists(c) ==
  \/ \E n \in Nodes : control[n] = c
  \/ \E r \in Requests : target[r] = c /\ request[r] \in {"cloned", "permitted"}

\* Requests whose command sits in the queue of session c.
Queued(c) == {queue[c][i] : i \in 1..Len(queue[c])}

\* The requests in R get an answer, or find the answering half dropped.
Answer(R) ==
  /\ request' = [r \in Requests |-> IF r \in R THEN "idle" ELSE request[r]]
  /\ target' = [r \in Requests |-> IF r \in R THEN NoConn ELSE target[r]]

\* Faulty variant: commands left in the channel are not answered.
LeaveLoopKeepingQueue(c) ==
  /\ pc' = [pc EXCEPT ![c] = "closing"]
  /\ serving' = [serving EXCEPT ![c] = {}]
  /\ Answer(serving[c])
  /\ UNCHANGED <<nextSessionId, node, sid, queue, pending>>

\* The session loop returns.  Its receiver is dropped with the commands in it,
\* and a dropped command gives its permit back.
LeaveLoop(c) ==
  /\ pc' = [pc EXCEPT ![c] = "closing"]
  /\ queue' = [queue EXCEPT ![c] = <<>>]
  /\ serving' = [serving EXCEPT ![c] = {}]
  /\ pending' = [pending EXCEPT ![c] = @ /\ Queued(c) \cup serving[c] = {}]
  /\ Answer(Queued(c) \cup serving[c])
  /\ UNCHANGED <<nextSessionId, node, sid>>

------------------------------------------------------------------------------
(* The life of a session.                                                  *)

\* register_node draws the id first, before it waits for the registry lock.
TakeSessionId(c) ==
  /\ pc[c] = "authorized"
  /\ sid' = [sid EXCEPT ![c] = nextSessionId]
  /\ nextSessionId' = nextSessionId + 1
  /\ pc' = [pc EXCEPT ![c] = "numbered"]
  /\ UNCHANGED <<node, entryVars, commandVars>>

\* Faulty variant: the control handle of the previous session stays.
RegisterNodeKeepingControl(c) ==
  /\ pc[c] = "numbered"
  /\ active' = [active EXCEPT ![node[c]] = sid[c]]
  /\ online' = [online EXCEPT ![node[c]] = TRUE]
  /\ age' = [age EXCEPT ![node[c]] = 0]
  /\ pc' = [pc EXCEPT ![c] = "registered"]
  /\ UNCHANGED <<control, source, nextSessionId, node, sid, commandVars>>

\* Under the lock, the session takes the node over from whoever had it.
RegisterNode(c) ==
  /\ pc[c] = "numbered"
  /\ active' = [active EXCEPT ![node[c]] = sid[c]]
  /\ online' = [online EXCEPT ![node[c]] = TRUE]
  /\ control' = [control EXCEPT ![node[c]] = NoConn]
  /\ age' = [age EXCEPT ![node[c]] = 0]
  /\ pc' = [pc EXCEPT ![c] = "registered"]
  /\ UNCHANGED <<source, nextSessionId, node, sid, commandVars>>

\* The session hands its control handle to the registry; one that has been
\* superseded or reaped meanwhile gives up.
AttachSessionControl(c) ==
  /\ pc[c] = "registered"
  /\ IF IsCurrent(c)
       THEN /\ control' = [control EXCEPT ![node[c]] = c]
            /\ pc' = [pc EXCEPT ![c] = "running"]
       ELSE /\ pc' = [pc EXCEPT ![c] = "closing"]
            /\ UNCHANGED control
  /\ UNCHANGED <<active, online, age, source, nextSessionId, node, sid,
                 commandVars>>

\* Faulty variant: the session id is not compared.
HandleMetricsOfAnySession(c) ==
  /\ pc[c] = "running"
  /\ source' = [source EXCEPT ![node[c]] = c]
  /\ age' = [age EXCEPT ![node[c]] = 0]
  /\ online' = [online EXCEPT ![node[c]] = TRUE]
  /\ UNCHANGED <<active, control, sessionVars, commandVars>>

\* A metrics message of the current session replaces the snapshot.
HandleMetrics(c) ==
  /\ pc[c] = "running"
  /\ IsCurrent(c)
  /\ source' = [source EXCEPT ![node[c]] = c]
  /\ age' = [age EXCEPT ![node[c]] = 0]
  /\ online' = [online EXCEPT ![node[c]] = TRUE]
  /\ UNCHANGED <<active, control, sessionVars, commandVars>>

\* A pong of the current session sets the latency and proves the node alive.
HandlePong(c) ==
  /\ pc[c] = "running"
  /\ IsCurrent(c)
  /\ age' = [age EXCEPT ![node[c]] = 0]
  /\ online' = [online EXCEPT ![node[c]] = TRUE]
  /\ UNCHANGED <<active, control, source, sessionVars, commandVars>>

\* Faulty variant: a reaped node counts as still owned by its session.
DetectSupersededByOther(c) ==
  /\ pc[c] = "running"
  /\ active[node[c]] \notin {None, sid[c]}
  /\ LeaveLoop(c)
  /\ UNCHANGED entryVars

\* A metrics message, a pong or a ping tick finds that the session is no
\* longer the current one: the loop ends.
DetectSuperseded(c) ==
  /\ pc[c] = "running"
  /\ ~IsCurrent(c)
  /\ LeaveLoop(c)
  /\ UNCHANGED entryVars

\* recv() on the control channel returns None once it is empty and no sender
\* is left: the loop ends.
ControlClosed(c) ==
  /\ pc[c] = "running"
  /\ queue[c] = <<>>
  /\ ~SenderExists(c)
  /\ LeaveLoop(c)
  /\ UNCHANGED entryVars

\* The loop ends for a reason of its own: the peer closes, the socket fails, a
\* message is refused, the token is no longer valid, or the server shuts down.
SocketEnds(c) ==
  /\ pc[c] = "running"
  /\ LeaveLoop(c)
  /\ UNCHANGED entryVars

\* Faulty variant: the session id is not compared.
MarkDisconnectedOfAnySession(c) ==
  /\ pc[c] = "closing"
  /\ pc' = [pc EXCEPT ![c] = "closed"]
  /\ active' = [active EXCEPT ![node[c]] = None]
  /\ online' = [online EXCEPT ![node[c]] = FALSE]
  /\ control' = [control EXCEPT ![node[c]] = NoConn]
  /\ UNCHANGED <<age, source, nextSessionId, node, sid, commandVars>>

\* Back in handle_socket, the session takes its node offline if it still owns
\* the node.
MarkDisconnected(c) ==
  /\ pc[c] = "closing"
  /\ pc' = [pc EXCEPT ![c] = "closed"]
  /\ IF IsCurrent(c)
       THEN /\ active' = [active EXCEPT ![node[c]] = None]
            /\ online' = [online EXCEPT ![node[c]] = FALSE]
            /\ control' = [control EXCEPT ![node[c]] = NoConn]
       ELSE UNCHANGED <<active, online, control>>
  /\ UNCHANGED <<age, source, nextSessionId, node, sid, commandVars>>

------------------------------------------------------------------------------
(* A token refresh asked for over HTTP and executed by the session.        *)

\* The session receives a command and waits for the registry and the socket.
\* It looks at neither the registry entry nor its own token.
ReceiveCommand(c) ==
  /\ pc[c] = "running"
  /\ queue[c] # <<>>
  /\ serving' = [serving EXCEPT ![c] = {Head(queue[c])}]
  /\ queue' = [queue EXCEPT ![c] = Tail(@)]
  /\ pc' = [pc EXCEPT ![c] = "refreshing"]
  /\ UNCHANGED <<nextSessionId, node, sid, entryVars, pending, request, target>>

\* The new token is on its way to the agent: the request is answered and the
\* permit is dropped.
RefreshSucceeds(c) ==
  /\ pc[c] = "refreshing"
  /\ Answer(serving[c])
  /\ serving' = [serving EXCEPT ![c] = {}]
  /\ pending' = [pending EXCEPT ![c] = FALSE]
  /\ pc' = [pc EXCEPT ![c] = "running"]
  /\ UNCHANGED <<nextSessionId, node, sid, entryVars, queue>>

\* The registry or the socket fails: the request is answered with the error
\* and the session ends.
RefreshFails(c) ==
  /\ pc[c] = "refreshing"
  /\ LeaveLoop(c)
  /\ UNCHANGED entryVars

\* request_live_token_refresh clones the handle of the online session under
\* the read lock.  Without one the request is refused and nothing changes.
CloneControl(r, n) ==
  /\ request[r] = "idle"
  /\ active[n] # None /\ online[n]
  /\ control[n] # NoConn
  /\ request' = [request EXCEPT ![r] = "cloned"]
  /\ target' = [target EXCEPT ![r] = control[n]]
  /\ UNCHANGED <<sessionVars, entryVars, queue, pending, serving>>

\* The permit is taken, or the request is refused with CommandInFlight.
AcquirePermit(r) ==
  LET c == target[r] IN
  /\ request[r] = "cloned"
  /\ IF pending[c]
       THEN /\ Answer({r})
            /\ UNCHANGED pending
       ELSE /\ pending' = [pending EXCEPT ![c] = TRUE]
            /\ request' = [request EXCEPT ![r] = "permitted"]
            /\ UNCHANGED target
  /\ UNCHANGED <<sessionVars, entryVars, queue, serving>>

\* Faulty variant: a refused command keeps its permit.
SendCommandLeakingPermit(r) ==
  LET c == target[r] IN
  /\ request[r] = "permitted"
  /\ IF ReceiverOpen(c) /\ Len(queue[c]) < ControlCapacity
       THEN /\ queue' = [queue EXCEPT ![c] = Append(@, r)]
            /\ request' = [request EXCEPT ![r] = "waiting"]
            /\ UNCHANGED target
       ELSE Answer({r}) /\ UNCHANGED queue
  /\ UNCHANGED <<sessionVars, entryVars, pending, serving>>

\* The command is enqueued; on SessionClosed or QueueFull it is dropped with
\* its permit.
SendCommand(r) ==
  LET c == target[r] IN
  /\ request[r] = "permitted"
  /\ IF ReceiverOpen(c) /\ Len(queue[c]) < ControlCapacity
       THEN /\ queue' = [queue EXCEPT ![c] = Append(@, r)]
            /\ request' = [request EXCEPT ![r] = "waiting"]
            /\ UNCHANGED <<target, pending>>
       ELSE /\ pending' = [pending EXCEPT ![c] = FALSE]
            /\ Answer({r})
            /\ UNCHANGED queue
  /\ UNCHANGED <<sessionVars, entryVars, serving>>

\* The HTTP handler stops waiting after LIVE_TOKEN_REFRESH_TIMEOUT.  The
\* command stays where it is.
RequestTimeout(r) ==
  /\ request[r] = "waiting"
  /\ request' = [request EXCEPT ![r] = "abandoned"]
  /\ UNCHANGED <<sessionVars, entryVars, queue, pending, serving, target>>

------------------------------------------------------------------------------
(* Time and the stale reaper.                                              *)

\* A second passes.
Tick ==
  /\ \E n \in Nodes : age[n] < StaleAfter
  /\ age' = [n \in Nodes |-> IF age[n] < StaleAfter THEN age[n] + 1 ELSE age[n]]
  /\ UNCHANGED <<active, online, control, source, sessionVars, commandVars>>

\* Faulty variant: a node that never sent metrics is skipped.
StaleWithSnapshot(n) == age[n] >= StaleAfter /\ online[n] /\ source[n] # NoConn

\* A node is silent for the whole period and still shown online.
Stale(n) == age[n] >= StaleAfter /\ online[n]

\* Faulty variant: the session of a silent node is not disowned.
MarkStaleKeepingSession ==
  /\ \E n \in Nodes : Stale(n)
  /\ online' = [n \in Nodes |-> online[n] /\ ~Stale(n)]
  /\ control' = [n \in Nodes |-> IF Stale(n) THEN NoConn ELSE control[n]]
  /\ UNCHANGED <<active, age, source, sessionVars, commandVars>>

\* mark_stale takes every silent node offline and disowns its session.
MarkStale ==
  /\ \E n \in Nodes : Stale(n)
  /\ active' = [n \in Nodes |-> IF Stale(n) THEN None ELSE active[n]]
  /\ online' = [n \in Nodes |-> online[n] /\ ~Stale(n)]
  /\ control' = [n \in Nodes |-> IF Stale(n) THEN NoConn ELSE control[n]]
  /\ UNCHANGED <<age, source, sessionVars, commandVars>>

------------------------------------------------------------------------------
SessionStep(c) ==
  \/ TakeSessionId(c) \/ RegisterNode(c) \/ AttachSessionControl(c)
  \/ HandleMetrics(c) \/ HandlePong(c)
  \/ DetectSuperseded(c) \/ ControlClosed(c) \/ SocketEnds(c)
  \/ MarkDisconnected(c)
  \/ ReceiveCommand(c) \/ RefreshSucceeds(c) \/ RefreshFails(c)

RequestStep(r) ==
  \/ \E n \in Nodes : CloneControl(r, n)
  \/ AcquirePermit(r) \/ SendCommand(r) \/ RequestTimeout(r)

Next ==
  \/ \E c \in Conns : SessionStep(c)
  \/ \E r \in Requests : RequestStep(r)
  \/ Tick
  \/ MarkStale

Spec == Init /\ [][Next]_vars

(***************************************************************************)
(* Fairness.  A task that can run is run by the tokio scheduler, time      *)
(* passes, the reaper's interval fires every second, and a write to a      *)
(* socket ends: it succeeds, or TCP reports the connection broken.  No     *)
(* fairness is assumed of agents, browsers or operators: no message, no    *)
(* close and no HTTP request ever has to arrive.                           *)
(***************************************************************************)
Fairness ==
  /\ \A c \in Conns :
       /\ WF_vars(RegisterNode(c))
       /\ WF_vars(AttachSessionControl(c))
       /\ WF_vars(DetectSuperseded(c))
       /\ WF_vars(MarkDisconnected(c))
       /\ WF_vars(ReceiveCommand(c))
       /\ WF_vars(RefreshSucceeds(c) \/ RefreshFails(c))
  /\ \A r \in Requests : WF_vars(AcquirePermit(r)) /\ WF_vars(SendCommand(r))
  /\ WF_vars(Tick)
  /\ WF_vars(MarkStale)

FairSpec == Spec /\ Fairness

------------------------------------------------------------------------------
(* Safety.                                                                 *)

\* An online node is owned by a session whose task is alive, so the node will
\* be taken offline when that task ends; an offline node is owned by none.
\* (registry.rs keeps `online` and `active_session_id` as two fields that six
\* methods write.)
OnlineHasLiveSession ==
  \A n \in Nodes :
    IF online[n]
      THEN \E c \in Conns :
             /\ node[c] = n
             /\ sid[c] = active[n]
             /\ pc[c] \in {"registered", "running", "refreshing", "closing"}
      ELSE active[n] = None

\* A command sent through a node's entry reaches the session that owns the
\* node, never one that it superseded.
ControlReachesActive ==
  \A n \in Nodes : control[n] # NoConn =>
    /\ node[control[n]] = n
    /\ sid[control[n]] = active[n]
    /\ pc[control[n]] \in {"running", "refreshing", "closing"}

\* The refresh permit of a session is held exactly by the one command that is
\* about to be sent, queued or executed: it is neither leaked by a session
\* that ends, by a full or closed channel or by an impatient client, nor ever
\* given twice.
PermitHolders(c) ==
  {r \in Requests : target[r] = c /\ request[r] \in {"permitted", "waiting", "abandoned"}}

PermitHeldByOneCommand ==
  \A c \in Conns :
    /\ pending[c] <=> PermitHolders(c) # {}
    /\ \A r1, r2 \in PermitHolders(c) : r1 = r2
    /\ \A r \in PermitHolders(c) :
         request[r] # "permitted" => r \in Queued(c) \cup serving[c]

\* The documented scope of a live refresh (ws/refresh.rs:131, settings/
\* updates.rs:99): it goes through the session that is currently online.
RefreshThroughCurrentSession ==
  [][\A c \in Conns :
       pc[c] = "running" /\ pc'[c] = "refreshing" => IsCurrent(c)]_vars

\* A node that is online goes offline only because its own session ends or
\* because it has been silent for the whole stale period: a session that ends
\* late never takes down the session that replaced it.
OfflineForAReason ==
  [][\A n \in Nodes : online[n] /\ ~online'[n] =>
       \/ age[n] >= StaleAfter
       \/ \E c \in Conns : node[c] = n /\ sid[c] = active[n]
                           /\ pc[c] = "closing" /\ pc'[c] = "closed"]_vars

\* The sessions seen as the abstract ownership of nodes.
Owner(n) ==
  IF active[n] = None THEN NoConn ELSE CHOOSE c \in Conns : sid[c] = active[n]
Registered ==
  {c \in Conns : pc[c] \in {"registered", "running", "refreshing", "closing", "closed"}}

Ownership == INSTANCE NodeOwnership
  WITH owner <- [n \in Nodes |-> Owner(n)], spent <- Registered, shown <- source

\* The registry implements node ownership: whatever the interleaving, a
\* superseded or reaped session never regains its node and never overwrites
\* the data of its successor (state.rs:8-9).
ImplementsOwnership == Ownership!OwnershipSpec

------------------------------------------------------------------------------
(* Liveness.                                                               *)

\* A session that lost its node, to a newer session or to the reaper, ends,
\* even when its peer has gone silent without closing the connection.
SupersededSessionEnds ==
  \A c \in Conns :
    (pc[c] \in {"registered", "running", "refreshing"} /\ ~IsCurrent(c))
      ~> pc[c] = "closed"

\* A node from which nothing arrives any more does not stay online for ever.
SilentNodeGoesOffline ==
  \A n \in Nodes : []<>(age[n] = 0 \/ ~online[n])

\* A refresh request is answered: the session replies, or drops the command.
RefreshRequestEnds ==
  \A r \in Requests : request[r] # "idle" ~> request[r] = "idle"
==============================================================================
