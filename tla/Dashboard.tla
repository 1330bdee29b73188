------------------------------ MODULE Dashboard --------------------------------
(***************************************************************************)
(* The dashboard of the web page (web/src/views/DashboardView.vue and the  *)
(* stores nodes.ts and overview.ts): it applies the messages of the        *)
(* WebSocket while it is mounted, and asks the REST API for the same data  *)
(* when it has no stamp three seconds after it was mounted.  The stores    *)
(* outlive it: another route unmounts it, and messages are then dropped.   *)
(*                                                                         *)
(* `sent` and `wire` are the browser session of the server at the grain    *)
(* the page sees: BrowserPush shows that a session sends every change.     *)
(* Messages carry the server's time, which does not fall; the stores       *)
(* compare it with their stamp.  A REST answer carries no time: a store    *)
(* without a stamp takes that of the browser's clock, which may be ahead   *)
(* of the server's and then has messages rejected until the server has     *)
(* caught up.  A clock that is behind does as the server's.  The handler   *)
(* of node_removed is left out: the registry removes no row.               *)
(***************************************************************************)
EXTENDS NodeViews, Sequences, SequencesExt

VARIABLES
  sent,       \* external: last_nodes of the session
  wire,       \* messages on their way
  mounted,    \* the route is the dashboard
  fallback,   \* fallbackTimer runs
  nodesById,  \* the nodes store; an absent row is a missing key
  stats,      \* data of the overview store
  stamp,      \* lastGeneratedAt of each store
  rest,       \* the request of each store: idle, asked, answered
  answer,     \* the rows from which its answer was made
  watched     \* history: no InitialState was missed or rejected since the
              \* dashboard was mounted, and no REST answer has altered it

storeVars == <<nodesById, stats, stamp, watched>>
restVars == <<rest, answer>>
dashboardVars == <<sent, wire, mounted, fallback, storeVars, restVars>>

Stores == {"nodes", "overview"}
Nothing == [n \in Nodes |-> Absent]
Idle == [k \in Stores |-> "idle"]

DashboardTypeOK ==
  /\ sent \in [Nodes -> Row]
  /\ mounted \in BOOLEAN
  /\ fallback \in BOOLEAN
  /\ nodesById \in [Nodes -> Row]
  /\ stamp \in [Stores -> {"none", "server", "ahead"}]
  /\ rest \in [Stores -> {"idle", "asked", "answered"}]
  /\ answer \in [Stores -> [Nodes -> Row]]
  /\ watched \in BOOLEAN
  /\ fallback => mounted

DashboardInit ==
  /\ sent = Nothing /\ wire = <<>>
  /\ mounted \in BOOLEAN /\ fallback = mounted
  /\ nodesById = Nothing /\ stats = Overview(Nothing)
  /\ stamp = [k \in Stores |-> "none"]
  /\ rest = Idle /\ answer = [k \in Stores |-> Nothing]
  /\ watched = FALSE

InitialState(R) == [type |-> "initial_state", rows |-> R]
NodeUpsert(n, R) == [type |-> "node_upsert", node |-> n, row |-> R[n]]
OverviewUpdate(R) == [type |-> "overview_update", overview |-> Overview(R)]

\* external: a new session, and a push of what has changed.  Bound of the
\* model: a push waits until the wire is empty; its rows are then newer.
SessionStarts ==
  /\ sent' = rows
  /\ wire' = <<InitialState(rows)>>

Push ==
  /\ sent # rows
  /\ wire = <<>>
  /\ sent' = rows
  /\ LET changed == SetToSeq({n \in Nodes : rows[n] # sent[n]})
     IN wire' = [i \in DOMAIN changed |-> NodeUpsert(changed[i], rows)]
                \o <<OverviewUpdate(rows)>>
  /\ UNCHANGED <<mounted, fallback, storeVars, restVars>>

Accepts(k) == stamp[k] # "ahead"

\* applyServerState has no guard, apply of the overview store has one.
ApplyInitialState(m) ==
  /\ m.type = "initial_state"
  /\ nodesById' = m.rows
  /\ stats' = IF Accepts("overview") THEN Overview(m.rows) ELSE stats
  /\ stamp' = [nodes |-> "server",
               overview |-> IF Accepts("overview") THEN "server" ELSE "ahead"]
  /\ watched' = Accepts("overview")

\* upsertNode.
ApplyUpsert(m) ==
  /\ m.type = "node_upsert"
  /\ IF Accepts("nodes")
     THEN /\ nodesById' = [nodesById EXCEPT ![m.node] = m.row]
          /\ stamp' = [stamp EXCEPT !["nodes"] = "server"]
     ELSE UNCHANGED <<nodesById, stamp>>
  /\ UNCHANGED <<stats, watched>>

ApplyOverview(m) ==
  /\ m.type = "overview_update"
  /\ IF Accepts("overview")
     THEN /\ stats' = m.overview
          /\ stamp' = [stamp EXCEPT !["overview"] = "server"]
     ELSE UNCHANGED <<stats, stamp>>
  /\ UNCHANGED <<nodesById, watched>>

\* onMessage: without the dashboard there is no handler.
Deliver ==
  /\ wire # <<>> /\ wire' = Tail(wire)
  /\ IF mounted
     THEN LET m == Head(wire)
          IN ApplyInitialState(m) \/ ApplyUpsert(m) \/ ApplyOverview(m)
     ELSE UNCHANGED storeVars
  /\ UNCHANGED <<sent, mounted, fallback, restVars>>

Mount ==
  /\ ~mounted /\ mounted' = TRUE
  /\ fallback' = TRUE
  /\ UNCHANGED <<sent, wire, storeVars, restVars>>

Unmount ==
  /\ mounted /\ mounted' = FALSE
  /\ fallback' = FALSE
  /\ watched' = FALSE
  /\ UNCHANGED <<sent, wire, nodesById, stats, stamp, restVars>>

\* Any stamp counts as an InitialState; a store that is loading does not ask.
FallbackFires ==
  /\ fallback /\ fallback' = FALSE
  /\ IF stamp["nodes"] = "none"
     THEN rest' = [k \in Stores |-> IF rest[k] = "idle" THEN "asked" ELSE rest[k]]
     ELSE UNCHANGED rest
  /\ UNCHANGED <<sent, wire, mounted, storeVars, answer>>

\* external: the server renders the body (ViewCache).
RestIsServed(k) ==
  /\ rest[k] = "asked"
  /\ rest' = [rest EXCEPT ![k] = "answered"]
  /\ answer' = [answer EXCEPT ![k] = rows]
  /\ UNCHANGED <<sent, wire, mounted, fallback, storeVars>>

RestEnds(k) ==
  /\ rest' = [rest EXCEPT ![k] = "idle"]
  /\ answer' = [answer EXCEPT ![k] = Nothing]
  /\ UNCHANGED <<sent, wire, mounted, fallback>>

\* refresh: the answer is applied, even if messages have arrived meanwhile.
RestArrives(k) ==
  /\ rest[k] = "answered"
  /\ nodesById' = IF k = "nodes" THEN answer[k] ELSE nodesById
  /\ stats' = IF k = "overview" THEN Overview(answer[k]) ELSE stats
  /\ \E s \in IF stamp[k] = "none" THEN {"server", "ahead"} ELSE {stamp[k]} :
       stamp' = [stamp EXCEPT ![k] = s]
  /\ watched' = (watched /\ nodesById' = nodesById /\ stats' = stats)
  /\ RestEnds(k)

RestFails(k) == rest[k] # "idle" /\ RestEnds(k) /\ UNCHANGED storeVars

\* The server's time passes a stamp that was ahead of it.
ServerCatchesUp(k) ==
  /\ stamp[k] = "ahead"
  /\ stamp' = [stamp EXCEPT ![k] = "server"]
  /\ UNCHANGED <<sent, wire, mounted, fallback, nodesById, stats, watched, restVars>>

RouteStep ==
  \/ Mount \/ Unmount \/ FallbackFires
  \/ \E k \in Stores :
       RestIsServed(k) \/ RestArrives(k) \/ RestFails(k) \/ ServerCatchesUp(k)
================================================================================
