------------------------------ MODULE ViewCache --------------------------------
(***************************************************************************)
(* The cached bodies of /api/nodes, /api/overview and /metrics             *)
(* (cached_api_json_bytes and metrics_text of state.rs, and                *)
(* state/view_cache.rs).  A request reads the revision, looks into the     *)
(* slot, waits for the build lock, looks again, renders the body under the *)
(* registry lock, and stores it if the revision has not moved.             *)
(*                                                                         *)
(* A body is what it was rendered from.  `fresh` is the time to live of a  *)
(* slot: it may run out at any moment.  An HTTP client may go away at any  *)
(* moment, which drops the request and its lock.                           *)
(*                                                                         *)
(* StoreUnderNewest is a faulty variant of the definition after it, which  *)
(* no action uses (README).                                                *)
(***************************************************************************)
EXTENDS NodeViews

CONSTANTS
  Readers,      \* HTTP clients with one request at a time
  CachedKinds,  \* the views that are requested
  MaxFlips,     \* bound of the model: changes of the readiness
  None          \* no request, no body

ASSUME CacheAssumption ==
  /\ CachedKinds \subseteq Kinds
  /\ MaxFlips \in Nat
  /\ None \notin Readers

VARIABLES
  ready,    \* registry_reload_healthy, the readiness that changes at run time
  flips,    \* bound: number of its changes so far
  slot,     \* the slot of each view
  builder,  \* the request that holds the build lock of each view, or None
  pc,       \* where a request is
  kind,     \* the view that a client asks for, again and again; all clients
            \* ask for the same, since views share nothing but the rows
  rev,      \* the revision a request has read
  key,      \* the readiness it has captured
  body,     \* the body it has rendered or serves
  seen      \* history: <<rows, ready>> at every moment since the request began

readerVars == <<pc, kind, rev, key, body>>
cacheVars == <<ready, flips, slot, builder, pc, kind, rev, key, body, seen>>

NoBody == [rows |-> [n \in Nodes |-> Absent], ready |-> TRUE]
Bodies == [rows : [Nodes -> Row], ready : BOOLEAN]
Steps == {"idle", "lookup", "lock", "recheck", "build", "check", "store"}

CacheTypeOK ==
  /\ ready \in BOOLEAN /\ flips \in Nat
  /\ slot \in [Kinds -> [revision : Nat, ready : BOOLEAN, fresh : BOOLEAN, body : Bodies]]
  /\ builder \in [Kinds -> Readers \cup {None}]
  /\ pc \in [Readers -> Steps]
  /\ kind \in [Readers -> Kinds]
  /\ rev \in [Readers -> Nat]
  /\ key \in [Readers -> BOOLEAN]
  /\ body \in [Readers -> Bodies]
  /\ seen \in [Readers -> SUBSET ([Nodes -> Row] \X BOOLEAN)]

CacheInit ==
  /\ ready = TRUE /\ flips = 0
  /\ slot = [k \in Kinds |->
               [revision |-> 0, ready |-> TRUE, fresh |-> FALSE, body |-> NoBody]]
  /\ builder = [k \in Kinds |-> None]
  /\ pc = [r \in Readers |-> "idle"]
  /\ \E k \in CachedKinds : kind = [r \in Readers |-> k]
  /\ rev = [r \in Readers |-> 0]
  /\ key = [r \in Readers |-> TRUE]
  /\ body = [r \in Readers |-> NoBody]
  /\ seen = [r \in Readers |-> {}]

\* Every request under way sees what the rows and the readiness become.
Observe ==
  seen' = [r \in Readers |-> IF pc'[r] = "idle" THEN seen[r]
                             ELSE seen[r] \cup {<<rows', ready'>>}]

GoTo(r, step) == pc' = [pc EXCEPT ![r] = step]

\* JsonViewSlot::get and MetricsViewSlot::get; only the nodes view has no
\* time to live, and only metrics compare the readiness.
Hit(r) ==
  LET s == slot[kind[r]]
  IN /\ s.revision = rev[r]
     /\ kind[r] # "nodes" => s.fresh
     /\ kind[r] = "metrics" => s.ready = key[r]

\* The request reads the revision and the readiness.
Begin(r) ==
  /\ pc[r] = "idle"
  /\ GoTo(r, "lookup")
  /\ rev' = [rev EXCEPT ![r] = revision[kind[r]]]
  /\ key' = [key EXCEPT ![r] = ready]
  /\ seen' = [seen EXCEPT ![r] = {<<rows, ready>>}]
  /\ UNCHANGED <<ready, flips, slot, builder, kind, body>>

\* Either lookup finds a body: it is served and the build lock released.
ServeCached(r) ==
  /\ pc[r] \in {"lookup", "recheck"} /\ Hit(r)
  /\ GoTo(r, "idle")
  /\ body' = [body EXCEPT ![r] = slot[kind[r]].body]
  /\ builder' = [builder EXCEPT ![kind[r]] = IF @ = r THEN None ELSE @]
  /\ UNCHANGED <<ready, flips, slot, kind, rev, key, seen>>

Miss(r) ==
  /\ pc[r] \in {"lookup", "recheck"} /\ ~Hit(r)
  /\ GoTo(r, IF pc[r] = "lookup" THEN "lock" ELSE "build")
  /\ UNCHANGED <<ready, flips, slot, builder, kind, rev, key, body, seen>>

\* The build lock is taken, then revision and readiness are read again.
LockBuild(r) ==
  /\ pc[r] = "lock" /\ builder[kind[r]] = None
  /\ GoTo(r, "recheck")
  /\ builder' = [builder EXCEPT ![kind[r]] = r]
  /\ rev' = [rev EXCEPT ![r] = revision[kind[r]]]
  /\ key' = [key EXCEPT ![r] = ready]
  /\ UNCHANGED <<ready, flips, slot, kind, body, seen>>

\* The body is rendered from the rows, and the metrics from the readiness,
\* as they are now.
Rendered == [rows |-> rows, ready |-> ready]

Build(r) ==
  /\ pc[r] = "build"
  /\ GoTo(r, "check")
  /\ body' = [body EXCEPT ![r] = Rendered]
  /\ UNCHANGED <<ready, flips, slot, builder, kind, rev, key, seen>>

\* The revision has moved: the body is served but not stored.
CheckMoved(r) ==
  /\ pc[r] = "check" /\ revision[kind[r]] # rev[r]
  /\ GoTo(r, "idle")
  /\ builder' = [builder EXCEPT ![kind[r]] = None]
  /\ UNCHANGED <<ready, flips, slot, kind, rev, key, body, seen>>

CheckUnmoved(r) ==
  /\ pc[r] = "check" /\ revision[kind[r]] = rev[r]
  /\ GoTo(r, "store")
  /\ UNCHANGED <<ready, flips, slot, builder, kind, rev, key, body, seen>>

\* The body is stored under the revision of the moment.
StoreUnderNewest(r) ==
  /\ pc[r] = "store"
  /\ GoTo(r, "idle")
  /\ slot' = [slot EXCEPT ![kind[r]] =
                [revision |-> revision[kind[r]], ready |-> key[r], fresh |-> TRUE,
                 body |-> body[r]]]
  /\ builder' = [builder EXCEPT ![kind[r]] = None]
  /\ UNCHANGED <<ready, flips, kind, rev, key, body, seen>>

Store(r) ==
  /\ pc[r] = "store"
  /\ GoTo(r, "idle")
  /\ slot' = [slot EXCEPT ![kind[r]] =
                [revision |-> rev[r], ready |-> key[r], fresh |-> TRUE, body |-> body[r]]]
  /\ builder' = [builder EXCEPT ![kind[r]] = None]
  /\ UNCHANGED <<ready, flips, kind, rev, key, body, seen>>

\* The client goes away.
Abandon(r) ==
  /\ pc[r] # "idle"
  /\ GoTo(r, "idle")
  /\ body' = [body EXCEPT ![r] = NoBody]
  /\ seen' = [seen EXCEPT ![r] = {}]
  /\ builder' = [builder EXCEPT ![kind[r]] = IF @ = r THEN None ELSE @]
  /\ UNCHANGED <<ready, flips, slot, kind, rev, key>>

Request(r) ==
  /\ \/ Begin(r) \/ ServeCached(r) \/ Miss(r) \/ LockBuild(r) \/ Build(r)
     \/ CheckMoved(r) \/ CheckUnmoved(r) \/ Store(r) \/ Abandon(r)
  /\ UNCHANGED viewVars

\* More than refresh_interval_secs, or OVERVIEW_CACHE_MAX_STALE, have passed.
Expire(k) ==
  /\ slot[k].fresh
  /\ slot' = [slot EXCEPT ![k].fresh = FALSE]
  /\ UNCHANGED <<ready, flips, builder, pc, kind, rev, key, body, seen>>
  /\ UNCHANGED viewVars

\* The registry poll succeeds after a failure, or fails.
FlipReadiness ==
  /\ flips < MaxFlips
  /\ flips' = flips + 1
  /\ ready' = ~ready
  /\ UNCHANGED <<slot, builder, pc, kind, rev, key, body>>
  /\ UNCHANGED viewVars
  /\ Observe

\* The rows change while requests are under way.
CacheSeesChange ==
  /\ UNCHANGED <<ready, flips, slot, builder, pc, kind, rev, key, body>>
  /\ Observe

CacheNext ==
  \/ \E r \in Readers : Request(r)
  \/ \E k \in Kinds \ {"nodes"} : Expire(k)
  \/ FlipReadiness

--------------------------------------------------------------------------------
Served(r) == pc[r] = "idle" /\ seen[r] # {}

\* A body of /api/nodes shows the rows as they were at a moment between the
\* beginning and the end of the request that it answers: whatever is cached or
\* built concurrently, no request is answered with an older state.  Overview
\* and metrics may lag behind the data of the nodes for as long as a body
\* lives, but which nodes exist and which are online is as it was at a moment
\* during the request (cached_api_json_bytes, bump_view_revision,
\* bump_nodes_revision_only).
BodiesAreCurrent ==
  \A r \in Readers : Served(r) =>
    /\ kind[r] = "nodes" => \E s \in seen[r] : body[r].rows = s[1]
    /\ \E s \in seen[r] : Structure(body[r].rows) = Structure(s[1])
================================================================================
