------------------------ MODULE SessionRegistry_proofs ------------------------
(***************************************************************************)
(* Proofs about SessionRegistry for every set of nodes, connections and    *)
(* requests: the registry entry and the sessions agree, a node goes        *)
(* offline for a reason, the registry implements NodeOwnership, and the    *)
(* refresh permit is held by exactly one command.                          *)
(***************************************************************************)
EXTENDS SessionRegistry, SequenceTheorems, TLAPS

(***************************************************************************)
(* The type invariant.                                                     *)
(***************************************************************************)

\* Every step keeps the variables in their types.
LEMMA TypeStep == TypeOK /\ [Next]_vars => TypeOK'
<1> SUFFICES ASSUME TypeOK, [Next]_vars PROVE TypeOK'
  OBVIOUS
<1> USE DEF TypeOK, PCs, RequestStates, None
<1>1. ASSUME NEW c \in Conns, TakeSessionId(c) PROVE TypeOK'
  BY <1>1 DEF TakeSessionId, entryVars, commandVars
<1>2. ASSUME NEW c \in Conns, RegisterNode(c) PROVE TypeOK'
  BY <1>2, StaleAssumption DEF RegisterNode, commandVars
<1>3. ASSUME NEW c \in Conns, AttachSessionControl(c) PROVE TypeOK'
  BY <1>3 DEF AttachSessionControl, commandVars
<1>4. ASSUME NEW c \in Conns, HandleMetrics(c) \/ HandlePong(c) PROVE TypeOK'
  <2>1. CASE HandleMetrics(c)
    BY <2>1, StaleAssumption DEF HandleMetrics, sessionVars, commandVars
  <2>2. CASE HandlePong(c)
    BY <2>2, StaleAssumption DEF HandlePong, sessionVars, commandVars
  <2> QED BY <1>4, <2>1, <2>2
<1>5. ASSUME NEW c \in Conns, LeaveLoop(c), UNCHANGED entryVars PROVE TypeOK'
  BY <1>5 DEF LeaveLoop, Answer, entryVars
<1>6. ASSUME NEW c \in Conns, MarkDisconnected(c) PROVE TypeOK'
  <2>1. CASE IsCurrent(c)
    <3>1. node[c] \in Nodes
      OBVIOUS
    <3>2. /\ active' = [active EXCEPT ![node[c]] = 0]
          /\ online' = [online EXCEPT ![node[c]] = FALSE]
          /\ control' = [control EXCEPT ![node[c]] = NoConn]
      BY <1>6, <2>1 DEF MarkDisconnected
    <3>3. /\ active' \in [Nodes -> Nat]
          /\ online' \in [Nodes -> BOOLEAN]
          /\ control' \in [Nodes -> Conns \cup {NoConn}]
      BY <3>1, <3>2
    <3> QED BY <1>6, <3>3 DEF MarkDisconnected, commandVars
  <2>2. CASE ~IsCurrent(c)
    BY <1>6, <2>2 DEF MarkDisconnected, commandVars
  <2> QED BY <2>1, <2>2
<1>7. ASSUME NEW c \in Conns, ReceiveCommand(c) PROVE TypeOK'
  <2>1. Head(queue[c]) \in Requests /\ Tail(queue[c]) \in Seq(Requests)
    BY <1>7 DEF ReceiveCommand
  <2> QED BY <1>7, <2>1 DEF ReceiveCommand, entryVars
<1>8. ASSUME NEW c \in Conns, RefreshSucceeds(c) PROVE TypeOK'
  BY <1>8 DEF RefreshSucceeds, Answer, entryVars
<1>9. ASSUME NEW r \in Requests, NEW n \in Nodes, CloneControl(r, n) PROVE TypeOK'
  BY <1>9 DEF CloneControl, sessionVars, entryVars
<1>10. ASSUME NEW r \in Requests, AcquirePermit(r) PROVE TypeOK'
  <2>1. CASE pending[target[r]]
    BY <1>10, <2>1 DEF AcquirePermit, Answer, sessionVars, entryVars
  <2>2. CASE ~pending[target[r]]
    BY <1>10, <2>2 DEF AcquirePermit, sessionVars, entryVars
  <2> QED BY <2>1, <2>2
<1>11. ASSUME NEW r \in Requests, SendCommand(r) PROVE TypeOK'
  <2> DEFINE sent == ReceiverOpen(target[r]) /\ Len(queue[target[r]]) < ControlCapacity
  <2>1. CASE sent
    <3>1. /\ queue' = [queue EXCEPT ![target[r]] = Append(@, r)]
          /\ request' = [request EXCEPT ![r] = "waiting"]
          /\ UNCHANGED <<target, pending, serving, sessionVars, entryVars>>
      BY <1>11, <2>1 DEF SendCommand
    <3>2. queue' \in [Conns -> Seq(Requests)]
      <4>1. \A c \in Conns : Append(queue[c], r) \in Seq(Requests)
        OBVIOUS
      <4>2. queue' = [c \in Conns |-> IF c = target[r] THEN Append(queue[c], r) ELSE queue[c]]
        BY <3>1
      <4> QED BY <4>1, <4>2
    <3> QED BY <3>1, <3>2 DEF sessionVars, entryVars
  <2>2. CASE ~sent
    BY <1>11, <2>2 DEF SendCommand, Answer, sessionVars, entryVars
  <2> QED BY <2>1, <2>2
<1>12. ASSUME NEW r \in Requests, RequestTimeout(r) PROVE TypeOK'
  BY <1>12 DEF RequestTimeout, sessionVars, entryVars
<1>13. CASE Tick
  BY <1>13, StaleAssumption DEF Tick, sessionVars, commandVars
<1>14. CASE MarkStale
  BY <1>14 DEF MarkStale, sessionVars, commandVars
<1>15. CASE UNCHANGED vars
  BY <1>15 DEF vars
<1> QED
  BY <1>1, <1>2, <1>3, <1>4, <1>5, <1>6, <1>7, <1>8, <1>9, <1>10, <1>11,
     <1>12, <1>13, <1>14, <1>15
  DEF Next, SessionStep, RequestStep, DetectSuperseded, ControlClosed,
      SocketEnds, RefreshFails

\* TypeOK holds for every value of the constants.
THEOREM TypeCorrect == Spec => []TypeOK
<1>1. Init => TypeOK
  BY StaleAssumption DEF Init, TypeOK, PCs, RequestStates, None
<1> QED BY <1>1, TypeStep, PTL DEF Spec

(***************************************************************************)
(* The registry entry and the sessions agree.  OnlineHasLiveSession and    *)
(* ControlReachesActive are inductive once session ids are known to be     *)
(* drawn from the counter and never shared.                                *)
(***************************************************************************)
IdsFresh ==
  \A c \in Conns : sid[c] < nextSessionId /\ (pc[c] = "authorized" <=> sid[c] = None)

IdsUnique == \A c, d \in Conns : sid[c] = sid[d] /\ sid[c] # None => c = d

EntryInv == TypeOK /\ IdsFresh /\ IdsUnique /\ OnlineHasLiveSession /\ ControlReachesActive

\* The initial states satisfy the invariant.
LEMMA EntryInit == Init => EntryInv
  BY NoConnAssumption, StaleAssumption
  DEF Init, EntryInv, TypeOK, PCs, RequestStates, None, IdsFresh, IdsUnique,
      OnlineHasLiveSession, ControlReachesActive

\* A step that leaves the entries and the ids alone and moves sessions only
\* from running and refreshing to running, refreshing and closing.
SessionMove ==
  /\ UNCHANGED <<active, online, control, nextSessionId, node, sid>>
  /\ \A c \in Conns :
       \/ pc'[c] = pc[c]
       \/ /\ pc[c] \in {"running", "refreshing"}
          /\ pc'[c] \in {"running", "refreshing", "closing"}

\* Such a step keeps the invariant.
LEMMA SessionMoves == EntryInv /\ TypeOK' /\ SessionMove => EntryInv'
<1> SUFFICES ASSUME EntryInv, TypeOK', SessionMove PROVE EntryInv'
  OBVIOUS
<1>1. IdsFresh'
  BY DEF EntryInv, SessionMove, IdsFresh
<1>2. IdsUnique'
  BY DEF EntryInv, SessionMove, IdsUnique
<1>3. OnlineHasLiveSession'
  BY DEF EntryInv, TypeOK, SessionMove, OnlineHasLiveSession
<1>4. ControlReachesActive'
  <2> SUFFICES ASSUME NEW n \in Nodes, control[n] # NoConn
               PROVE  /\ node[control[n]] = n
                      /\ sid[control[n]] = active[n]
                      /\ pc'[control[n]] \in {"running", "refreshing", "closing"}
    BY DEF SessionMove, ControlReachesActive
  <2>1. control[n] \in Conns
    BY DEF EntryInv, TypeOK
  <2> QED BY <2>1 DEF EntryInv, SessionMove, ControlReachesActive
<1> QED BY <1>1, <1>2, <1>3, <1>4 DEF EntryInv

\* Every step keeps the invariant.
LEMMA EntryStep == EntryInv /\ [Next]_vars => EntryInv'
<1> SUFFICES ASSUME EntryInv, [Next]_vars PROVE EntryInv'
  OBVIOUS
<1>0. TypeOK /\ TypeOK'
  BY TypeStep DEF EntryInv
<1>1. ASSUME NEW c \in Conns, TakeSessionId(c) PROVE EntryInv'
  <2>1. /\ pc[c] = "authorized"
        /\ sid' = [sid EXCEPT ![c] = nextSessionId]
        /\ nextSessionId' = nextSessionId + 1
        /\ pc' = [pc EXCEPT ![c] = "numbered"]
        /\ UNCHANGED <<active, online, control, node>>
    BY <1>1 DEF TakeSessionId, entryVars
  <2>2. IdsFresh'
    BY <2>1, <1>0 DEF EntryInv, TypeOK, IdsFresh, None
  <2>3. IdsUnique'
    BY <2>1, <1>0 DEF EntryInv, TypeOK, IdsFresh, IdsUnique, None
  <2>4. OnlineHasLiveSession'
    BY <2>1, <1>0 DEF EntryInv, TypeOK, OnlineHasLiveSession
  <2>5. ControlReachesActive'
    BY <2>1, <1>0 DEF EntryInv, TypeOK, ControlReachesActive
  <2> QED BY <1>0, <2>2, <2>3, <2>4, <2>5 DEF EntryInv
<1>2. ASSUME NEW c \in Conns, RegisterNode(c) PROVE EntryInv'
  <2>1. IdsFresh' /\ IdsUnique'
    BY <1>2, <1>0 DEF EntryInv, TypeOK, RegisterNode, IdsFresh, IdsUnique
  <2>2. OnlineHasLiveSession'
    BY <1>2, <1>0 DEF EntryInv, TypeOK, RegisterNode, OnlineHasLiveSession
  <2>3. ControlReachesActive'
    BY <1>2, <1>0 DEF EntryInv, TypeOK, RegisterNode, ControlReachesActive
  <2> QED BY <1>0, <2>1, <2>2, <2>3 DEF EntryInv
<1>3. ASSUME NEW c \in Conns, AttachSessionControl(c) PROVE EntryInv'
  <2>1. IdsFresh' /\ IdsUnique'
    BY <1>3, <1>0 DEF EntryInv, TypeOK, AttachSessionControl, IdsFresh, IdsUnique
  <2>2. OnlineHasLiveSession'
    BY <1>3, <1>0 DEF EntryInv, TypeOK, AttachSessionControl, OnlineHasLiveSession
  <2>3. ControlReachesActive'
    <3>1. CASE IsCurrent(c)
      <4>1. /\ control' = [control EXCEPT ![node[c]] = c]
            /\ pc' = [pc EXCEPT ![c] = "running"]
            /\ pc[c] = "registered"
            /\ UNCHANGED <<active, node, sid>>
        BY <1>3, <3>1 DEF AttachSessionControl
      <4> QED
        BY <4>1, <3>1, <1>0 DEF EntryInv, TypeOK, ControlReachesActive, IsCurrent
    <3>2. CASE ~IsCurrent(c)
      <4>1. /\ pc' = [pc EXCEPT ![c] = "closing"]
            /\ UNCHANGED <<control, active, node, sid>>
        BY <1>3, <3>2 DEF AttachSessionControl
      <4> QED BY <4>1, <1>0 DEF EntryInv, TypeOK, ControlReachesActive
    <3> QED BY <3>1, <3>2
  <2> QED BY <1>0, <2>1, <2>2, <2>3 DEF EntryInv
<1>4. ASSUME NEW c \in Conns, HandleMetrics(c) \/ HandlePong(c) PROVE EntryInv'
  <2>1. /\ pc[c] = "running" /\ IsCurrent(c)
        /\ online' = [online EXCEPT ![node[c]] = TRUE]
        /\ UNCHANGED <<active, control, nextSessionId, pc, node, sid>>
    BY <1>4 DEF HandleMetrics, HandlePong, sessionVars
  <2>2. OnlineHasLiveSession'
    BY <2>1, <1>0 DEF EntryInv, TypeOK, OnlineHasLiveSession, IsCurrent
  <2> QED
    BY <1>0, <2>1, <2>2 DEF EntryInv, IdsFresh, IdsUnique, ControlReachesActive
<1>5. ASSUME NEW c \in Conns, pc[c] \in {"running", "refreshing"}, LeaveLoop(c),
             UNCHANGED entryVars
      PROVE  EntryInv'
  <2>1. SessionMove
    BY <1>5, <1>0 DEF LeaveLoop, TypeOK, SessionMove, entryVars
  <2> QED BY <1>0, <2>1, SessionMoves
<1>6. ASSUME NEW c \in Conns, MarkDisconnected(c) PROVE EntryInv'
  <2>1. IdsFresh' /\ IdsUnique'
    BY <1>6, <1>0 DEF EntryInv, TypeOK, MarkDisconnected, IdsFresh, IdsUnique
  <2>2. CASE IsCurrent(c)
    <3>1. OnlineHasLiveSession'
      BY <1>6, <1>0, <2>2
      DEF EntryInv, TypeOK, MarkDisconnected, OnlineHasLiveSession
    <3>2. ControlReachesActive'
      <4>1. /\ control' = [control EXCEPT ![node[c]] = NoConn]
            /\ active' = [active EXCEPT ![node[c]] = None]
            /\ pc' = [pc EXCEPT ![c] = "closed"]
            /\ UNCHANGED <<node, sid>>
        BY <1>6, <2>2 DEF MarkDisconnected
      <4> QED BY <4>1, <1>0 DEF EntryInv, TypeOK, ControlReachesActive
    <3> QED BY <1>0, <2>1, <3>1, <3>2 DEF EntryInv
  <2>3. CASE ~IsCurrent(c)
    <3>1. /\ UNCHANGED <<active, online, control, node, sid>>
          /\ pc' = [pc EXCEPT ![c] = "closed"]
      BY <1>6, <2>3 DEF MarkDisconnected
    <3>2. OnlineHasLiveSession'
      BY <3>1, <1>0, <2>3 DEF EntryInv, TypeOK, OnlineHasLiveSession, IsCurrent
    <3>3. ControlReachesActive'
      BY <3>1, <1>0, <2>3, NoConnAssumption
      DEF EntryInv, TypeOK, ControlReachesActive, IsCurrent
    <3> QED BY <1>0, <2>1, <3>2, <3>3 DEF EntryInv
  <2> QED BY <2>2, <2>3
<1>7. ASSUME NEW c \in Conns, ReceiveCommand(c) \/ RefreshSucceeds(c) PROVE EntryInv'
  <2>1. CASE ReceiveCommand(c)
    <3>1. SessionMove
      BY <2>1, <1>0 DEF ReceiveCommand, TypeOK, SessionMove, entryVars
    <3> QED BY <1>0, <3>1, SessionMoves
  <2>2. CASE RefreshSucceeds(c)
    <3>1. SessionMove
      BY <2>2, <1>0 DEF RefreshSucceeds, TypeOK, SessionMove, entryVars
    <3> QED BY <1>0, <3>1, SessionMoves
  <2> QED BY <1>7, <2>1, <2>2
<1>8. ASSUME NEW r \in Requests, RequestStep(r) PROVE EntryInv'
  <2>1. UNCHANGED <<sessionVars, entryVars>>
    BY <1>8 DEF RequestStep, CloneControl, AcquirePermit, SendCommand, RequestTimeout
  <2>2. SessionMove
    BY <2>1 DEF SessionMove, sessionVars, entryVars
  <2> QED BY <1>0, <2>2, SessionMoves
<1>9. CASE Tick
  BY <1>9, <1>0 DEF EntryInv, Tick, sessionVars, IdsFresh, IdsUnique,
     OnlineHasLiveSession, ControlReachesActive
<1>10. CASE MarkStale
  <2>1. IdsFresh' /\ IdsUnique'
    BY <1>10 DEF EntryInv, MarkStale, sessionVars, IdsFresh, IdsUnique
  <2>2. OnlineHasLiveSession'
    BY <1>10, <1>0 DEF EntryInv, TypeOK, MarkStale, sessionVars, OnlineHasLiveSession
  <2>3. ControlReachesActive'
    BY <1>10, <1>0, NoConnAssumption
    DEF EntryInv, TypeOK, MarkStale, sessionVars, ControlReachesActive
  <2> QED BY <1>0, <2>1, <2>2, <2>3 DEF EntryInv
<1>11. CASE UNCHANGED vars
  <2>1. SessionMove
    BY <1>11 DEF vars, SessionMove
  <2> QED BY <1>0, <2>1, SessionMoves
<1> QED
  BY <1>1, <1>2, <1>3, <1>4, <1>5, <1>6, <1>7, <1>8, <1>9, <1>10, <1>11
  DEF Next, SessionStep, DetectSuperseded, ControlClosed, SocketEnds, RefreshFails

\* The inductive invariant holds in every behaviour.
THEOREM EntryInvariant == Spec => []EntryInv
  BY EntryInit, EntryStep, PTL DEF Spec

\* An online node is owned by a session whose task will take it offline.
THEOREM OnlineIsOwned == Spec => []OnlineHasLiveSession
  BY EntryInvariant, PTL DEF EntryInv

\* The command channel in a node's entry belongs to the session that owns it.
THEOREM ControlIsCurrent == Spec => []ControlReachesActive
  BY EntryInvariant, PTL DEF EntryInv

(***************************************************************************)
(* Why a node goes offline.                                                *)
(***************************************************************************)

\* Only two actions take a node offline: its own session's return to
\* handle_socket, and the sweep of the reaper.
LEMMA OfflineStep ==
  ASSUME TypeOK, [Next]_vars, NEW n \in Nodes, online[n], ~online'[n]
  PROVE  \/ age[n] >= StaleAfter
         \/ \E c \in Conns : node[c] = n /\ sid[c] = active[n]
                             /\ pc[c] = "closing" /\ pc'[c] = "closed"
<1>1. ASSUME NEW c \in Conns, MarkDisconnected(c)
      PROVE  node[c] = n /\ sid[c] = active[n]
             /\ pc[c] = "closing" /\ pc'[c] = "closed"
  BY <1>1 DEF MarkDisconnected, IsCurrent, TypeOK
<1>2. ASSUME MarkStale PROVE age[n] >= StaleAfter
  BY <1>2 DEF MarkStale, Stale, TypeOK
<1>3. ASSUME UNCHANGED online PROVE FALSE
  BY <1>3
<1>4. ASSUME NEW c \in Conns, RegisterNode(c) \/ HandleMetrics(c) \/ HandlePong(c)
      PROVE  FALSE
  BY <1>4 DEF RegisterNode, HandleMetrics, HandlePong, TypeOK
<1>5. ASSUME NEW c \in Conns, SessionStep(c),
             ~(RegisterNode(c) \/ HandleMetrics(c) \/ HandlePong(c) \/ MarkDisconnected(c))
      PROVE  UNCHANGED online
  BY <1>5 DEF SessionStep, TakeSessionId, AttachSessionControl, DetectSuperseded,
     ControlClosed, SocketEnds, ReceiveCommand, RefreshSucceeds, RefreshFails, entryVars
<1>6. ASSUME NEW r \in Requests, RequestStep(r) PROVE UNCHANGED online
  BY <1>6 DEF RequestStep, CloneControl, AcquirePermit, SendCommand, RequestTimeout,
     entryVars
<1> QED
  BY <1>1, <1>2, <1>3, <1>4, <1>5, <1>6 DEF Next, Tick, vars

\* A session that ends late never takes its successor offline.
THEOREM OfflineReason == Spec => OfflineForAReason
<1>1. TypeOK /\ [Next]_vars =>
        [\A n \in Nodes : online[n] /\ ~online'[n] =>
           \/ age[n] >= StaleAfter
           \/ \E c \in Conns : node[c] = n /\ sid[c] = active[n]
                               /\ pc[c] = "closing" /\ pc'[c] = "closed"]_vars
  BY OfflineStep
<1> QED BY <1>1, TypeCorrect, PTL DEF Spec, OfflineForAReason

(***************************************************************************)
(* The registry implements NodeOwnership.                                  *)
(***************************************************************************)

\* The owner of a node is the one session that has its active id.
OwnerFact ==
  \A n \in Nodes, c \in Conns : active[n] # None /\ sid[c] = active[n] => Owner(n) = c

\* Ids are unique, so the CHOOSE in Owner has one candidate.
LEMMA OwnerUnique == EntryInv => OwnerFact
  BY DEF EntryInv, OwnerFact, Owner, IdsUnique

\* A session keeps the id it has drawn.
LEMMA SidKept ==
  ASSUME TypeOK, IdsFresh, [Next]_vars, NEW c \in Conns, sid[c] # None
  PROVE  sid'[c] = sid[c]
<1>1. ASSUME NEW d \in Conns, TakeSessionId(d) PROVE sid'[c] = sid[c]
  BY <1>1 DEF TakeSessionId, IdsFresh, TypeOK
<1>2. ASSUME NEW d \in Conns, SessionStep(d), ~TakeSessionId(d) PROVE sid' = sid
  BY <1>2 DEF SessionStep, RegisterNode, AttachSessionControl, HandleMetrics, HandlePong,
     DetectSuperseded, ControlClosed, SocketEnds, MarkDisconnected, ReceiveCommand,
     RefreshSucceeds, RefreshFails, LeaveLoop, sessionVars
<1>3. ASSUME NEW r \in Requests, RequestStep(r) PROVE sid' = sid
  BY <1>3 DEF RequestStep, CloneControl, AcquirePermit, SendCommand, RequestTimeout,
     sessionVars
<1> QED BY <1>1, <1>2, <1>3 DEF Next, Tick, MarkStale, sessionVars, vars

\* A node whose active id stays keeps its owner.
LEMMA OwnerKept ==
  ASSUME EntryInv, EntryInv', [Next]_vars, OwnerFact, OwnerFact',
         NEW n \in Nodes, active'[n] = active[n]
  PROVE  Owner(n)' = Owner(n)
<1>1. CASE active[n] = None
  BY <1>1 DEF Owner
<1>2. CASE active[n] # None
  <2>1. PICK c \in Conns : sid[c] = active[n]
    BY <1>2 DEF EntryInv, OnlineHasLiveSession
  <2>2. sid'[c] = active'[n]
    BY <1>2, <2>1, SidKept DEF EntryInv
  <2> QED BY <1>2, <2>1, <2>2 DEF OwnerFact
<1> QED BY <1>1, <1>2

\* Every step of the sessions is a step of NodeOwnership or leaves it alone.
LEMMA OwnershipStep ==
  EntryInv /\ EntryInv' /\ OwnerFact /\ OwnerFact' /\ [Next]_vars
    => [Ownership!OwnershipNext]_Ownership!ownerVars
<1> SUFFICES ASSUME EntryInv, EntryInv', OwnerFact, OwnerFact', [Next]_vars
             PROVE  Ownership!OwnershipNext \/ UNCHANGED Ownership!ownerVars
  OBVIOUS
<1> DEFINE owner == [n \in Nodes |-> Owner(n)]
<1>0. TypeOK /\ TypeOK'
  BY DEF EntryInv
<1>1. ASSUME NEW c \in Conns, RegisterNode(c) PROVE Ownership!Take(node[c], c)
  <2>1. /\ pc[c] = "numbered" /\ pc' = [pc EXCEPT ![c] = "registered"]
        /\ active' = [active EXCEPT ![node[c]] = sid[c]]
        /\ UNCHANGED <<source, node, sid>>
    BY <1>1 DEF RegisterNode
  <2>2. c \notin Registered /\ Registered' = Registered \cup {c}
    BY <2>1, <1>0 DEF Registered, TypeOK
  <2>3. Owner(node[c])' = c
    BY <2>1, <1>0 DEF OwnerFact, EntryInv, IdsFresh, TypeOK
  <2>4. \A n \in Nodes : n # node[c] => Owner(n)' = Owner(n)
    BY <2>1, <1>0, OwnerKept DEF TypeOK
  <2>5. owner' = [owner EXCEPT ![node[c]] = c]
    BY <2>3, <2>4, <2>1
  <2> QED BY <2>1, <2>2, <2>5 DEF Ownership!Take
<1>2. ASSUME NEW c \in Conns, HandleMetrics(c) PROVE Ownership!Show(node[c])
  <2>1. /\ pc[c] = "running" /\ IsCurrent(c)
        /\ source' = [source EXCEPT ![node[c]] = c]
        /\ UNCHANGED <<active, pc, node, sid>>
    BY <1>2 DEF HandleMetrics, sessionVars
  <2>2. node[c] \in Nodes /\ owner[node[c]] = c
    BY <2>1, <1>0 DEF OwnerFact, EntryInv, IdsFresh, IsCurrent, TypeOK
  <2>3. owner' = owner /\ Registered' = Registered
    BY <2>1, OwnerKept DEF Registered
  <2> QED BY <2>1, <2>2, <2>3, NoConnAssumption DEF Ownership!Show
<1>3. ASSUME NEW S \in SUBSET Nodes, UNCHANGED <<source, Registered>>,
             \A n \in Nodes : active'[n] = IF n \in S THEN None ELSE active[n]
      PROVE  Ownership!Release(S)
  <2>1. \A n \in Nodes : Owner(n)' = IF n \in S THEN NoConn ELSE Owner(n)
    BY <1>3, OwnerKept DEF Owner
  <2> QED BY <1>3, <2>1 DEF Ownership!Release
<1>4. ASSUME NEW c \in Conns, MarkDisconnected(c)
      PROVE  \E S \in SUBSET Nodes : Ownership!Release(S)
  <2>1. UNCHANGED <<source, Registered>>
    BY <1>4, <1>0 DEF MarkDisconnected, Registered, TypeOK
  <2>2. CASE IsCurrent(c)
    <3>1. \A n \in Nodes : active'[n] = IF n \in {node[c]} THEN None ELSE active[n]
      BY <1>4, <2>2, <1>0 DEF MarkDisconnected, TypeOK
    <3>2. {node[c]} \in SUBSET Nodes
      BY <1>0 DEF TypeOK
    <3> QED BY <1>3, <2>1, <3>1, <3>2
  <2>3. CASE ~IsCurrent(c)
    <3>1. \A n \in Nodes : active'[n] = IF n \in {} THEN None ELSE active[n]
      BY <1>4, <2>3 DEF MarkDisconnected
    <3>2. {} \in SUBSET Nodes
      OBVIOUS
    <3> QED BY <1>3, <2>1, <3>1, <3>2
  <2> QED BY <2>2, <2>3
<1>5. ASSUME MarkStale PROVE \E S \in SUBSET Nodes : Ownership!Release(S)
  <2> DEFINE S == {n \in Nodes : Stale(n)}
  <2>1. \A n \in Nodes : active'[n] = IF n \in S THEN None ELSE active[n]
    BY <1>5 DEF MarkStale
  <2>2. UNCHANGED <<source, Registered>>
    BY <1>5 DEF MarkStale, sessionVars, Registered
  <2> QED BY <1>3, <2>1, <2>2
<1>6. ASSUME UNCHANGED <<active, source, Registered>> PROVE UNCHANGED Ownership!ownerVars
  BY <1>6, OwnerKept DEF Ownership!ownerVars
<1>7. ASSUME NEW c \in Conns, SessionStep(c),
             ~(RegisterNode(c) \/ HandleMetrics(c) \/ MarkDisconnected(c))
      PROVE  UNCHANGED <<active, source, Registered>>
  <2>1. UNCHANGED <<active, source>>
    BY <1>7 DEF SessionStep, TakeSessionId, AttachSessionControl, HandlePong,
       DetectSuperseded, ControlClosed, SocketEnds, ReceiveCommand, RefreshSucceeds,
       RefreshFails, entryVars
  <2>2. \/ pc' = pc
        \/ \E x, y \in {"authorized", "numbered"} :
             pc[c] = x /\ pc' = [pc EXCEPT ![c] = y]
        \/ \E x, y \in {"registered", "running", "refreshing", "closing"} :
             pc[c] = x /\ pc' = [pc EXCEPT ![c] = y]
    BY <1>7 DEF SessionStep, TakeSessionId, AttachSessionControl, HandlePong,
       DetectSuperseded, ControlClosed, SocketEnds, ReceiveCommand, RefreshSucceeds,
       RefreshFails, LeaveLoop, sessionVars
  <2>3. UNCHANGED Registered
    BY <2>2, <1>0 DEF Registered, TypeOK
  <2> QED BY <2>1, <2>3
<1>8. ASSUME NEW r \in Requests, RequestStep(r)
      PROVE  UNCHANGED <<active, source, Registered>>
  BY <1>8 DEF RequestStep, CloneControl, AcquirePermit, SendCommand, RequestTimeout,
     entryVars, sessionVars, Registered
<1>9. ASSUME Tick \/ UNCHANGED vars PROVE UNCHANGED <<active, source, Registered>>
  BY <1>9 DEF Tick, sessionVars, vars, Registered
<1> QED
  <2>1. CASE \E c \in Conns : SessionStep(c)
    <3>1. PICK c \in Conns : SessionStep(c)
      BY <2>1
    <3>2. CASE RegisterNode(c)
      BY <3>2, <1>1, <1>0 DEF Ownership!OwnershipNext, TypeOK
    <3>3. CASE HandleMetrics(c)
      BY <3>3, <1>2, <1>0 DEF Ownership!OwnershipNext, TypeOK
    <3>4. CASE MarkDisconnected(c)
      BY <3>4, <1>4 DEF Ownership!OwnershipNext
    <3> QED BY <3>1, <3>2, <3>3, <3>4, <1>6, <1>7
  <2>2. CASE \E r \in Requests : RequestStep(r)
    BY <2>2, <1>6, <1>8
  <2>3. CASE Tick \/ UNCHANGED vars
    BY <2>3, <1>6, <1>9
  <2>4. CASE MarkStale
    BY <2>4, <1>5 DEF Ownership!OwnershipNext
  <2> QED BY <2>1, <2>2, <2>3, <2>4 DEF Next

\* Sessions, reaper and requests together implement NodeOwnership.
THEOREM OwnershipImplemented == Spec => ImplementsOwnership
<1>1. Init => Ownership!OwnershipInit
  BY DEF Init, Ownership!OwnershipInit, Owner, Registered
<1> QED
  BY <1>1, EntryInvariant, OwnerUnique, OwnershipStep, PTL
  DEF Spec, ImplementsOwnership, Ownership!OwnershipSpec

(***************************************************************************)
(* The refresh permit.                                                     *)
(***************************************************************************)

\* The requests whose command is with session c.
Held(c) == Queued(c) \cup serving[c]

HeldByTarget ==
  \A c \in Conns : \A r \in Held(c) :
    target[r] = c /\ request[r] \in {"waiting", "abandoned"}

IdleHasNoTarget == \A r \in Requests : request[r] = "idle" <=> target[r] = NoConn

\* One command at a time: the channel of capacity 8 never holds more than one,
\* and none while a command is executed.
OneCommand ==
  \A c \in Conns : Len(queue[c]) <= 1 /\ (queue[c] = <<>> \/ serving[c] = {})

PermitInv ==
  TypeOK /\ HeldByTarget /\ IdleHasNoTarget /\ OneCommand /\ PermitHeldByOneCommand

\* A sequence with one element.
LEMMA Singleton ==
  ASSUME NEW S, NEW q \in Seq(S), Len(q) <= 1, q # <<>>
  PROVE  /\ Len(q) = 1
         /\ Head(q) = q[1] /\ Head(q) \in S
         /\ Tail(q) = <<>>
<1>1. Len(q) \in Nat /\ Len(q) # 0
  BY EmptySeq
<1>2. Len(q) = 1
  BY <1>1
<1>3. Head(q) \in S /\ Tail(q) \in Seq(S) /\ Len(Tail(q)) = 0
  BY <1>2, HeadTailProperties
<1>4. Tail(q) = <<>>
  <2> SUFFICES ASSUME Tail(q) # <<>> PROVE FALSE
    OBVIOUS
  <2> QED BY <1>3, EmptySeq
<1>5. Head(q) = q[1]
  OBVIOUS
<1> QED BY <1>2, <1>3, <1>4, <1>5

\* What is queued when a channel is empty, and when it is not.
LEMMA QueuedForms ==
  ASSUME TypeOK, OneCommand, NEW c \in Conns
  PROVE  /\ queue[c] = <<>> => Queued(c) = {}
         /\ queue[c] # <<>> => /\ Queued(c) = {Head(queue[c])}
                               /\ Tail(queue[c]) = <<>>
                               /\ Head(queue[c]) \in Requests
<1>1. queue[c] \in Seq(Requests) /\ Len(queue[c]) <= 1
  BY DEF TypeOK, OneCommand
<1>2. CASE queue[c] = <<>>
  BY <1>2 DEF Queued
<1>3. CASE queue[c] # <<>>
  <2>1. /\ Len(queue[c]) = 1
        /\ Head(queue[c]) = queue[c][1] /\ Head(queue[c]) \in Requests
        /\ Tail(queue[c]) = <<>>
    BY <1>1, <1>3, Singleton
  <2>2. Queued(c) = {queue[c][1]}
    BY <2>1 DEF Queued
  <2> QED BY <1>3, <2>1, <2>2
<1> QED BY <1>2, <1>3

\* The initial states satisfy the invariant.
LEMMA PermitInit == Init => PermitInv
<1> SUFFICES ASSUME Init PROVE PermitInv
  OBVIOUS
<1>1. TypeOK
  BY StaleAssumption DEF Init, TypeOK, PCs, RequestStates, None
<1>2. \A c \in Conns : Held(c) = {}
  BY DEF Init, Held, Queued
<1>3. \A c \in Conns : PermitHolders(c) = {}
  BY DEF Init, PermitHolders
<1> QED
  BY <1>1, <1>2, <1>3
  DEF Init, PermitInv, HeldByTarget, IdleHasNoTarget, OneCommand, PermitHeldByOneCommand

\* The invariant depends on these variables only.
LEMMA PermitKept ==
  PermitInv /\ TypeOK' /\ UNCHANGED commandVars => PermitInv'
  BY DEF PermitInv, commandVars, HeldByTarget, IdleHasNoTarget, OneCommand,
     PermitHeldByOneCommand, PermitHolders, Held, Queued

\* A session that gives up all its commands gives the permit back.
LEMMA PermitGivenBack ==
  ASSUME PermitInv, TypeOK', NEW c \in Conns, Answer(Held(c)),
         queue' = [queue EXCEPT ![c] = <<>>],
         serving' = [serving EXCEPT ![c] = {}],
         pending' = [pending EXCEPT ![c] = @ /\ Held(c) = {}]
  PROVE  PermitInv'
<1>0. TypeOK /\ TypeOK'
  BY DEF PermitInv
<1>1. \A r \in Requests :
        /\ r \in Held(c) => request'[r] = "idle" /\ target'[r] = NoConn
        /\ r \notin Held(c) => request'[r] = request[r] /\ target'[r] = target[r]
  BY <1>0 DEF Answer, TypeOK
<1>2. OneCommand'
  <2> SUFFICES ASSUME NEW d \in Conns
               PROVE  Len(queue'[d]) <= 1 /\ (queue'[d] = <<>> \/ serving'[d] = {})
    BY DEF OneCommand
  <2>1. CASE d = c
    BY <2>1, <1>0 DEF TypeOK
  <2>2. CASE d # c
    BY <2>2, <1>0 DEF TypeOK, PermitInv, OneCommand
  <2> QED BY <2>1, <2>2
<1>3. Held(c)' = {}
  <2>1. queue'[c] = <<>> /\ serving'[c] = {}
    BY <1>0 DEF TypeOK
  <2> QED BY <2>1 DEF Held, Queued
<1>4. \A d \in Conns \ {c} : Held(d)' = Held(d)
  BY <1>0 DEF TypeOK, Held, Queued
<1>5. \A d \in Conns \ {c} : Held(c) \cap Held(d) = {}
  BY DEF PermitInv, HeldByTarget
<1>6. \A d \in Conns : Held(d) \subseteq Requests
  <2> SUFFICES ASSUME NEW d \in Conns PROVE Queued(d) \cup serving[d] \subseteq Requests
    BY DEF Held
  <2>1. Queued(d) \subseteq Requests
    BY <1>0, QueuedForms DEF PermitInv
  <2> QED BY <2>1, <1>0 DEF TypeOK
<1>7. \A d \in Conns \ {c} : PermitHolders(d)' = PermitHolders(d)
  BY <1>1, <1>0, NoConnAssumption DEF PermitInv, HeldByTarget, PermitHolders
<1>8. PermitHolders(c)' = PermitHolders(c) \ Held(c)
  BY <1>1, NoConnAssumption DEF PermitHolders
<1>9. HeldByTarget'
  BY <1>1, <1>3, <1>4, <1>5, <1>6 DEF PermitInv, HeldByTarget
<1>10. IdleHasNoTarget'
  BY <1>1 DEF PermitInv, IdleHasNoTarget
<1>11. pending'[c] <=> PermitHolders(c)' # {}
  <2>1. CASE Held(c) = {}
    BY <2>1, <1>8, <1>0 DEF PermitInv, PermitHeldByOneCommand, TypeOK
  <2>2. CASE Held(c) # {}
    <3>1. PICK h \in Held(c) : TRUE
      BY <2>2
    <3>2. h \in PermitHolders(c)
      BY <1>6 DEF PermitInv, HeldByTarget, PermitHolders
    <3>3. PermitHolders(c)' = {}
      BY <3>2, <1>8 DEF PermitInv, PermitHeldByOneCommand
    <3> QED BY <3>3, <2>2, <1>0 DEF TypeOK
  <2> QED BY <2>1, <2>2
<1>12. PermitHeldByOneCommand'
  <2> SUFFICES ASSUME NEW d \in Conns
               PROVE  /\ pending'[d] <=> PermitHolders(d)' # {}
                      /\ \A r1, r2 \in PermitHolders(d)' : r1 = r2
                      /\ \A r \in PermitHolders(d)' :
                           request'[r] # "permitted" => r \in Held(d)'
    BY DEF PermitHeldByOneCommand, Held
  <2>1. CASE d = c
    <3>1. \A r \in PermitHolders(c)' : request'[r] = "permitted"
      BY <1>1, <1>8 DEF PermitInv, PermitHeldByOneCommand, PermitHolders, Held
    <3> QED
      BY <2>1, <1>8, <1>11, <3>1 DEF PermitInv, PermitHeldByOneCommand
  <2>2. CASE d # c
    <3>1. pending'[d] = pending[d]
      BY <2>2, <1>0 DEF TypeOK
    <3>2. \A r \in PermitHolders(d) : r \in Requests /\ r \notin Held(c)
      BY <2>2 DEF PermitInv, HeldByTarget, PermitHolders
    <3> QED
      BY <2>2, <1>1, <1>4, <1>7, <3>1, <3>2
      DEF PermitInv, PermitHeldByOneCommand, Held
  <2> QED BY <2>1, <2>2
<1> QED BY <1>2, <1>9, <1>10, <1>12 DEF PermitInv

\* A step in which a request with no command anywhere changes its place, the
\* permit of one session with it, and all channels stay as they are.
LEMMA PermitChangesHands ==
  ASSUME PermitInv, TypeOK', NEW r \in Requests, NEW c \in Conns,
         request[r] \in {"idle", "cloned", "permitted"},
         UNCHANGED <<queue, serving>>,
         \A q \in Requests \ {r} : request'[q] = request[q] /\ target'[q] = target[q],
         \A d \in Conns \ {c} : pending'[d] = pending[d],
         target[r] \in {c, NoConn}, target'[r] \in {c, NoConn},
         request'[r] \in {"idle", "cloned", "permitted"},
         request'[r] = "idle" <=> target'[r] = NoConn,
         IF request'[r] = "permitted"
           THEN pending'[c] /\ PermitHolders(c) \subseteq {r}
           ELSE pending'[c] = (pending[c] /\ request[r] # "permitted")
  PROVE  PermitInv'
<1>0. TypeOK
  BY DEF PermitInv
<1>1. \A d \in Conns : Held(d)' = Held(d) /\ r \notin Held(d) /\ Held(d) \subseteq Requests
  <2> SUFFICES ASSUME NEW d \in Conns
               PROVE  Held(d)' = Held(d) /\ r \notin Held(d) /\ Held(d) \subseteq Requests
    OBVIOUS
  <2>1. Queued(d) \subseteq Requests
    BY <1>0, QueuedForms DEF PermitInv
  <2>2. Held(d) \subseteq Requests
    BY <2>1, <1>0 DEF Held, TypeOK
  <2>3. r \notin Held(d)
    BY DEF PermitInv, HeldByTarget
  <2>4. Held(d)' = Held(d)
    BY DEF Held, Queued
  <2> QED BY <2>2, <2>3, <2>4
<1>2. \A d \in Conns \ {c} : PermitHolders(d)' = PermitHolders(d)
  BY NoConnAssumption DEF PermitHolders
<1>3. PermitHolders(c)' = IF request'[r] = "permitted" THEN {r} ELSE PermitHolders(c) \ {r}
  <2>1. CASE request'[r] = "permitted"
    <3>1. target'[r] = c
      BY <2>1
    <3>2. \A q \in Requests \ {r} : q \notin PermitHolders(c)'
      BY <2>1 DEF PermitHolders
    <3> QED BY <2>1, <3>1, <3>2 DEF PermitHolders
  <2>2. CASE request'[r] # "permitted"
    BY <2>2 DEF PermitHolders
  <2> QED BY <2>1, <2>2
<1>4. HeldByTarget'
  BY <1>1 DEF PermitInv, HeldByTarget
<1>5. IdleHasNoTarget' /\ OneCommand'
  BY DEF PermitInv, IdleHasNoTarget, OneCommand
<1>6. pending'[c] <=> PermitHolders(c)' # {}
  <2>1. CASE request'[r] = "permitted"
    BY <2>1, <1>3
  <2>2. CASE request'[r] # "permitted" /\ request[r] = "permitted"
    <3>1. r \in PermitHolders(c)
      BY <2>2, <1>0, NoConnAssumption DEF PermitHolders, PermitInv, IdleHasNoTarget
    <3>2. PermitHolders(c)' = {}
      BY <3>1, <2>2, <1>3 DEF PermitInv, PermitHeldByOneCommand
    <3> QED BY <3>2, <2>2
  <2>3. CASE request'[r] # "permitted" /\ request[r] # "permitted"
    <3>1. r \notin PermitHolders(c)
      BY <2>3 DEF PermitHolders
    <3> QED
      BY <3>1, <2>3, <1>3, <1>0 DEF PermitInv, PermitHeldByOneCommand, TypeOK
  <2> QED BY <2>1, <2>2, <2>3
<1>7. PermitHeldByOneCommand'
  <2> SUFFICES ASSUME NEW d \in Conns
               PROVE  /\ pending'[d] <=> PermitHolders(d)' # {}
                      /\ \A r1, r2 \in PermitHolders(d)' : r1 = r2
                      /\ \A q \in PermitHolders(d)' :
                           request'[q] # "permitted" => q \in Held(d)'
    BY DEF PermitHeldByOneCommand, Held
  <2>1. \A r1, r2 \in PermitHolders(d)' : r1 = r2
    BY <1>2, <1>3 DEF PermitInv, PermitHeldByOneCommand
  <2>2. \A q \in PermitHolders(d)' : request'[q] # "permitted" => q \in Held(d)'
    <3> SUFFICES ASSUME NEW q \in PermitHolders(d)', request'[q] # "permitted"
                 PROVE  q \in Held(d)
      BY <1>1
    <3>1. q \in Requests /\ q # r
      BY DEF PermitHolders
    <3>2. q \in PermitHolders(d) /\ request'[q] = request[q]
      BY <3>1 DEF PermitHolders
    <3> QED BY <3>2 DEF PermitInv, PermitHeldByOneCommand, Held
  <2>3. pending'[d] <=> PermitHolders(d)' # {}
    BY <1>2, <1>6 DEF PermitInv, PermitHeldByOneCommand
  <2> QED BY <2>1, <2>2, <2>3
<1> QED BY <1>4, <1>5, <1>7 DEF PermitInv

\* A session that executes a refresh serves a request.
Serves == \A c \in Conns : pc[c] = "refreshing" => serving[c] # {}

\* Every step keeps that.
LEMMA ServesStep == TypeOK /\ Serves /\ [Next]_vars => Serves'
<1> SUFFICES ASSUME TypeOK, Serves, [Next]_vars PROVE Serves'
  OBVIOUS
<1>1. ASSUME NEW c \in Conns, LeaveLoop(c) PROVE Serves'
  BY <1>1 DEF LeaveLoop, Serves, TypeOK
<1>2. ASSUME NEW c \in Conns, ReceiveCommand(c) \/ RefreshSucceeds(c) PROVE Serves'
  <2>1. CASE ReceiveCommand(c)
    BY <2>1 DEF ReceiveCommand, Serves, TypeOK
  <2>2. CASE RefreshSucceeds(c)
    BY <2>2 DEF RefreshSucceeds, Serves, TypeOK
  <2> QED BY <1>2, <2>1, <2>2
<1>3. ASSUME UNCHANGED serving,
             \A c \in Conns : pc'[c] = "refreshing" => pc[c] = "refreshing"
      PROVE  Serves'
  BY <1>3 DEF Serves
<1>4. ASSUME NEW c \in Conns,
             \/ TakeSessionId(c) \/ RegisterNode(c) \/ AttachSessionControl(c)
             \/ HandleMetrics(c) \/ HandlePong(c) \/ MarkDisconnected(c)
      PROVE  Serves'
  <2>1. UNCHANGED serving
    BY <1>4 DEF TakeSessionId, RegisterNode, AttachSessionControl, HandleMetrics,
       HandlePong, MarkDisconnected, commandVars
  <2>2. \A d \in Conns : pc'[d] = "refreshing" => pc[d] = "refreshing"
    BY <1>4 DEF TakeSessionId, RegisterNode, AttachSessionControl, HandleMetrics,
       HandlePong, MarkDisconnected, sessionVars, TypeOK
  <2> QED BY <2>1, <2>2, <1>3
<1>5. ASSUME NEW r \in Requests, RequestStep(r) PROVE Serves'
  BY <1>5, <1>3 DEF RequestStep, CloneControl, AcquirePermit, SendCommand,
     RequestTimeout, sessionVars
<1>6. ASSUME Tick \/ MarkStale \/ UNCHANGED vars PROVE Serves'
  BY <1>6, <1>3 DEF Tick, MarkStale, vars, sessionVars, commandVars
<1> QED
  BY <1>1, <1>2, <1>4, <1>5, <1>6
  DEF Next, SessionStep, DetectSuperseded, ControlClosed, SocketEnds, RefreshFails

\* The executed command is handed from the channel to the session.
LEMMA ReceiveKeepsPermit ==
  ASSUME PermitInv, TypeOK', NEW c \in Conns, ReceiveCommand(c)
  PROVE  PermitInv'
<1>1. TypeOK /\ UNCHANGED <<pending, request, target>>
  BY DEF PermitInv, ReceiveCommand
<1>2. /\ serving[c] = {} /\ Queued(c) = {Head(queue[c])}
      /\ queue'[c] = <<>> /\ serving'[c] = {Head(queue[c])}
  <2>1. queue[c] # <<>>
    BY DEF ReceiveCommand
  <2>2. serving[c] = {}
    BY <2>1 DEF PermitInv, OneCommand
  <2>3. Queued(c) = {Head(queue[c])} /\ Tail(queue[c]) = <<>>
    BY <2>1, QueuedForms DEF PermitInv
  <2> QED BY <2>2, <2>3, <1>1 DEF ReceiveCommand, TypeOK
<1>3. \A d \in Conns : Held(d)' = Held(d)
  <2> SUFFICES ASSUME NEW d \in Conns PROVE Held(d)' = Held(d)
    OBVIOUS
  <2>1. CASE d = c
    <3>1. Queued(c)' = {}
      BY <1>2 DEF Queued
    <3>2. Held(c)' = {Head(queue[c])} /\ Held(c) = {Head(queue[c])}
      BY <3>1, <1>2 DEF Held
    <3> QED BY <2>1, <3>2
  <2>2. CASE d # c
    <3>1. queue'[d] = queue[d] /\ serving'[d] = serving[d]
      BY <2>2, <1>1 DEF ReceiveCommand, TypeOK
    <3> QED BY <3>1 DEF Held, Queued
  <2> QED BY <2>1, <2>2
<1>4. OneCommand'
  <2> SUFFICES ASSUME NEW d \in Conns
               PROVE  Len(queue'[d]) <= 1 /\ (queue'[d] = <<>> \/ serving'[d] = {})
    BY DEF OneCommand
  <2>1. CASE d = c
    BY <2>1, <1>2
  <2>2. CASE d # c
    BY <2>2, <1>1 DEF ReceiveCommand, TypeOK, PermitInv, OneCommand
  <2> QED BY <2>1, <2>2
<1>5. \A d \in Conns : PermitHolders(d)' = PermitHolders(d)
  BY <1>1 DEF PermitHolders
<1>6. HeldByTarget' /\ IdleHasNoTarget'
  BY <1>1, <1>3 DEF PermitInv, HeldByTarget, IdleHasNoTarget
<1>7. PermitHeldByOneCommand'
  BY <1>1, <1>3, <1>5 DEF PermitInv, PermitHeldByOneCommand, Held
<1> QED BY <1>4, <1>6, <1>7 DEF PermitInv

\* The command of a request that holds the permit enters the channel, which was
\* empty.
LEMMA SendKeepsPermit ==
  ASSUME PermitInv, TypeOK', NEW r \in Requests, SendCommand(r),
         ReceiverOpen(target[r]), Len(queue[target[r]]) < ControlCapacity
  PROVE  PermitInv'
<1> DEFINE c == target[r]
<1>1. TypeOK /\ request[r] = "permitted" /\ c \in Conns
  BY DEF PermitInv, SendCommand, IdleHasNoTarget, TypeOK
<1>2. /\ queue' = [queue EXCEPT ![c] = Append(queue[c], r)]
      /\ request' = [request EXCEPT ![r] = "waiting"]
      /\ UNCHANGED <<target, pending, serving>>
  BY DEF SendCommand
<1>3. PermitHolders(c) = {r}
  BY <1>1 DEF PermitInv, PermitHeldByOneCommand, PermitHolders
<1>4. Held(c) = {}
  <2> SUFFICES ASSUME NEW h \in Held(c) PROVE FALSE
    OBVIOUS
  <2>1. Queued(c) \subseteq Requests
    BY <1>1, QueuedForms DEF PermitInv
  <2>2. h \in Requests /\ target[h] = c /\ request[h] \in {"waiting", "abandoned"}
    BY <1>1, <2>1 DEF PermitInv, HeldByTarget, Held, TypeOK
  <2> QED BY <2>2, <1>1, <1>3 DEF PermitHolders
<1>5. queue[c] = <<>> /\ serving[c] = {}
  BY <1>1, <1>4, QueuedForms DEF Held, PermitInv
<1>6. queue'[c] = <<r>>
  BY <1>1, <1>2, <1>5 DEF TypeOK
<1>7. Held(c)' = {r}
  BY <1>2, <1>5, <1>6 DEF Held, Queued
<1>8. \A d \in Conns \ {c} : Held(d)' = Held(d)
  BY <1>1, <1>2 DEF Held, Queued, TypeOK
<1>9. \A d \in Conns : PermitHolders(d)' = PermitHolders(d)
  BY <1>1, <1>2 DEF PermitHolders, TypeOK
<1>10. OneCommand'
  <2> SUFFICES ASSUME NEW d \in Conns
               PROVE  Len(queue'[d]) <= 1 /\ (queue'[d] = <<>> \/ serving'[d] = {})
    BY DEF OneCommand
  <2>1. CASE d = c
    BY <2>1, <1>2, <1>5, <1>6
  <2>2. CASE d # c
    BY <2>2, <1>1, <1>2 DEF TypeOK, PermitInv, OneCommand
  <2> QED BY <2>1, <2>2
<1>11. \A d \in Conns \ {c} : \A h \in Held(d) : h # r
  BY DEF PermitInv, HeldByTarget
<1>12. HeldByTarget'
  <2> SUFFICES ASSUME NEW d \in Conns, NEW h \in Held(d)'
               PROVE  target'[h] = d /\ request'[h] \in {"waiting", "abandoned"}
    BY DEF HeldByTarget
  <2>1. CASE d = c
    BY <2>1, <1>1, <1>2, <1>7 DEF TypeOK
  <2>2. CASE d # c
    <3>1. Queued(d) \subseteq Requests
      BY <1>1, QueuedForms DEF PermitInv
    <3>2. h \in Held(d) /\ h \in Requests /\ h # r
      BY <2>2, <3>1, <1>1, <1>8, <1>11 DEF Held, TypeOK
    <3> QED BY <3>2, <1>1, <1>2 DEF PermitInv, HeldByTarget, TypeOK
  <2> QED BY <2>1, <2>2
<1>13. IdleHasNoTarget'
  BY <1>1, <1>2 DEF PermitInv, IdleHasNoTarget, TypeOK
<1>14. PermitHeldByOneCommand'
  <2> SUFFICES ASSUME NEW d \in Conns
               PROVE  /\ pending'[d] <=> PermitHolders(d)' # {}
                      /\ \A r1, r2 \in PermitHolders(d)' : r1 = r2
                      /\ \A q \in PermitHolders(d)' :
                           request'[q] # "permitted" => q \in Held(d)'
    BY DEF PermitHeldByOneCommand, Held
  <2>1. CASE d = c
    BY <2>1, <1>2, <1>3, <1>7, <1>9 DEF PermitInv, PermitHeldByOneCommand
  <2>2. CASE d # c
    <3>1. \A q \in PermitHolders(d) : q \in Requests /\ q # r
      BY <2>2 DEF PermitHolders
    <3> QED
      <4>1. PermitHolders(d)' = PermitHolders(d) /\ pending'[d] = pending[d]
            /\ Held(d)' = Held(d)
        BY <2>2, <1>2, <1>8, <1>9
      <4>2. \A q \in PermitHolders(d) : request'[q] = request[q]
        BY <3>1, <1>1, <1>2 DEF TypeOK
      <4> QED BY <4>1, <4>2 DEF PermitInv, PermitHeldByOneCommand, Held
  <2> QED BY <2>1, <2>2
<1> QED BY <1>10, <1>12, <1>13, <1>14 DEF PermitInv

\* Every step keeps the invariant.
LEMMA PermitStep == PermitInv /\ Serves /\ [Next]_vars => PermitInv'
<1> SUFFICES ASSUME PermitInv, Serves, [Next]_vars PROVE PermitInv'
  OBVIOUS
<1>0. TypeOK /\ TypeOK'
  BY TypeStep DEF PermitInv
<1>1. ASSUME UNCHANGED commandVars PROVE PermitInv'
  BY <1>0, <1>1, PermitKept
<1>2. ASSUME NEW c \in Conns, LeaveLoop(c) PROVE PermitInv'
  BY <1>0, <1>2, PermitGivenBack DEF LeaveLoop, Held
<1>3. ASSUME NEW c \in Conns, RefreshSucceeds(c) PROVE PermitInv'
  <2>1. serving[c] # {} /\ queue[c] = <<>>
    BY <1>3 DEF RefreshSucceeds, Serves, PermitInv, OneCommand
  <2>2. Held(c) = serving[c]
    BY <1>0, <2>1, QueuedForms DEF PermitInv, Held
  <2>3. Answer(Held(c)) /\ serving' = [serving EXCEPT ![c] = {}]
    BY <1>3, <2>2 DEF RefreshSucceeds
  <2>4. queue' = [queue EXCEPT ![c] = <<>>]
    BY <1>3, <1>0, <2>1 DEF RefreshSucceeds, TypeOK
  <2>5. pending' = [pending EXCEPT ![c] = @ /\ Held(c) = {}]
    BY <1>3, <1>0, <2>1, <2>2 DEF RefreshSucceeds, TypeOK
  <2> QED BY <1>0, <2>3, <2>4, <2>5, PermitGivenBack
<1>4. ASSUME NEW c \in Conns, ReceiveCommand(c) PROVE PermitInv'
  BY <1>0, <1>4, ReceiveKeepsPermit
<1>5. ASSUME NEW r \in Requests, NEW n \in Nodes, CloneControl(r, n) PROVE PermitInv'
  <2>1. /\ request[r] = "idle" /\ control[n] \in Conns
        /\ request' = [request EXCEPT ![r] = "cloned"]
        /\ target' = [target EXCEPT ![r] = control[n]]
        /\ UNCHANGED <<queue, pending, serving>>
    BY <1>5, <1>0 DEF CloneControl, TypeOK
  <2>2. target[r] = NoConn /\ target'[r] = control[n] /\ request'[r] = "cloned"
    BY <2>1, <1>0 DEF PermitInv, IdleHasNoTarget, TypeOK
  <2>3. \A q \in Requests \ {r} : request'[q] = request[q] /\ target'[q] = target[q]
    BY <2>1, <1>0 DEF TypeOK
  <2>4. pending'[control[n]] = (pending[control[n]] /\ request[r] # "permitted")
    BY <2>1, <1>0 DEF TypeOK
  <2> QED BY <1>0, <2>1, <2>2, <2>3, <2>4, NoConnAssumption, PermitChangesHands
<1>6. ASSUME NEW r \in Requests, AcquirePermit(r) PROVE PermitInv'
  <2> DEFINE c == target[r]
  <2>1. request[r] = "cloned" /\ c \in Conns /\ UNCHANGED <<queue, serving>>
    BY <1>6, <1>0 DEF AcquirePermit, PermitInv, IdleHasNoTarget, TypeOK
  <2>2. CASE pending[c]
    <3>1. request'[r] = "idle" /\ target'[r] = NoConn /\ pending' = pending
      BY <1>6, <1>0, <2>2 DEF AcquirePermit, Answer, TypeOK
    <3>2. \A q \in Requests \ {r} : request'[q] = request[q] /\ target'[q] = target[q]
      BY <1>6, <1>0, <2>2 DEF AcquirePermit, Answer, TypeOK
    <3>3. pending'[c] = (pending[c] /\ request[r] # "permitted")
      BY <3>1, <2>1, <1>0 DEF TypeOK
    <3> QED BY <1>0, <2>1, <3>1, <3>2, <3>3, PermitChangesHands
  <2>3. CASE ~pending[c]
    <3>1. /\ request'[r] = "permitted" /\ target' = target
          /\ \A d \in Conns \ {c} : pending'[d] = pending[d]
          /\ pending'[c]
      BY <1>6, <1>0, <2>1, <2>3 DEF AcquirePermit, TypeOK
    <3>2. \A q \in Requests \ {r} : request'[q] = request[q] /\ target'[q] = target[q]
      BY <1>6, <1>0, <2>3 DEF AcquirePermit, TypeOK
    <3>3. PermitHolders(c) \subseteq {r}
      BY <2>1, <2>3 DEF PermitInv, PermitHeldByOneCommand
    <3> QED
      BY <1>0, <2>1, <3>1, <3>2, <3>3, NoConnAssumption, PermitChangesHands
  <2> QED BY <2>2, <2>3
<1>7. ASSUME NEW r \in Requests, SendCommand(r) PROVE PermitInv'
  <2> DEFINE c == target[r]
  <2>1. request[r] = "permitted" /\ c \in Conns
    BY <1>7, <1>0 DEF SendCommand, PermitInv, IdleHasNoTarget, TypeOK
  <2>2. CASE ReceiverOpen(c) /\ Len(queue[c]) < ControlCapacity
    BY <1>0, <1>7, <2>2, SendKeepsPermit
  <2>3. CASE ~(ReceiverOpen(c) /\ Len(queue[c]) < ControlCapacity)
    <3>1. /\ request'[r] = "idle" /\ target'[r] = NoConn
          /\ pending' = [pending EXCEPT ![c] = FALSE]
          /\ UNCHANGED <<queue, serving>>
      BY <1>7, <1>0, <2>3 DEF SendCommand, Answer, TypeOK
    <3>2. \A q \in Requests \ {r} : request'[q] = request[q] /\ target'[q] = target[q]
      BY <1>7, <1>0, <2>3 DEF SendCommand, Answer, TypeOK
    <3>3. \A d \in Conns \ {c} : pending'[d] = pending[d]
      BY <3>1, <1>0 DEF TypeOK
    <3>4. pending'[c] = (pending[c] /\ request[r] # "permitted")
      BY <3>1, <2>1, <1>0 DEF TypeOK
    <3> QED BY <1>0, <2>1, <3>1, <3>2, <3>3, <3>4, PermitChangesHands
  <2> QED BY <2>2, <2>3
<1>8. ASSUME NEW r \in Requests, RequestTimeout(r) PROVE PermitInv'
  <2>1. /\ request[r] = "waiting"
        /\ request' = [request EXCEPT ![r] = "abandoned"]
        /\ UNCHANGED <<queue, pending, serving, target>>
    BY <1>8 DEF RequestTimeout
  <2>2. \A d \in Conns : Held(d)' = Held(d) /\ PermitHolders(d)' = PermitHolders(d)
    BY <2>1, <1>0 DEF Held, Queued, PermitHolders, TypeOK
  <2>3. \A d \in Conns : Held(d) \subseteq Requests
    BY <1>0, QueuedForms DEF Held, PermitInv, TypeOK
  <2>4. \A q \in Requests :
          request'[q] \in {"waiting", "abandoned"} <=> request[q] \in {"waiting", "abandoned"}
    BY <2>1, <1>0 DEF TypeOK
  <2>5. HeldByTarget' /\ IdleHasNoTarget' /\ OneCommand'
    BY <2>1, <2>2, <2>3, <2>4, <1>0
    DEF PermitInv, HeldByTarget, IdleHasNoTarget, OneCommand, TypeOK
  <2>6. PermitHeldByOneCommand'
    BY <2>1, <2>2, <1>0 DEF PermitInv, PermitHeldByOneCommand, PermitHolders, Held, TypeOK
  <2> QED BY <1>0, <2>5, <2>6 DEF PermitInv
<1> QED
  BY <1>1, <1>2, <1>3, <1>4, <1>5, <1>6, <1>7, <1>8
  DEF Next, SessionStep, RequestStep, TakeSessionId, RegisterNode, AttachSessionControl,
      HandleMetrics, HandlePong, DetectSuperseded, ControlClosed, SocketEnds,
      MarkDisconnected, RefreshFails, Tick, MarkStale, vars, commandVars

\* The permit of a session is held by exactly the one command that is about to
\* be sent, queued or executed.
THEOREM PermitIsHeldByOneCommand == Spec => []PermitHeldByOneCommand
<1>1. Init => PermitInv /\ Serves
  BY PermitInit DEF Init, Serves
<1>2. PermitInv /\ Serves /\ [Next]_vars => PermitInv' /\ Serves'
  BY PermitStep, ServesStep DEF PermitInv
<1>3. PermitInv => PermitHeldByOneCommand
  BY DEF PermitInv
<1> QED BY <1>1, <1>2, <1>3, PTL DEF Spec
==============================================================================
