------------------------- MODULE TokenRegistry_proofs -------------------------
(***************************************************************************)
(* Proofs about TokenRegistry for every set of nodes and processes and     *)
(* every bound: the versioned write implements AtomicRegistry, a session   *)
(* on the fast path holds the generation the server holds, and memory that *)
(* differs from the file is noticed by the next poll.                      *)
(***************************************************************************)
EXTENDS TokenRegistry, TLAPS

(***************************************************************************)
(* The type invariant.                                                     *)
(***************************************************************************)

\* The operations on a file return files.
LEMMA FileOperations ==
  ASSUME NEW f \in Files, NEW n \in Nodes, NEW S
  PROVE  /\ Pruned(f, S) \in Files
         /\ Rotated(f, n) \in Files
         /\ Issued(f, n, S) \in Files
         /\ Consumed(f, n, S) \in Files
<1>1. f.version \in Nat /\ f.gen \in Generations /\ f.install \in Generations
  BY DEF Files
<1>2. [m \in Nodes |-> IF m \in S THEN 0 ELSE f.install[m]] \in Generations
  BY <1>1 DEF Generations
<1>3. Pruned(f, S) \in Files
  BY <1>2 DEF Pruned, Files
<1>4. Pruned(f, S).install \in Generations
  BY <1>3 DEF Files
<1>5. [f.gen EXCEPT ![n] = @ + 1] \in Generations
  BY <1>1 DEF Generations
<1>6. Rotated(f, n) \in Files
  BY <1>5 DEF Rotated, Files
<1>7. [Pruned(f, S).install EXCEPT ![n] = f.gen[n] + 1] \in Generations
  BY <1>1, <1>4 DEF Generations
<1>8. Issued(f, n, S) \in Files
  BY <1>5, <1>7 DEF Issued, Files
<1>9. [Pruned(f, S).install EXCEPT ![n] = 0] \in Generations
  BY <1>4 DEF Generations
<1>10. Consumed(f, n, S) \in Files
  BY <1>9 DEF Consumed, Files
<1> QED BY <1>3, <1>6, <1>8, <1>10

\* So does what a process prepares.
LEMMA PreparedIsFile ==
  ASSUME NEW f \in Files, NEW t, t.node \in Nodes, NEW S, NEW p \in Procs
  PROVE  Prepared(p, f, t, S) \in Files
  BY FileOperations DEF Prepared

\* A process that comes to rest is well typed.
LEMMA RestType ==
  ASSUME TypeOK, NEW p \in Procs, Rest(p)
  PROVE  /\ pc' \in [Procs -> PCs]
         /\ wanted' \in [Procs -> [node : Nodes, gen : Nat]]
         /\ draft' \in [Procs -> Files]
         /\ base' \in [Procs -> Nat]
         /\ tries' \in [Procs -> 0..(MaxWriteRetries - 1)]
         /\ found' \in [Procs -> BOOLEAN]
         /\ seen' \in [Procs -> Nat]
<1>1. EmptyFile \in Files
  BY DEF EmptyFile, Files, Generations
<1>2. 0 \in 0..(MaxWriteRetries - 1)
  BY RetriesAssumption
<1>3. wanted' \in [Procs -> [node : Nodes, gen : Nat]]
  BY DEF TypeOK, Rest
<1> QED BY <1>1, <1>2, <1>3 DEF TypeOK, Rest, PCs

\* A session that is turned off is well typed.
LEMMA TurnOffType ==
  ASSUME TypeOK, NEW s \in Sessions, TurnOff(s)
  PROVE  /\ session' \in [Sessions -> {"off", "verifying", "on"}]
         /\ entry' \in [Sessions -> Nat]
         /\ round' \in [Sessions -> 1..2]
         /\ generation' \in [Sessions -> Nat]
         /\ cached' \in [Sessions -> Nat]
         /\ selfRotated' \in [Sessions -> BOOLEAN]
  BY DEF TypeOK, TurnOff

\* What a failed operation leaves of a process and its session is well typed.
LEMMA FailType ==
  ASSUME TypeOK, NEW p \in Procs, Fail(p), UNCHANGED <<diskVars, memoryVars>>
  PROVE  TypeOK'
<1>1. CASE UNCHANGED sessionVars
  BY <1>1, RestType DEF Fail, TypeOK, diskVars, memoryVars, sessionVars
<1>2. CASE p \in Sessions /\ TurnOff(p)
  BY <1>2, RestType, TurnOffType DEF Fail, TypeOK, diskVars, memoryVars
<1> QED BY <1>1, <1>2 DEF Fail

\* Every step keeps the variables in their types.
LEMMA TypeStep == TypeOK /\ [Next]_vars => TypeOK'
<1> SUFFICES ASSUME TypeOK, [Next]_vars PROVE TypeOK'
  OBVIOUS
<1>0. /\ file \in Files /\ file.version \in Nat
      /\ file.gen \in Generations /\ file.install \in Generations
      /\ state.gen \in Generations
  BY DEF TypeOK, Files, Contents
<1>1. ASSUME NEW p \in Procs, NEW t \in Targets, NEW S \in SUBSET Nodes, Prepare(p, t, S)
      PROVE  TypeOK'
  <2>1. Prepared(p, file, t, S) \in Files
    BY <1>0, PreparedIsFile DEF Targets
  <2>2. t \in [node : Nodes, gen : Nat] \/ t = wanted[p]
    BY <1>0, <1>1 DEF Prepare, Targets, Target, Generations, TypeOK
  <2>3. t \in [node : Nodes, gen : Nat]
    BY <2>2 DEF TypeOK
  <2>4. /\ wanted' = [wanted EXCEPT ![p] = t]
        /\ draft' = [draft EXCEPT ![p] = Prepared(p, file, t, S)]
        /\ base' = [base EXCEPT ![p] = file.version]
        /\ found' \in [Procs -> BOOLEAN]
        /\ pc' \in [Procs -> PCs] /\ overlapped' \in BOOLEAN
    BY <1>1 DEF Prepare, TypeOK, PCs
  <2> QED
    BY <1>0, <1>1, <2>1, <2>3, <2>4
    DEF Prepare, TypeOK, diskVars, sessionVars
<1>2. ASSUME NEW p \in Procs, Commit(p) PROVE TypeOK'
  <2>1. draft[p] \in Files /\ draft[p].gen \in Generations /\ wanted[p].node \in Nodes
        /\ base[p] \in Nat
    BY DEF TypeOK, Files
  <2>2. file' \in Files
    BY <1>2, <2>1 DEF Commit, Files
  <2>3. CASE p \in Sessions /\ pc' = [pc EXCEPT ![p] = "stat"]
             /\ wanted' = [wanted EXCEPT ![p].gen = draft[p].gen[wanted[p].node]]
             /\ UNCHANGED <<draft, base, tries, found, seen, handed, overlapped>>
    <3>1. wanted' \in [Procs -> [node : Nodes, gen : Nat]]
      BY <2>1, <2>3 DEF TypeOK, Generations
    <3> QED BY <1>2, <2>2, <2>3, <3>1 DEF Commit, TypeOK, PCs, sessionVars
  <2>4. CASE p \in Installers /\ pc' = [pc EXCEPT ![p] = "apply"]
             /\ handed' = [handed EXCEPT ![wanted[p].node] =
                             @ \cup (IF found[p] THEN {wanted[p].gen} ELSE {})]
             /\ overlapped' = (overlapped \/ Overlaps(p))
             /\ UNCHANGED <<wanted, draft, base, tries, found, seen>>
    <3>1. handed' \in [Nodes -> SUBSET Nat]
      BY <2>1, <2>4 DEF TypeOK
    <3> QED BY <1>2, <2>2, <2>4, <3>1 DEF Commit, TypeOK, PCs, sessionVars
  <2>5. CASE p \in Issuers /\ Rest(p) /\ UNCHANGED <<handed, overlapped>>
    BY <1>2, <2>2, <2>5, RestType DEF Commit, TypeOK, sessionVars
  <2> QED BY <1>2, <2>3, <2>4, <2>5 DEF Commit
<1>3. ASSUME NEW p \in Procs, Conflict(p) PROVE TypeOK'
  <2>1. CASE tries[p] + 1 < MaxWriteRetries
    <3>1. EmptyFile \in Files
      BY DEF EmptyFile, Files, Generations
    <3>2. tries' \in [Procs -> 0..(MaxWriteRetries - 1)]
      BY <1>3, <2>1, RetriesAssumption DEF Conflict, TypeOK
    <3>3. pc' \in [Procs -> PCs] /\ draft' \in [Procs -> Files] /\ base' \in [Procs -> Nat]
      <4>1. /\ pc' = [pc EXCEPT ![p] = "retry"]
            /\ draft' = [draft EXCEPT ![p] = EmptyFile]
            /\ base' = [base EXCEPT ![p] = 0]
        BY <1>3, <2>1 DEF Conflict
      <4>2. /\ pc \in [Procs -> PCs] /\ "retry" \in PCs
            /\ draft \in [Procs -> Files] /\ base \in [Procs -> Nat]
        BY DEF TypeOK, PCs
      <4> QED BY <3>1, <4>1, <4>2
    <3> QED
      BY <1>3, <2>1, <3>2, <3>3
      DEF Conflict, TypeOK, diskVars, memoryVars, sessionVars
  <2>2. CASE ~(tries[p] + 1 < MaxWriteRetries)
    BY <1>3, <2>2, FailType DEF Conflict
  <2> QED BY <2>1, <2>2
<1>4. ASSUME NEW p \in Procs, Stat(p) PROVE TypeOK'
  <2>1. pc' \in [Procs -> PCs] /\ seen' \in [Procs -> Nat]
    BY <1>0, <1>4 DEF Stat, TypeOK, PCs
  <2> QED BY <1>4, <2>1 DEF Stat, TypeOK, diskVars, memoryVars, sessionVars
<1>5. CASE Compare
  <2>1. Poller \in Procs
    BY DEF Procs
  <2>2. CASE Rest(Poller)
    BY <1>5, <2>1, <2>2, RestType DEF Compare, TypeOK, diskVars, memoryVars, sessionVars
  <2>3. CASE ~Rest(Poller)
    BY <1>5, <2>3 DEF Compare, TypeOK, PCs, diskVars, memoryVars, sessionVars
  <2> QED BY <2>2, <2>3
<1>6. ASSUME NEW p \in Procs, NEW S \in SUBSET Nodes, Load(p, S) PROVE TypeOK'
  <2>1. Pruned(file, S) \in Files
    <3>1. CASE Nodes = {}
      BY <3>1, <1>0 DEF Pruned, Files, Generations
    <3>2. ASSUME NEW n \in Nodes PROVE Pruned(file, S) \in Files
      BY <1>0, FileOperations
    <3> QED BY <3>1, <3>2
  <2> QED BY <1>6, <2>1 DEF Load, TypeOK, PCs, diskVars, sessionVars
<1>7. ASSUME NEW p \in Procs, WriteFails(p) \/ LoadFails(p) PROVE TypeOK'
  BY <1>7, FailType DEF WriteFails, LoadFails
<1>8. ASSUME NEW p \in Procs PROVE Content(draft[p]) \in Contents
  BY DEF TypeOK, Content, Contents, Files
<1>9. ASSUME NEW p \in Procs, Replace(p) PROVE TypeOK'
  BY <1>8, <1>9 DEF Replace, TypeOK, PCs, diskVars, sessionVars
<1>10. ASSUME NEW p \in Procs, Mark(p) PROVE TypeOK'
  <2>1. checkpoint' \in Nat
    BY <1>10 DEF Mark, TypeOK
  <2>2. CASE Rest(p)
    BY <1>10, <2>1, <2>2, RestType DEF Mark, TypeOK, diskVars, sessionVars
  <2>3. CASE ~Rest(p)
    <3>1. EmptyFile \in Files
      BY DEF EmptyFile, Files, Generations
    <3>2. /\ pc' = [pc EXCEPT ![p] = "sending"]
          /\ draft' = [draft EXCEPT ![p] = EmptyFile]
          /\ seen' = [seen EXCEPT ![p] = 0]
          /\ UNCHANGED <<wanted, base, tries, found>>
      BY <1>10, <2>3 DEF Mark
    <3>3. pc' \in [Procs -> PCs] /\ draft' \in [Procs -> Files] /\ seen' \in [Procs -> Nat]
      BY <3>1, <3>2 DEF TypeOK, PCs
    <3> QED BY <1>10, <2>1, <3>2, <3>3 DEF Mark, TypeOK, diskVars, sessionVars
  <2> QED BY <2>2, <2>3
<1>11. ASSUME NEW i \in Installers, Apply(i) PROVE TypeOK'
  <2>1. i \in Procs
    BY DEF Procs
  <2> QED
    BY <1>8, <1>11, <2>1, RestType DEF Apply, TypeOK, diskVars, sessionVars
<1>12. ASSUME NEW s \in Sessions PROVE s \in Procs
  BY DEF Procs
<1>13. ASSUME NEW s \in Sessions, NEW g \in 1..MaxVersion, BeginVerify(s, g)
       PROVE  TypeOK'
  <2>1. wanted[s].node \in Nodes /\ g \in Nat
    BY <1>0, <1>12, <1>13 DEF TypeOK, BeginVerify, Generations
  <2>2. entry' \in [Sessions -> Nat]
    BY <1>0, <1>13, <2>1 DEF TypeOK, BeginVerify, Generations
  <2>3. wanted' \in [Procs -> [node : Nodes, gen : Nat]]
    BY <1>12, <1>13, <2>1 DEF TypeOK, BeginVerify
  <2> QED BY <1>13, <2>2, <2>3 DEF BeginVerify, TypeOK, diskVars, memoryVars
<1>14. ASSUME NEW s \in Sessions, FinishVerify(s) PROVE TypeOK'
  <2> DEFINE current == state.gen[wanted[s].node]
  <2>1. current \in Nat
    BY <1>0, <1>12 DEF TypeOK, Generations
  <2>2. wanted' \in [Procs -> [node : Nodes, gen : Nat]]
    <3>1. wanted' = wanted \/ wanted' = [wanted EXCEPT ![s].gen = 0]
      BY <1>14 DEF FinishVerify
    <3>2. wanted \in [Procs -> [node : Nodes, gen : Nat]]
      BY DEF TypeOK
    <3> QED BY <1>12, <3>1, <3>2
  <2>3. CASE TurnOff(s)
    BY <1>14, <2>2, <2>3, TurnOffType DEF FinishVerify, TypeOK, diskVars, memoryVars
  <2>4. CASE ~TurnOff(s)
    <3>1. /\ entry' \in [Sessions -> Nat] /\ round' \in [Sessions -> 1..2]
          /\ generation' \in [Sessions -> Nat] /\ cached' \in [Sessions -> Nat]
          /\ session' \in [Sessions -> {"off", "verifying", "on"}]
          /\ selfRotated' \in [Sessions -> BOOLEAN]
      <4>1. CASE entry' = [entry EXCEPT ![s] = current]
                 /\ round' = [round EXCEPT ![s] = 2]
                 /\ UNCHANGED <<session, generation, cached, selfRotated, wanted>>
        BY <4>1, <2>1 DEF TypeOK
      <4>2. CASE /\ session' = [session EXCEPT ![s] = "on"]
                 /\ generation' = [generation EXCEPT ![s] = current]
                 /\ cached' = [cached EXCEPT ![s] = revision]
                 /\ entry' = [entry EXCEPT ![s] = 0]
                 /\ round' = [round EXCEPT ![s] = 1]
                 /\ UNCHANGED selfRotated
        BY <4>2, <2>1 DEF TypeOK
      <4> QED BY <1>14, <2>4, <4>1, <4>2 DEF FinishVerify
    <3> QED BY <1>14, <2>2, <3>1 DEF FinishVerify, TypeOK, diskVars, memoryVars
  <2> QED BY <2>3, <2>4
<1>15. ASSUME NEW s \in Sessions, CheckToken(s) PROVE TypeOK'
  <2>1. CASE TurnOff(s)
    BY <1>15, <2>1, TurnOffType DEF CheckToken, TypeOK, diskVars, memoryVars, procVars
  <2>2. CASE ~TurnOff(s)
    BY <1>15, <2>2 DEF CheckToken, TypeOK, diskVars, memoryVars, procVars
  <2> QED BY <2>1, <2>2
<1>16. ASSUME NEW s \in Sessions, SendToken(s) PROVE TypeOK'
  <2>1. generation' \in [Sessions -> Nat] /\ cached' \in [Sessions -> Nat]
    BY <1>12, <1>16 DEF SendToken, TypeOK
  <2> QED
    BY <1>12, <1>16, <2>1, RestType DEF SendToken, TypeOK, diskVars, memoryVars
<1>17. ASSUME NEW s \in Sessions, SendFails(s) PROVE TypeOK'
  BY <1>12, <1>17, RestType, TurnOffType DEF SendFails, TypeOK, diskVars, memoryVars
<1>18. ASSUME NEW s \in Sessions, SessionEnds(s) PROVE TypeOK'
  BY <1>18, TurnOffType DEF SessionEnds, TypeOK, diskVars, memoryVars, procVars
<1>19. CASE UNCHANGED vars
  BY <1>19 DEF vars, TypeOK
<1> QED
  BY <1>1, <1>2, <1>3, <1>4, <1>5, <1>6, <1>7, <1>9, <1>10, <1>11, <1>13, <1>14,
     <1>15, <1>16, <1>17, <1>18, <1>19
  DEF Next, WriteStep, ReloadStep, SessionStep

\* The initial states are well typed.
LEMMA InitType == Init => TypeOK
<1> SUFFICES ASSUME Init PROVE TypeOK
  OBVIOUS
<1>1. EmptyFile \in Files /\ Content(EmptyFile) \in Contents
  BY DEF EmptyFile, Files, Generations, Content, Contents
<1>2. wanted \in [Procs -> [node : Nodes, gen : Nat]]
  BY DEF Init
<1>3. 0 \in 0..(MaxWriteRetries - 1)
  BY RetriesAssumption
<1>4. /\ pc \in [Procs -> PCs] /\ draft \in [Procs -> Files]
      /\ base \in [Procs -> Nat] /\ tries \in [Procs -> 0..(MaxWriteRetries - 1)]
      /\ found \in [Procs -> BOOLEAN] /\ seen \in [Procs -> Nat]
  BY <1>1, <1>3 DEF Init, PCs
<1>5. /\ session \in [Sessions -> {"off", "verifying", "on"}]
      /\ entry \in [Sessions -> Nat] /\ round \in [Sessions -> 1..2]
      /\ generation \in [Sessions -> Nat] /\ cached \in [Sessions -> Nat]
      /\ handed \in [Nodes -> SUBSET Nat] /\ selfRotated \in [Sessions -> BOOLEAN]
  BY DEF Init
<1> QED BY <1>1, <1>2, <1>4, <1>5 DEF Init, TypeOK

\* TypeOK holds for every value of the constants.
THEOREM TypeCorrect == Spec => []TypeOK
  BY InitType, TypeStep, PTL DEF Spec

(***************************************************************************)
(* The fast path.                                                          *)
(***************************************************************************)

\* FastPathIsSound without the condition that the session is between two
\* operations: a refresh that fails returns to the cache it left.
CacheIsCurrent ==
  \A s \in Sessions :
    session[s] = "on" /\ cached[s] = revision /\ ~selfRotated[s]
      => generation[s] = state.gen[wanted[s].node]

FastInv == TypeOK /\ CacheNotAhead /\ CacheIsCurrent

\* A session works for one node.
LEMMA NodeKept ==
  ASSUME TypeOK, [Next]_vars, NEW s \in Sessions
  PROVE  wanted'[s].node = wanted[s].node
<1>0. s \in Procs /\ wanted \in [Procs -> [node : Nodes, gen : Nat]]
  BY DEF TypeOK, Procs
<1>1. ASSUME NEW p \in Procs, NEW t, NEW S, Prepare(p, t, S)
      PROVE  wanted'[s].node = wanted[s].node
  <2>1. p = s => t = wanted[p]
    BY <1>1, DistinctProcs DEF Prepare, Target
  <2> QED BY <1>0, <1>1, <2>1 DEF Prepare
<1>2. ASSUME NEW p \in Procs, Rest(p) PROVE wanted'[s].node = wanted[s].node
  BY <1>0, <1>2 DEF Rest
<1>3. ASSUME NEW p \in Procs, Commit(p) PROVE wanted'[s].node = wanted[s].node
  BY <1>0, <1>3, <1>2 DEF Commit
<1>4. ASSUME NEW p \in Procs,
             \/ Conflict(p) \/ WriteFails(p) \/ Stat(p) \/ LoadFails(p)
             \/ Replace(p) \/ Mark(p)
      PROVE  wanted'[s].node = wanted[s].node
  BY <1>4, <1>2 DEF Conflict, WriteFails, Stat, LoadFails, Replace, Mark, Fail
<1>5. ASSUME NEW p \in Procs, NEW S, Load(p, S) PROVE wanted'[s].node = wanted[s].node
  BY <1>5 DEF Load
<1>6. ASSUME Compare PROVE wanted'[s].node = wanted[s].node
  BY <1>6, <1>2 DEF Compare, Procs
<1>7. ASSUME NEW i \in Installers, Apply(i) PROVE wanted'[s].node = wanted[s].node
  BY <1>7, <1>2 DEF Apply, Procs
<1>8. ASSUME NEW u \in Sessions, SessionStep(u) PROVE wanted'[s].node = wanted[s].node
  <2>1. u \in Procs
    BY DEF Procs
  <2>2. CASE Rest(u)
    BY <2>1, <2>2, <1>2
  <2>3. CASE ~Rest(u)
    BY <1>0, <1>8, <2>3
    DEF SessionStep, BeginVerify, FinishVerify, CheckToken, SendToken, SendFails,
        SessionEnds, procVars
  <2> QED BY <2>2, <2>3
<1> QED
  BY <1>1, <1>3, <1>4, <1>5, <1>6, <1>7, <1>8 DEF Next, WriteStep, ReloadStep, vars

\* The copy in memory changes only together with its revision.
LEMMA RevisionMoves ==
  ASSUME TypeOK, [Next]_vars
  PROVE  /\ revision' \in Nat /\ revision' >= revision
         /\ revision' = revision => state' = state
<1> USE DEF TypeOK
<1>1. ASSUME NEW p \in Procs, Replace(p)
      PROVE  revision' = revision + 1 \/ UNCHANGED <<revision, state>>
  BY <1>1 DEF Replace
<1>2. ASSUME NEW i \in Installers, Apply(i) PROVE revision' = revision + 1
  BY <1>2 DEF Apply
<1>3. ASSUME NEW p \in Procs, WriteStep(p) PROVE UNCHANGED <<revision, state>>
  BY <1>3 DEF WriteStep, Prepare, Commit, Conflict, WriteFails, memoryVars
<1>4. ASSUME NEW p \in Procs, ReloadStep(p), ~Replace(p)
      PROVE  UNCHANGED <<revision, state>>
  BY <1>4 DEF ReloadStep, Stat, Load, LoadFails, Mark, memoryVars
<1>5. ASSUME NEW s \in Sessions, SessionStep(s) PROVE UNCHANGED <<revision, state>>
  BY <1>5 DEF SessionStep, BeginVerify, FinishVerify, CheckToken, SendToken, SendFails,
     SessionEnds, memoryVars
<1>6. ASSUME Compare \/ UNCHANGED vars PROVE UNCHANGED <<revision, state>>
  BY <1>6 DEF Compare, memoryVars, vars
<1> QED BY <1>1, <1>2, <1>3, <1>4, <1>5, <1>6 DEF Next

\* What a step may do to the cache of a session: leave it, empty it, fill it with
\* the current pair, or mark it as stemming from its own rotation.
LEMMA CacheMoves ==
  ASSUME TypeOK, [Next]_vars, NEW s \in Sessions
  PROVE  \/ /\ session'[s] = session[s] /\ cached'[s] = cached[s]
            /\ generation'[s] = generation[s] /\ selfRotated'[s] = selfRotated[s]
         \/ cached'[s] = 0 /\ session'[s] = "off"
         \/ session[s] # "on" /\ session'[s] # "on" /\ cached'[s] = cached[s]
         \/ cached'[s] = revision /\ revision' = revision /\ selfRotated'[s]
         \/ /\ cached'[s] = revision /\ revision' = revision
            /\ generation'[s] = state.gen[wanted[s].node]
<1> DEFINE Kept == /\ session'[s] = session[s] /\ cached'[s] = cached[s]
                   /\ generation'[s] = generation[s] /\ selfRotated'[s] = selfRotated[s]
<1> USE DEF TypeOK
<1>1. ASSUME UNCHANGED sessionVars PROVE Kept
  BY <1>1 DEF sessionVars
<1>2. ASSUME NEW u \in Sessions, TurnOff(u)
      PROVE  Kept \/ (cached'[s] = 0 /\ session'[s] = "off")
  <2>1. CASE u = s
    BY <1>2, <2>1 DEF TurnOff
  <2>2. CASE u # s
    BY <1>2, <2>2 DEF TurnOff
  <2> QED BY <2>1, <2>2
<1>3. ASSUME NEW p \in Procs, WriteStep(p) \/ ReloadStep(p)
      PROVE  Kept \/ (cached'[s] = 0 /\ session'[s] = "off")
  <2>1. UNCHANGED sessionVars \/ (p \in Sessions /\ TurnOff(p))
    <3>1. CASE WriteStep(p)
      BY <3>1 DEF WriteStep, Prepare, Commit, Conflict, WriteFails, Fail
    <3>2. CASE ReloadStep(p)
      BY <3>2 DEF ReloadStep, Stat, Load, LoadFails, Replace, Mark, Fail
    <3> QED BY <1>3, <3>1, <3>2
  <2> QED BY <2>1, <1>1, <1>2
<1>4. ASSUME Compare \/ (\E i \in Installers : Apply(i)) \/ UNCHANGED vars PROVE Kept
  BY <1>4, <1>1 DEF Compare, Apply, vars, sessionVars
<1>5. ASSUME NEW u \in Sessions, SessionStep(u), u # s, ~TurnOff(u) PROVE Kept
  BY <1>5 DEF SessionStep, BeginVerify, FinishVerify, CheckToken, SendToken, SendFails,
     SessionEnds
<1>6. ASSUME NEW g \in 1..MaxVersion, BeginVerify(s, g)
      PROVE  session[s] # "on" /\ session'[s] # "on" /\ cached'[s] = cached[s]
  BY <1>6 DEF BeginVerify
<1>7. ASSUME FinishVerify(s), ~TurnOff(s)
      PROVE  \/ Kept
             \/ /\ cached'[s] = revision /\ revision' = revision
                /\ generation'[s] = state.gen[wanted[s].node]
  BY <1>7 DEF FinishVerify, memoryVars
<1>8. ASSUME CheckToken(s), ~TurnOff(s)
      PROVE  /\ cached'[s] = revision /\ revision' = revision
             /\ generation'[s] = state.gen[wanted[s].node]
  BY <1>8 DEF CheckToken, memoryVars
<1>9. ASSUME SendToken(s)
      PROVE  cached'[s] = revision /\ revision' = revision /\ selfRotated'[s]
  BY <1>9 DEF SendToken, memoryVars
<1>10. ASSUME SessionStep(s), ~TurnOff(s)
       PROVE  \/ \E g \in 1..MaxVersion : BeginVerify(s, g)
              \/ FinishVerify(s) \/ CheckToken(s) \/ SendToken(s)
  BY <1>10 DEF SessionStep, SendFails, SessionEnds
<1> QED
  BY <1>2, <1>3, <1>4, <1>5, <1>6, <1>7, <1>8, <1>9, <1>10 DEF Next

\* Every step keeps the invariant.
LEMMA FastStep == FastInv /\ [Next]_vars => FastInv'
<1> SUFFICES ASSUME FastInv, [Next]_vars PROVE FastInv'
  OBVIOUS
<1>1. TypeOK /\ TypeOK'
  BY TypeStep DEF FastInv
<1>2. /\ revision \in Nat /\ revision' \in Nat /\ revision' >= revision
      /\ revision' = revision => state' = state
      /\ \A s \in Sessions : cached[s] \in Nat /\ cached[s] <= revision
  BY <1>1, RevisionMoves DEF FastInv, CacheNotAhead, TypeOK
<1>3. CacheNotAhead'
  BY <1>1, <1>2, CacheMoves DEF CacheNotAhead
<1>4. CacheIsCurrent'
  <2> SUFFICES ASSUME NEW s \in Sessions, session'[s] = "on", cached'[s] = revision',
                      ~selfRotated'[s]
               PROVE  generation'[s] = state'.gen[wanted'[s].node]
    BY DEF CacheIsCurrent
  <2>1. wanted'[s].node = wanted[s].node
    BY <1>1, NodeKept
  <2>2. CASE /\ session'[s] = session[s] /\ cached'[s] = cached[s]
             /\ generation'[s] = generation[s] /\ selfRotated'[s] = selfRotated[s]
    <3>1. revision' = revision /\ state' = state
      BY <1>2, <2>2
    <3> QED BY <2>1, <2>2, <3>1 DEF FastInv, CacheIsCurrent
  <2>3. CASE cached'[s] = revision /\ revision' = revision
             /\ generation'[s] = state.gen[wanted[s].node]
    BY <1>2, <2>1, <2>3
  <2> QED BY <1>1, <2>2, <2>3, CacheMoves
<1> QED BY <1>1, <1>3, <1>4 DEF FastInv

\* The strengthened invariant holds in every reachable state.
LEMMA FastInvariant == Spec => []FastInv
<1>1. Init => FastInv
  <2> SUFFICES ASSUME Init PROVE CacheNotAhead /\ CacheIsCurrent
    BY InitType DEF FastInv
  <2> QED BY DEF Init, CacheNotAhead, CacheIsCurrent
<1> QED BY <1>1, FastStep, PTL DEF Spec

\* No session caches a revision the registry has not reached, so an unchanged
\* revision cannot be met again later (ws/refresh.rs, ensure_current_token).
THEOREM CacheIsNotAhead == Spec => []CacheNotAhead
<1>1. FastInv => CacheNotAhead
  BY DEF FastInv
<1> QED BY <1>1, FastInvariant, PTL

\* Skipping the registry lookup while the revision is the cached one is sound:
\* the session holds the generation the registry holds, unless it has just
\* rotated its own token (ws/refresh.rs, ensure_current_token).
THEOREM FastPathSound == Spec => []FastPathIsSound
<1>1. FastInv => FastPathIsSound
  BY DEF FastInv, CacheIsCurrent, FastPathIsSound, FastPathIsCurrent
<1> QED BY <1>1, FastInvariant, PTL

(***************************************************************************)
(* The versioned write is atomic.                                          *)
(***************************************************************************)

\* The draft of process p is what its operation makes of the current file.
DraftFits(p) ==
  \E S \in SUBSET Nodes :
    /\ draft[p] = Prepared(p, file, wanted[p], S)
    /\ found[p] = (p \in Installers /\ Holds(file, wanted[p].node, wanted[p].gen, S))

\* A prepared draft is based on an older version, or it fits the current file.
DraftsFit ==
  \A p \in Procs :
    /\ pc[p] \in {"prepared", "retry"} => p # Poller
    /\ pc[p] = "prepared" =>
         base[p] <= file.version /\ (base[p] = file.version => DraftFits(p))

\* Generations are handed out in order and each at most once.
Issuance ==
  \A n \in Nodes :
    /\ file.install[n] <= file.gen[n]
    /\ \A g \in handed[n] : g <= file.gen[n] /\ (file.install[n] # 0 => g # file.install[n])

WriteInv == TypeOK /\ DraftsFit /\ Issuance

\* The initial states satisfy the invariant.
LEMMA WriteInit == Init => WriteInv
<1> SUFFICES ASSUME Init PROVE DraftsFit /\ Issuance
  BY InitType DEF WriteInv
<1> QED BY DEF Init, DraftsFit, Issuance, EmptyFile

\* Steps that commit nothing keep the drafts of the others, and leave p with a
\* fitting draft or with none.
LEMMA DraftsKept ==
  ASSUME WriteInv, NEW p \in Procs, UNCHANGED diskVars,
         \A q \in Procs \ {p} :
           /\ pc'[q] = pc[q] /\ draft'[q] = draft[q] /\ base'[q] = base[q]
           /\ found'[q] = found[q] /\ wanted'[q] = wanted[q],
         pc'[p] \in {"prepared", "retry"} => p # Poller,
         pc'[p] = "prepared" => base'[p] = file.version /\ DraftFits(p)'
  PROVE  DraftsFit' /\ Issuance'
<1>1. file' = file /\ handed' = handed /\ file.version \in Nat
  BY DEF diskVars, WriteInv, TypeOK, Files
<1>2. Issuance'
  BY <1>1 DEF WriteInv, Issuance
<1>3. DraftsFit'
  <2> SUFFICES ASSUME NEW q \in Procs
               PROVE  /\ pc'[q] \in {"prepared", "retry"} => q # Poller
                      /\ pc'[q] = "prepared" =>
                           /\ base'[q] <= file.version
                           /\ base'[q] = file.version => DraftFits(q)'
    BY <1>1 DEF DraftsFit
  <2>1. CASE q = p
    BY <1>1, <2>1
  <2>2. CASE q # p
    BY <1>1, <2>2 DEF WriteInv, DraftsFit, DraftFits
  <2> QED BY <2>1, <2>2
<1> QED BY <1>2, <1>3

\* What a commit does: the file becomes what the operation makes of it.
LEMMA CommitApplies ==
  ASSUME WriteInv, NEW p \in Procs, Commit(p)
  PROVE  /\ p # Poller
         /\ \E S \in SUBSET Nodes :
              /\ file'.gen = Prepared(p, file, wanted[p], S).gen
              /\ file'.install = Prepared(p, file, wanted[p], S).install
              /\ file'.version = file.version + 1
              /\ found[p] = (p \in Installers /\ Holds(file, wanted[p].node, wanted[p].gen, S))
<1>1. pc[p] = "prepared" /\ base[p] = file.version
  BY DEF Commit
<1>2. PICK S \in SUBSET Nodes :
        /\ draft[p] = Prepared(p, file, wanted[p], S)
        /\ found[p] = (p \in Installers /\ Holds(file, wanted[p].node, wanted[p].gen, S))
  BY <1>1 DEF WriteInv, DraftsFit, DraftFits
<1>3. /\ file'.gen = draft[p].gen /\ file'.install = draft[p].install
      /\ file'.version = file.version + 1
  BY <1>1 DEF Commit, WriteInv, TypeOK, Files
<1> QED BY <1>1, <1>2, <1>3 DEF WriteInv, DraftsFit

\* What pruning does to the fields of a file.
LEMMA PrunedFields ==
  ASSUME NEW f \in Files, NEW S
  PROVE  /\ Pruned(f, S).gen = f.gen
         /\ Pruned(f, S).install = [m \in Nodes |-> IF m \in S THEN 0 ELSE f.install[m]]
  BY DEF Pruned, Files

\* What a rotation does to them.
LEMMA RotatedFields ==
  ASSUME NEW f \in Files, NEW n \in Nodes
  PROVE  /\ Rotated(f, n).gen = [f.gen EXCEPT ![n] = @ + 1]
         /\ Rotated(f, n).install = f.install
  BY DEF Rotated, Files

\* What an issue does to them.
LEMMA IssuedFields ==
  ASSUME NEW f \in Files, NEW n \in Nodes, NEW S
  PROVE  /\ Issued(f, n, S).gen = [f.gen EXCEPT ![n] = @ + 1]
         /\ Issued(f, n, S).install = [Pruned(f, S).install EXCEPT ![n] = f.gen[n] + 1]
  BY DEF Issued, Files

\* What a consume does to them.
LEMMA ConsumedFields ==
  ASSUME NEW f \in Files, NEW n \in Nodes, NEW S
  PROVE  /\ Consumed(f, n, S).gen = f.gen
         /\ Consumed(f, n, S).install = [Pruned(f, S).install EXCEPT ![n] = 0]
  BY DEF Consumed, Files

\* A commit is one step of the atomic registry.
LEMMA CommitIsAtomic ==
  ASSUME WriteInv, NEW p \in Procs, Commit(p)
  PROVE  Atomic!AtomicNext
<1> DEFINE n == wanted[p].node
<1>1. /\ file \in Files /\ n \in Nodes /\ file.gen \in Generations
      /\ file.install \in Generations
  BY DEF WriteInv, TypeOK, Files
<1>2. PICK S \in SUBSET Nodes :
        /\ file'.gen = Prepared(p, file, wanted[p], S).gen
        /\ file'.install = Prepared(p, file, wanted[p], S).install
        /\ found[p] = (p \in Installers /\ Holds(file, n, wanted[p].gen, S))
  BY CommitApplies
<1> DEFINE pruned == [m \in Nodes |-> IF m \in S THEN 0 ELSE file.install[m]]
<1>0. /\ Pruned(file, S).gen = file.gen /\ Pruned(file, S).install = pruned
      /\ Rotated(file, n).gen = [file.gen EXCEPT ![n] = @ + 1]
      /\ Rotated(file, n).install = file.install
      /\ Issued(file, n, S).gen = [file.gen EXCEPT ![n] = @ + 1]
      /\ Issued(file, n, S).install = [pruned EXCEPT ![n] = file.gen[n] + 1]
      /\ Consumed(file, n, S).gen = file.gen
      /\ Consumed(file, n, S).install = [pruned EXCEPT ![n] = 0]
  <2>1. Pruned(file, S).install = pruned /\ Pruned(file, S).gen = file.gen
    BY <1>1, PrunedFields
  <2>2. /\ Rotated(file, n).gen = [file.gen EXCEPT ![n] = @ + 1]
        /\ Rotated(file, n).install = file.install
    BY <1>1, RotatedFields
  <2>3. /\ Issued(file, n, S).gen = [file.gen EXCEPT ![n] = @ + 1]
        /\ Issued(file, n, S).install = [Pruned(file, S).install EXCEPT ![n] = file.gen[n] + 1]
    BY <1>1, IssuedFields
  <2>4. /\ Consumed(file, n, S).gen = file.gen
        /\ Consumed(file, n, S).install = [Pruned(file, S).install EXCEPT ![n] = 0]
    BY <1>1, ConsumedFields
  <2> QED BY <2>1, <2>2, <2>3, <2>4
<1>3. CASE p \in Sessions
  <2>0. Prepared(p, file, wanted[p], S) = Rotated(file, n)
    BY <1>3, DistinctProcs DEF Prepared
  <2>1. /\ file'.gen = [file.gen EXCEPT ![n] = @ + 1]
        /\ file'.install = file.install
    BY <1>0, <1>2, <2>0
  <2>2. handed' = handed
    BY <1>3, DistinctProcs DEF Commit
  <2> QED BY <1>1, <2>1, <2>2 DEF Atomic!AtomicNext, Atomic!Rotate
<1>4. CASE p \in Issuers
  <2>1. Prepared(p, file, wanted[p], S) = Issued(file, n, S)
    BY <1>4, DistinctProcs DEF Prepared
  <2>2. /\ file'.gen = [file.gen EXCEPT ![n] = @ + 1]
        /\ file'.install = [Atomic!Without(S, file.install) EXCEPT ![n] = file.gen[n] + 1]
    BY <1>0, <1>2, <2>1 DEF Atomic!Without
  <2>3. handed' = handed
    BY <1>4, DistinctProcs DEF Commit
  <2> QED BY <1>1, <2>2, <2>3 DEF Atomic!AtomicNext, Atomic!Issue
<1>5. CASE p \in Installers /\ Holds(file, n, wanted[p].gen, S)
  <2>1. Prepared(p, file, wanted[p], S) = Consumed(file, n, S)
    BY <1>5, DistinctProcs DEF Prepared
  <2>2. /\ file'.gen = file.gen
        /\ file'.install = [Atomic!Without(S, file.install) EXCEPT ![n] = 0]
    BY <1>0, <1>2, <2>1 DEF Atomic!Without
  <2>3. /\ n \notin S /\ file.install[n] # 0 /\ wanted[p].gen = file.install[n]
    BY <1>0, <1>1, <1>5 DEF Holds
  <2>4. handed' = [handed EXCEPT ![n] = @ \cup {file.install[n]}]
    BY <1>2, <1>5, <2>3, DistinctProcs DEF Commit
  <2>5. file.install[n] \notin handed[n]
    BY <1>1, <2>3 DEF WriteInv, Issuance
  <2>6. Atomic!Consume(n, S)
    BY <2>2, <2>3, <2>4, <2>5 DEF Atomic!Consume
  <2> QED BY <1>1, <2>6 DEF Atomic!AtomicNext
<1>6. CASE p \in Installers /\ ~Holds(file, n, wanted[p].gen, S)
  <2>1. Prepared(p, file, wanted[p], S) = Pruned(file, S)
    BY <1>6, DistinctProcs DEF Prepared
  <2>2. file'.gen = file.gen /\ file'.install = Atomic!Without(S, file.install)
    BY <1>0, <1>2, <2>1 DEF Atomic!Without
  <2>3. handed' = handed
    <3>1. handed' = [handed EXCEPT ![n] = @ \cup {}]
      BY <1>2, <1>6, DistinctProcs DEF Commit
    <3>2. handed \in [Nodes -> SUBSET Nat]
      BY DEF WriteInv, TypeOK
    <3> QED BY <3>1, <3>2
  <2> QED BY <2>2, <2>3 DEF Atomic!AtomicNext, Atomic!Prune
<1> QED BY <1>3, <1>4, <1>5, <1>6, CommitApplies DEF Procs

\* A step of the atomic registry keeps the order of generations.
LEMMA AtomicKeepsIssuance ==
  ASSUME WriteInv, TypeOK', Atomic!AtomicNext
  PROVE  Issuance'
<1>1. /\ file.gen \in Generations /\ file.install \in Generations
      /\ file'.gen \in Generations /\ file'.install \in Generations
      /\ handed \in [Nodes -> SUBSET Nat]
      /\ \A n \in Nodes : file.gen[n] \in Nat /\ file.install[n] \in Nat
  BY DEF WriteInv, TypeOK, Files, Generations
<1>2. ASSUME NEW n \in Nodes, Atomic!Rotate(n) PROVE Issuance'
  BY <1>1, <1>2 DEF Atomic!Rotate, WriteInv, Issuance, Generations
<1>3. ASSUME NEW S \in SUBSET Nodes, Atomic!Prune(S) PROVE Issuance'
  BY <1>1, <1>3 DEF Atomic!Prune, Atomic!Without, WriteInv, Issuance
<1>4. ASSUME NEW n \in Nodes, NEW S \in SUBSET Nodes, Atomic!Issue(n, S) PROVE Issuance'
  <2>1. /\ file'.gen = [file.gen EXCEPT ![n] = @ + 1]
        /\ \A m \in Nodes : file'.install[m] = IF m = n THEN file.gen[n] + 1
                                               ELSE IF m \in S THEN 0 ELSE file.install[m]
        /\ handed' = handed
    BY <1>1, <1>4 DEF Atomic!Issue, Atomic!Without
  <2> QED BY <1>1, <2>1 DEF WriteInv, Issuance, Generations
<1>5. ASSUME NEW n \in Nodes, NEW S \in SUBSET Nodes, Atomic!Consume(n, S) PROVE Issuance'
  <2>1. /\ file'.gen = file.gen
        /\ \A m \in Nodes : file'.install[m] = IF m = n THEN 0
                                               ELSE IF m \in S THEN 0 ELSE file.install[m]
        /\ handed' = [handed EXCEPT ![n] = @ \cup {file.install[n]}]
    BY <1>1, <1>5 DEF Atomic!Consume, Atomic!Without
  <2> QED BY <1>1, <2>1 DEF WriteInv, Issuance
<1> QED BY <1>2, <1>3, <1>4, <1>5 DEF Atomic!AtomicNext

\* A commit outdates every other draft and leaves none to its process.
LEMMA CommitOutdates ==
  ASSUME WriteInv, NEW p \in Procs, Commit(p)
  PROVE  DraftsFit'
<1>1. p # Poller /\ file'.version = file.version + 1 /\ file.version \in Nat
  BY CommitApplies DEF WriteInv, TypeOK, Files
<1>2. pc'[p] \notin {"prepared", "retry"}
  BY DEF Commit, Rest, WriteInv, TypeOK
<1>3. \A q \in Procs \ {p} : pc'[q] = pc[q] /\ base'[q] = base[q]
  BY DEF Commit, Rest, WriteInv, TypeOK
<1>4. \A q \in Procs : base[q] \in Nat
  BY DEF WriteInv, TypeOK
<1>5. SUFFICES ASSUME NEW q \in Procs \ {p}
               PROVE  /\ pc'[q] \in {"prepared", "retry"} => q # Poller
                      /\ pc'[q] = "prepared" =>
                           base'[q] <= file'.version /\ base'[q] # file'.version
  BY <1>2 DEF DraftsFit
<1> QED BY <1>1, <1>3, <1>4 DEF WriteInv, DraftsFit

\* A step that leaves the file and every draft alone, except that one process may
\* drop its own, keeps the invariant.
WriteIdle(p) ==
  /\ UNCHANGED diskVars
  /\ \A q \in Procs \ {p} :
       /\ pc'[q] = pc[q] /\ draft'[q] = draft[q] /\ base'[q] = base[q]
       /\ found'[q] = found[q] /\ wanted'[q] = wanted[q]
  /\ pc'[p] \in {"prepared", "retry"} => p # Poller
  /\ pc'[p] = "prepared" => base'[p] = file.version /\ DraftFits(p)'

\* Every step that is not a commit is of that kind.
LEMMA NotACommit ==
  ASSUME WriteInv, TypeOK', [Next]_vars, ~(\E p \in Procs : Commit(p))
  PROVE  UNCHANGED <<diskVars, procVars>> \/ \E p \in Procs : WriteIdle(p)
<1>0. TypeOK
  BY DEF WriteInv
<1>1. ASSUME NEW p \in Procs, Rest(p), UNCHANGED diskVars PROVE WriteIdle(p)
  BY <1>0, <1>1 DEF Rest, WriteIdle, TypeOK
<1>2. ASSUME NEW p \in Procs, NEW t \in Targets, NEW S \in SUBSET Nodes, Prepare(p, t, S)
      PROVE  WriteIdle(p)
  <2>1. p # Poller
    BY <1>2, DistinctProcs DEF Prepare, Target, WriteInv, DraftsFit
  <2>2. /\ file' = file /\ wanted'[p] = t /\ base'[p] = file.version
        /\ draft'[p] = Prepared(p, file, t, S)
        /\ found'[p] = (p \in Installers /\ Holds(file, t.node, t.gen, S))
    BY <1>0, <1>2 DEF Prepare, diskVars, TypeOK
  <2>3. DraftFits(p)'
    BY <2>2 DEF DraftFits
  <2> QED BY <1>0, <1>2, <2>1, <2>2, <2>3 DEF Prepare, WriteIdle, TypeOK
<1>3. ASSUME NEW p \in Procs, Conflict(p) PROVE WriteIdle(p)
  <2>1. p # Poller
    BY <1>3 DEF Conflict, WriteInv, DraftsFit
  <2>2. CASE tries[p] + 1 < MaxWriteRetries
    BY <1>0, <1>3, <2>1, <2>2 DEF Conflict, WriteIdle, TypeOK
  <2>3. CASE ~(tries[p] + 1 < MaxWriteRetries)
    BY <1>1, <1>3, <2>3 DEF Conflict, Fail
  <2> QED BY <2>2, <2>3
<1>4. ASSUME NEW p \in Procs, Stat(p) PROVE WriteIdle(p)
  BY <1>0, <1>4 DEF Stat, WriteIdle, TypeOK
<1>5. ASSUME NEW p \in Procs, NEW S, Load(p, S) PROVE WriteIdle(p)
  BY <1>0, <1>5 DEF Load, WriteIdle, TypeOK
<1>6. ASSUME NEW p \in Procs, WriteFails(p) \/ LoadFails(p) PROVE WriteIdle(p)
  BY <1>1, <1>6 DEF WriteFails, LoadFails, Fail
<1>7. ASSUME NEW p \in Procs, Replace(p) PROVE WriteIdle(p)
  BY <1>0, <1>7 DEF Replace, WriteIdle, TypeOK
<1>8. ASSUME NEW p \in Procs, Mark(p) PROVE WriteIdle(p)
  <2>1. CASE Rest(p)
    BY <1>1, <1>8, <2>1 DEF Mark
  <2>2. CASE ~Rest(p)
    BY <1>0, <1>8, <2>2 DEF Mark, WriteIdle, TypeOK
  <2> QED BY <2>1, <2>2
<1>9. ASSUME Compare PROVE WriteIdle(Poller)
  <2>1. Poller \in Procs
    BY DEF Procs
  <2>2. CASE Rest(Poller)
    BY <1>1, <1>9, <2>1, <2>2 DEF Compare
  <2>3. CASE ~Rest(Poller)
    BY <1>0, <1>9, <2>1, <2>3 DEF Compare, WriteIdle, TypeOK
  <2> QED BY <2>2, <2>3
<1>10. ASSUME NEW i \in Installers, Apply(i) PROVE WriteIdle(i)
  BY <1>1, <1>10 DEF Apply, Procs
<1>11. ASSUME NEW s \in Sessions, SendToken(s) \/ SendFails(s) PROVE WriteIdle(s)
  BY <1>1, <1>11 DEF SendToken, SendFails, Procs
<1>12. ASSUME NEW s \in Sessions, NEW g, BeginVerify(s, g) PROVE WriteIdle(s)
  <2>1. s \in Procs /\ pc[s] = "idle" /\ pc' = pc
    BY <1>12 DEF Procs, BeginVerify
  <2> QED BY <1>0, <1>12, <2>1 DEF BeginVerify, WriteIdle, TypeOK
<1>13. ASSUME NEW s \in Sessions, FinishVerify(s) PROVE WriteIdle(s)
  <2>1. s \in Procs /\ pc[s] = "idle" /\ pc' = pc
    BY <1>13 DEF Procs, FinishVerify
  <2>2. \A q \in Procs \ {s} : wanted'[q] = wanted[q]
    BY <1>0, <1>13 DEF FinishVerify, TypeOK
  <2> QED BY <1>0, <1>13, <2>1, <2>2 DEF FinishVerify, WriteIdle, TypeOK
<1>14. ASSUME NEW s \in Sessions, CheckToken(s) \/ SessionEnds(s)
       PROVE  UNCHANGED <<diskVars, procVars>>
  BY <1>14 DEF CheckToken, SessionEnds
<1> QED
  BY <1>2, <1>3, <1>4, <1>5, <1>6, <1>7, <1>8, <1>9, <1>10, <1>11, <1>12, <1>13, <1>14
  DEF Next, WriteStep, ReloadStep, SessionStep, Procs, vars, diskVars, procVars

\* Every step keeps the drafts and the order of generations.
LEMMA WriteStepInv == WriteInv /\ [Next]_vars => WriteInv'
<1> SUFFICES ASSUME WriteInv, [Next]_vars PROVE WriteInv'
  OBVIOUS
<1>1. TypeOK'
  BY TypeStep DEF WriteInv
<1>2. CASE \E p \in Procs : Commit(p)
  <2>1. PICK p \in Procs : Commit(p)
    BY <1>2
  <2>2. DraftsFit'
    BY <2>1, CommitOutdates
  <2>3. Issuance'
    BY <1>1, <2>1, CommitIsAtomic, AtomicKeepsIssuance
  <2> QED BY <1>1, <2>2, <2>3 DEF WriteInv
<1>3. CASE UNCHANGED <<diskVars, procVars>>
  <2>1. DraftsFit'
    BY <1>3 DEF WriteInv, DraftsFit, DraftFits, diskVars, procVars
  <2>2. Issuance'
    BY <1>3 DEF WriteInv, Issuance, diskVars
  <2> QED BY <1>1, <2>1, <2>2 DEF WriteInv
<1>4. ASSUME NEW p \in Procs, WriteIdle(p) PROVE WriteInv'
  BY <1>1, <1>4, DraftsKept DEF WriteIdle, WriteInv
<1> QED BY <1>1, <1>2, <1>3, <1>4, NotACommit

\* A concurrent rotation, issue and consume act as if each were one atomic
\* change of the latest file, and no install token is handed out twice
\* (registry/storage.rs, mutate_registry_file).
THEOREM RegistryImplemented == Spec => ImplementsAtomicRegistry
<1>1. Init => Atomic!AtomicInit
  BY DEF Init, EmptyFile, Atomic!AtomicInit
<1>2. WriteInv /\ [Next]_vars => [Atomic!AtomicNext]_(Atomic!registryVars)
  <2> SUFFICES ASSUME WriteInv, [Next]_vars
               PROVE  [Atomic!AtomicNext]_(Atomic!registryVars)
    OBVIOUS
  <2>1. CASE \E p \in Procs : Commit(p)
    BY <2>1, CommitIsAtomic
  <2>2. CASE ~ \E p \in Procs : Commit(p)
    <3>1. TypeOK'
      BY TypeStep DEF WriteInv
    <3>2. UNCHANGED diskVars
      BY <2>2, <3>1, NotACommit DEF WriteIdle
    <3> QED BY <3>2 DEF diskVars, Atomic!registryVars
  <2> QED BY <2>1, <2>2
<1>3. Spec => []WriteInv
  BY WriteInit, WriteStepInv, PTL DEF Spec
<1> QED
  BY <1>1, <1>2, <1>3, PTL DEF Spec, ImplementsAtomicRegistry, Atomic!AtomicSpec

(***************************************************************************)
(* The poll.                                                               *)
(***************************************************************************)

\* What the poll relies on: a checkpoint is no older than the copy in memory, so
\* that the copy is the one of the file whenever the checkpoint is.  It is so because
\* a fingerprint is taken before the content it stands for, and because, unless two
\* copies were under way at once, no older copy is put in memory afterwards.
Carries(p) == pc[p] \in {"loaded", "mark", "apply"}
Copies(c, f) == c.gen = f.gen /\ \A n \in Nodes : c.install[n] \in {0, f.install[n]}

SeenEarlier == checkpoint <= file.version /\ \A p \in Procs : seen[p] <= file.version
OneCarrier == \A p, q \in Procs : Carries(p) /\ Carries(q) => p = q
MemoryIsNoticed == checkpoint = file.version => Copies(state, file)
DraftsAreNoticed ==
  \A p \in Procs : pc[p] \in {"loaded", "apply"} /\ file.version \in {checkpoint, seen[p]}
                     => Copies(draft[p], file)
MarksAreNoticed ==
  \A p \in Procs : pc[p] = "mark" /\ seen[p] = file.version => Copies(state, file)

Noticed == OneCarrier /\ MemoryIsNoticed /\ DraftsAreNoticed /\ MarksAreNoticed
NoticeInv == SeenEarlier /\ (~overlapped => Noticed)

\* Nothing about the copies changes but that process p, which has none, goes on.
Others(p) == \A q \in Procs \ {p} : pc'[q] = pc[q] /\ draft'[q] = draft[q] /\ seen'[q] = seen[q]
Aside(p) ==
  /\ UNCHANGED <<file, state, checkpoint, overlapped>> /\ Others(p)
  /\ ~Carries(p)' /\ seen'[p] <= file.version

\* Process p takes a copy of the file that is to reach memory.
Takes(p) ==
  /\ UNCHANGED <<file, state, checkpoint>> /\ Others(p)
  /\ overlapped' = (overlapped \/ Overlaps(p))
  /\ pc'[p] \in {"loaded", "apply"} /\ Copies(draft'[p], file) /\ seen'[p] <= file.version

LEMMA InitNotice == Init => NoticeInv
<1> SUFFICES ASSUME Init PROVE NoticeInv
  OBVIOUS
<1>1. file.version = 0 /\ Copies(state, file)
  BY DEF Init, EmptyFile, Content, Copies
<1>2. \A p \in Procs : ~Carries(p) /\ pc[p] = "idle" /\ seen[p] = 0
  BY DEF Init, Carries
<1>3. checkpoint = 0
  BY DEF Init
<1> QED
  BY <1>1, <1>2, <1>3
  DEF NoticeInv, SeenEarlier, Noticed, OneCarrier, MemoryIsNoticed, DraftsAreNoticed,
      MarksAreNoticed

\* The versions are numbers.
LEMMA VersionsAre ==
  ASSUME TypeOK
  PROVE  file.version \in Nat /\ checkpoint \in Nat /\ \A p \in Procs : seen[p] \in Nat
BY DEF TypeOK, Files

LEMMA AsideKeeps ==
  ASSUME NoticeInv, NEW p \in Procs, Aside(p)
  PROVE  NoticeInv'
<1>1. SeenEarlier'
  BY DEF NoticeInv, SeenEarlier, Aside, Others
<1>2. ASSUME ~overlapped' PROVE Noticed'
  <2>1. Noticed
    BY <1>2 DEF NoticeInv, Aside
  <2>2. OneCarrier'
    BY <2>1 DEF Noticed, OneCarrier, Aside, Others, Carries
  <2>3. MemoryIsNoticed'
    BY <2>1 DEF Noticed, MemoryIsNoticed, Aside
  <2>4. DraftsAreNoticed'
    BY <2>1 DEF Noticed, DraftsAreNoticed, Aside, Others, Carries
  <2>5. MarksAreNoticed'
    BY <2>1 DEF Noticed, MarksAreNoticed, Aside, Others, Carries
  <2> QED BY <2>2, <2>3, <2>4, <2>5 DEF Noticed
<1> QED BY <1>1, <1>2 DEF NoticeInv

LEMMA TakesKeeps ==
  ASSUME NoticeInv, NEW p \in Procs, Takes(p)
  PROVE  NoticeInv'
<1>1. SeenEarlier'
  BY DEF NoticeInv, SeenEarlier, Takes, Others
<1>2. ASSUME ~overlapped' PROVE Noticed'
  <2>1. Noticed /\ \A q \in Procs \ {p} : ~Carries(q)
    BY <1>2 DEF NoticeInv, Takes, Overlaps, Carries
  <2>2. OneCarrier'
    BY <2>1 DEF OneCarrier, Takes, Others, Carries
  <2>3. MemoryIsNoticed'
    BY <2>1 DEF Noticed, MemoryIsNoticed, Takes
  <2>4. DraftsAreNoticed'
    BY <2>1 DEF DraftsAreNoticed, Takes, Others, Carries
  <2>5. MarksAreNoticed'
    BY <2>1 DEF MarksAreNoticed, Takes, Others, Carries
  <2> QED BY <2>2, <2>3, <2>4, <2>5 DEF Noticed
<1> QED BY <1>1, <1>2 DEF NoticeInv

\* A process that comes to rest has no copy and no fingerprint.
LEMMA RestsAside ==
  ASSUME TypeOK, NEW p \in Procs, Rest(p)
  PROVE  Others(p) /\ pc'[p] = "idle" /\ seen'[p] = 0
BY DEF Rest, Others, TypeOK

\* A commit makes the file newer than every fingerprint.
LEMMA CommitKeepsNotice ==
  ASSUME TypeOK, NoticeInv, NEW p \in Procs, Commit(p)
  PROVE  NoticeInv'
<1>1. file.version \in Nat /\ file'.version = file.version + 1
  <2>1. base[p] = file.version /\ draft[p] \in Files /\ file.version \in Nat
    BY DEF Commit, TypeOK, Files
  <2> QED BY <2>1 DEF Commit, Files
<1>2. UNCHANGED <<state, checkpoint>>
  BY DEF Commit
<1>3. /\ \A q \in Procs \ {p} : pc'[q] = pc[q]
      /\ \A q \in Procs : seen'[q] \in {0, seen[q]}
      /\ pc'[p] # "mark"
  <2>1. CASE Rest(p)
    BY <2>1, RestsAside DEF Others
  <2>2. CASE ~Rest(p)
    BY <2>2 DEF Commit, TypeOK
  <2> QED BY <2>1, <2>2
<1>4. /\ checkpoint' # file'.version /\ checkpoint' <= file'.version
      /\ \A q \in Procs : seen'[q] # file'.version /\ seen'[q] <= file'.version
  BY <1>1, <1>2, <1>3, VersionsAre DEF NoticeInv, SeenEarlier
<1>5. SeenEarlier'
  BY <1>4 DEF SeenEarlier
<1>6. ASSUME ~overlapped' PROVE Noticed'
  <2>1. MemoryIsNoticed' /\ DraftsAreNoticed' /\ MarksAreNoticed'
    BY <1>4 DEF MemoryIsNoticed, DraftsAreNoticed, MarksAreNoticed
  <2>2. CASE p \in Installers
    <3>1. overlapped' = (overlapped \/ Overlaps(p))
      BY <2>2, DistinctProcs DEF Commit
    <3>2. \A q \in Procs \ {p} : ~Carries(q)
      BY <1>6, <3>1 DEF Overlaps, Carries
    <3> QED BY <1>3, <2>1, <3>2 DEF Noticed, OneCarrier, Carries
  <2>3. CASE p \notin Installers
    <3>1. overlapped' = overlapped /\ pc'[p] \in {"stat", "idle"}
      BY <2>3 DEF Commit, Rest, TypeOK
    <3>2. OneCarrier
      BY <1>6, <3>1 DEF NoticeInv, Noticed
    <3> QED BY <1>3, <2>1, <3>1, <3>2 DEF Noticed, OneCarrier, Carries
  <2> QED BY <2>2, <2>3
<1> QED BY <1>5, <1>6 DEF NoticeInv

\* What a copy is: what a load took, or what a consume found.
LEMMA CopiesAre ==
  ASSUME NEW f \in Files
  PROVE  Copies(f, f) /\ \A S : Copies(Pruned(f, S), f)
<1>1. ASSUME NEW S PROVE Copies(Pruned(f, S), f)
  <2>1. /\ Pruned(f, S).gen = f.gen
        /\ Pruned(f, S).install = [m \in Nodes |-> IF m \in S THEN 0 ELSE f.install[m]]
    BY PrunedFields
  <2> QED BY <2>1 DEF Copies
<1> QED BY <1>1 DEF Copies

\* The copy of the only carrier replaces memory.
LEMMA ReplaceKeepsNotice ==
  ASSUME TypeOK, NoticeInv, NEW p \in Procs, Replace(p)
  PROVE  NoticeInv'
<1>1. /\ pc[p] = "loaded" /\ pc'[p] = "mark"
      /\ UNCHANGED <<file, checkpoint, overlapped, draft, seen>>
      /\ \A q \in Procs \ {p} : pc'[q] = pc[q]
  BY DEF Replace, TypeOK, diskVars
<1>2. state' = Content(draft[p])
  BY DEF Replace
<1>3. SeenEarlier'
  BY <1>1 DEF NoticeInv, SeenEarlier
<1>4. ASSUME ~overlapped' PROVE Noticed'
  <2>1. Noticed
    BY <1>1, <1>4 DEF NoticeInv
  <2>2. \A q \in Procs \ {p} : ~Carries(q) /\ ~Carries(q)'
    BY <1>1, <2>1 DEF Noticed, OneCarrier, Carries
  <2>3. file.version \in {checkpoint, seen[p]} => Copies(state', file)
    <3>1. file.version \in {checkpoint, seen[p]} => Copies(draft[p], file)
      BY <1>1, <2>1 DEF Noticed, DraftsAreNoticed
    <3> QED BY <1>2, <3>1 DEF Copies, Content
  <2>4. OneCarrier'
    BY <2>2 DEF OneCarrier
  <2>5. MemoryIsNoticed'
    BY <1>1, <2>3 DEF MemoryIsNoticed
  <2>6. DraftsAreNoticed'
    BY <1>1, <2>2 DEF DraftsAreNoticed, Carries
  <2>7. MarksAreNoticed'
    BY <1>1, <2>2, <2>3 DEF MarksAreNoticed, Carries
  <2> QED BY <2>4, <2>5, <2>6, <2>7 DEF Noticed
<1> QED BY <1>3, <1>4 DEF NoticeInv

\* The checkpoint becomes the fingerprint of the only carrier.
LEMMA MarkKeepsNotice ==
  ASSUME TypeOK, NoticeInv, NEW p \in Procs, Mark(p)
  PROVE  NoticeInv'
<1>1. pc[p] = "mark" /\ checkpoint' = seen[p] /\ UNCHANGED <<file, state, overlapped>>
  BY DEF Mark, diskVars
<1>2. Others(p) /\ pc'[p] \in {"sending", "idle"} /\ seen'[p] = 0
  <2>1. CASE Rest(p)
    BY <2>1, RestsAside
  <2>2. CASE ~Rest(p)
    BY <2>2 DEF Mark, TypeOK, Others
  <2> QED BY <2>1, <2>2
<1>3. SeenEarlier'
  BY <1>1, <1>2, VersionsAre DEF NoticeInv, SeenEarlier, Others
<1>4. ASSUME ~overlapped' PROVE Noticed'
  <2>1. Noticed
    BY <1>1, <1>4 DEF NoticeInv
  <2>2. \A q \in Procs : ~Carries(q)'
    BY <1>1, <1>2, <2>1 DEF Noticed, OneCarrier, Carries, Others
  <2>3. MemoryIsNoticed'
    BY <1>1, <2>1 DEF Noticed, MarksAreNoticed, MemoryIsNoticed
  <2>4. OneCarrier' /\ DraftsAreNoticed' /\ MarksAreNoticed'
    BY <2>2 DEF OneCarrier, DraftsAreNoticed, MarksAreNoticed, Carries
  <2> QED BY <2>3, <2>4 DEF Noticed
<1> QED BY <1>3, <1>4 DEF NoticeInv

\* A consume puts its copy in memory.
LEMMA ApplyKeepsNotice ==
  ASSUME TypeOK, NoticeInv, NEW p \in Procs, p \in Installers, Apply(p)
  PROVE  NoticeInv'
<1>1. /\ pc[p] = "apply" /\ state' = Content(draft[p])
      /\ UNCHANGED <<file, checkpoint, overlapped>>
  BY DEF Apply, diskVars
<1>2. Others(p) /\ pc'[p] = "idle" /\ seen'[p] = 0
  BY RestsAside DEF Apply
<1>3. SeenEarlier'
  BY <1>1, <1>2, VersionsAre DEF NoticeInv, SeenEarlier, Others
<1>4. ASSUME ~overlapped' PROVE Noticed'
  <2>1. Noticed
    BY <1>1, <1>4 DEF NoticeInv
  <2>2. \A q \in Procs : ~Carries(q)'
    BY <1>1, <1>2, <2>1 DEF Noticed, OneCarrier, Carries, Others
  <2>3. checkpoint = file.version => Copies(draft[p], file)
    BY <1>1, <2>1 DEF Noticed, DraftsAreNoticed
  <2>4. MemoryIsNoticed'
    BY <1>1, <2>3 DEF MemoryIsNoticed, Copies, Content
  <2>5. OneCarrier' /\ DraftsAreNoticed' /\ MarksAreNoticed'
    BY <2>2 DEF OneCarrier, DraftsAreNoticed, MarksAreNoticed, Carries
  <2> QED BY <2>4, <2>5 DEF Noticed
<1> QED BY <1>3, <1>4 DEF NoticeInv

\* A consume that finds nothing to persist takes the file as it is.
LEMMA PrepareTakes ==
  ASSUME TypeOK, NoticeInv, NEW p \in Procs, NEW t, NEW S, Prepare(p, t, S)
  PROVE  Aside(p) \/ Takes(p)
<1>1. /\ UNCHANGED <<file, state, checkpoint, seen>> /\ Others(p)
      /\ draft'[p] = Prepared(p, file, t, S)
  BY DEF Prepare, TypeOK, Others, diskVars
<1>2. seen'[p] <= file.version
  BY <1>1 DEF NoticeInv, SeenEarlier
<1>3. CASE Persists(p, t, S)
  <2>1. pc'[p] = "prepared" /\ overlapped' = overlapped
    BY <1>3 DEF Prepare, TypeOK
  <2> QED BY <1>1, <1>2, <2>1 DEF Aside, Carries
<1>4. CASE ~Persists(p, t, S)
  <2>1. pc'[p] = "apply" /\ overlapped' = (overlapped \/ Overlaps(p))
    BY <1>4 DEF Prepare, TypeOK
  <2>2. p \in Installers /\ ~Holds(file, t.node, t.gen, S) /\ Pruned(file, S) = file
    BY <1>4 DEF Persists
  <2>3. draft'[p] = file
    BY <1>1, <2>2, DistinctProcs DEF Prepared
  <2>4. Copies(file, file)
    BY CopiesAre DEF TypeOK
  <2> QED BY <1>1, <1>2, <2>1, <2>3, <2>4 DEF Takes
<1> QED BY <1>3, <1>4

\* A load takes the file without what has expired.
LEMMA LoadTakes ==
  ASSUME TypeOK, NoticeInv, NEW p \in Procs, NEW S, Load(p, S)
  PROVE  Takes(p)
<1>1. /\ UNCHANGED <<file, state, checkpoint, seen>> /\ Others(p)
      /\ draft'[p] = Pruned(file, S) /\ pc'[p] = "loaded"
      /\ overlapped' = (overlapped \/ Overlaps(p))
  BY DEF Load, TypeOK, Others, diskVars
<1>2. seen'[p] <= file.version
  BY <1>1 DEF NoticeInv, SeenEarlier
<1>3. Copies(Pruned(file, S), file)
  BY CopiesAre DEF TypeOK
<1> QED BY <1>1, <1>2, <1>3 DEF Takes

\* The other steps of a process have no copy before or after.
LEMMA RestIsAside ==
  ASSUME TypeOK, NEW p \in Procs, Rest(p), UNCHANGED <<file, state, checkpoint, overlapped>>
  PROVE  Aside(p)
<1>1. 0 <= file.version
  BY VersionsAre
<1> QED BY <1>1, RestsAside DEF Aside, Carries

LEMMA AsideSteps ==
  ASSUME TypeOK, NoticeInv, NEW p \in Procs,
         \/ Conflict(p) \/ WriteFails(p) \/ Stat(p) \/ LoadFails(p) \/ (p = Poller /\ Compare)
  PROVE  Aside(p)
<1>1. UNCHANGED <<file, state, checkpoint, overlapped>>
  BY DEF Conflict, WriteFails, Stat, LoadFails, Compare, diskVars, memoryVars
<1>2. CASE Rest(p)
  BY <1>1, <1>2, RestIsAside
<1>3. CASE ~Rest(p)
  <2>1. Others(p) /\ pc'[p] \in {"retry", "load", "compare"}
    BY <1>3 DEF Conflict, WriteFails, Stat, LoadFails, Compare, Fail, TypeOK, Others
  <2>2. seen'[p] \in {seen[p], file.version}
    BY <1>3 DEF Conflict, WriteFails, Stat, LoadFails, Compare, Fail, TypeOK
  <2>3. seen'[p] <= file.version
    BY <2>2, VersionsAre DEF NoticeInv, SeenEarlier
  <2> QED BY <1>1, <2>1, <2>3 DEF Aside, Carries
<1> QED BY <1>2, <1>3

LEMMA SessionsAside ==
  ASSUME TypeOK, NoticeInv, NEW s \in Sessions, SessionStep(s)
  PROVE  Aside(s) \/ UNCHANGED <<file, state, checkpoint, overlapped, pc, draft, seen>>
<1>1. s \in Procs /\ UNCHANGED <<file, state, checkpoint, overlapped>>
  BY DEF SessionStep, BeginVerify, FinishVerify, CheckToken, SendToken, SendFails,
     SessionEnds, diskVars, memoryVars, Procs
<1>2. CASE Rest(s)
  BY <1>1, <1>2, RestIsAside
<1>3. CASE ~Rest(s)
  <2>1. UNCHANGED <<pc, draft, seen>>
    BY <1>3 DEF SessionStep, BeginVerify, FinishVerify, CheckToken, SendToken, SendFails,
       SessionEnds, procVars
  <2> QED BY <1>1, <2>1
<1> QED BY <1>2, <1>3

LEMMA NoticeStep == TypeOK /\ NoticeInv /\ [Next]_vars => NoticeInv'
<1> SUFFICES ASSUME TypeOK, NoticeInv, [Next]_vars PROVE NoticeInv'
  OBVIOUS
<1>1. ASSUME NEW p \in Procs, NEW t, NEW S, Prepare(p, t, S) PROVE NoticeInv'
  BY <1>1, PrepareTakes, AsideKeeps, TakesKeeps
<1>2. ASSUME NEW p \in Procs, NEW S, Load(p, S) PROVE NoticeInv'
  BY <1>2, LoadTakes, TakesKeeps
<1>3. ASSUME NEW p \in Procs,
             \/ Conflict(p) \/ WriteFails(p) \/ Stat(p) \/ LoadFails(p) \/ (p = Poller /\ Compare)
      PROVE  NoticeInv'
  BY <1>3, AsideSteps, AsideKeeps
<1>4. ASSUME NEW p \in Procs, Commit(p) \/ Replace(p) \/ Mark(p) PROVE NoticeInv'
  BY <1>4, CommitKeepsNotice, ReplaceKeepsNotice, MarkKeepsNotice
<1>5. ASSUME NEW i \in Installers, Apply(i) PROVE NoticeInv'
  BY <1>5, ApplyKeepsNotice DEF Procs
<1>6. CASE UNCHANGED <<file, state, checkpoint, overlapped, pc, draft, seen>>
  BY <1>6 DEF NoticeInv, SeenEarlier, Noticed, OneCarrier, MemoryIsNoticed, DraftsAreNoticed,
     MarksAreNoticed, Carries
<1>7. ASSUME NEW s \in Sessions, SessionStep(s) PROVE NoticeInv'
  BY <1>6, <1>7, SessionsAside, AsideKeeps DEF Procs
<1>8. CASE UNCHANGED vars
  BY <1>6, <1>8 DEF vars
<1>9. Poller \in Procs
  BY DEF Procs
<1> QED BY <1>1, <1>2, <1>3, <1>4, <1>5, <1>7, <1>8, <1>9 DEF Next, WriteStep, ReloadStep

\* However many sessions, requests and operator commands read and write the file, a copy
\* in memory that differs from the file is noticed by the next poll, unless two copies
\* were on their way to memory at once (registry.rs, reload_if_file_changed).
THEOREM StalenessNoticed == Spec => []StalenessIsNoticed
<1>1. TypeOK /\ NoticeInv => StalenessIsNoticed
  BY DEF NoticeInv, Noticed, MemoryIsNoticed, StalenessIsNoticed, Quiet, UpToDate, Copies
<1> QED BY <1>1, InitType, TypeStep, InitNotice, NoticeStep, PTL DEF Spec
================================================================================
