---------------------------- MODULE TokenRegistry ----------------------------
(***************************************************************************)
(* The node registry: a JSON file that the server and the operator CLI     *)
(* write with optimistic concurrency (registry.rs, registry/storage.rs),   *)
(* the server's copy of it in memory with its revision and its reload      *)
(* checkpoint, the poll that notices external changes (background.rs), and *)
(* the agent sessions that cache a token generation and compare it on every*)
(* message (ws/refresh.rs).                                                *)
(*                                                                         *)
(* A token is represented by its node and its generation: the version      *)
(* check makes generations unique (ImplementsAtomicRegistry).  A file is   *)
(* represented by its version, which is unique for the same reason, so the *)
(* fingerprint of a file is its version; version 0 is the missing file.    *)
(* Files with tokens from before the hash migration are not represented,   *)
(* nor is the expiry of a token: an expired session ends, and a session    *)
(* may end at any time here.                                               *)
(*                                                                         *)
(* An operator whose name says what was forgotten or done wrong, such as   *)
(* CommitUnchecked, is a faulty variant of the definition after it; no     *)
(* action uses it, and a run refutes each (README).                        *)
(***************************************************************************)
EXTENDS Naturals, FiniteSets

CONSTANTS
  Nodes,            \* node ids
  Sessions,         \* agent sessions, which rotate their own token
  Installers,       \* HTTP requests that consume an install token
  Issuers,          \* operator CLI processes
  Poller,           \* the background task that polls the file
  MaxWriteRetries,  \* MAX_REGISTRY_WRITE_RETRIES
  MaxVersion,       \* bound of the model: writes of the file
  MaxRevision       \* bound of the model: reloads after which consume stops

Procs == Sessions \cup Installers \cup Issuers \cup {Poller}

ASSUME DistinctProcs ==
  /\ Sessions \cap Installers = {}
  /\ Sessions \cap Issuers = {}
  /\ Installers \cap Issuers = {}
  /\ Poller \notin Sessions \cup Installers \cup Issuers
ASSUME RetriesAssumption == MaxWriteRetries \in Nat \ {0}

VARIABLES
  file,         \* the registry file
  state,        \* the server's copy of its content
  revision,     \* registry_revision
  checkpoint,   \* fingerprint in reload_checkpoint
  pc,           \* where a process is in its registry operation
  wanted,       \* the node, and the generation of the token, it works on
  draft,        \* the file a process prepared, committed or loaded
  base,         \* version on which a draft is based
  tries,        \* failed commits of the current write
  found,        \* whether a consume found the install session it looks for
  seen,         \* fingerprint a reload took
  session,      \* whether an agent session is off, verifying or on
  entry,        \* generation seen when verification of a token began
  round,        \* attempt of authorize, 1 or 2
  generation,   \* session_generation cached by a session
  cached,       \* registry_revision cached by a session
  handed,       \* history: generations handed out by install sessions
  selfRotated,  \* history: the session's cache stems from its own rotation
  overlapped    \* history: two copies of the file were under way at once

diskVars == <<file, handed>>
memoryVars == <<state, revision, checkpoint, overlapped>>
procVars == <<pc, wanted, draft, base, tries, found, seen>>
sessionVars == <<session, entry, round, generation, cached, selfRotated>>
vars == <<file, state, revision, checkpoint, pc, wanted, draft, base, tries,
          found, seen, session, entry, round, generation, cached, handed,
          selfRotated, overlapped>>

Generations == [Nodes -> Nat]
Files == [version : Nat, gen : Generations, install : Generations]
Contents == [gen : Generations, install : Generations]
Content(f) == [gen |-> f.gen, install |-> f.install]

PCs == {"idle", "retry", "prepared", "stat", "compare", "load", "loaded",
        "mark", "apply", "sending"}

EmptyFile ==
  [version |-> 0, gen |-> [n \in Nodes |-> 0], install |-> [n \in Nodes |-> 0]]

TypeOK ==
  /\ file \in Files
  /\ state \in Contents
  /\ revision \in Nat
  /\ checkpoint \in Nat
  /\ pc \in [Procs -> PCs]
  /\ wanted \in [Procs -> [node : Nodes, gen : Nat]]
  /\ draft \in [Procs -> Files]
  /\ base \in [Procs -> Nat]
  /\ tries \in [Procs -> 0..(MaxWriteRetries - 1)]
  /\ found \in [Procs -> BOOLEAN]
  /\ seen \in [Procs -> Nat]
  /\ session \in [Sessions -> {"off", "verifying", "on"}]
  /\ entry \in [Sessions -> Nat]
  /\ round \in [Sessions -> 1..2]
  /\ generation \in [Sessions -> Nat]
  /\ cached \in [Sessions -> Nat]
  /\ handed \in [Nodes -> SUBSET Nat]
  /\ selfRotated \in [Sessions -> BOOLEAN]
  /\ overlapped \in BOOLEAN

Init ==
  /\ file = EmptyFile
  /\ state = Content(EmptyFile)
  /\ revision = 1
  /\ checkpoint = 0
  /\ pc = [p \in Procs |-> "idle"]
  /\ wanted \in [Procs -> [node : Nodes, gen : {0}]]
  /\ draft = [p \in Procs |-> EmptyFile]
  /\ base = [p \in Procs |-> 0]
  /\ tries = [p \in Procs |-> 0]
  /\ found = [p \in Procs |-> FALSE]
  /\ seen = [p \in Procs |-> 0]
  /\ session = [s \in Sessions |-> "off"]
  /\ entry = [s \in Sessions |-> 0]
  /\ round = [s \in Sessions |-> 1]
  /\ generation = [s \in Sessions |-> 0]
  /\ cached = [s \in Sessions |-> 0]
  /\ handed = [n \in Nodes |-> {}]
  /\ selfRotated = [s \in Sessions |-> FALSE]
  /\ overlapped = FALSE

------------------------------------------------------------------------------
(* The operations on a file.  S is the set of nodes whose install session  *)
(* has expired when the operation looks at the clock.                      *)

Pruned(f, S) ==
  [f EXCEPT !.install = [n \in Nodes |-> IF n \in S THEN 0 ELSE f.install[n]]]

\* refresh_token: the next generation; a pending install session stays.
Rotated(f, n) == [f EXCEPT !.gen = [f.gen EXCEPT ![n] = @ + 1]]

\* issue_node: the next generation, carried by the node's only install session.
Issued(f, n, S) ==
  [f EXCEPT !.gen = [f.gen EXCEPT ![n] = @ + 1],
            !.install = [Pruned(f, S).install EXCEPT ![n] = f.gen[n] + 1]]

\* consume_install_token finds the session that holds generation g of node n.
Holds(f, n, g, S) == g # 0 /\ Pruned(f, S).install[n] = g

Consumed(f, n, S) ==
  [f EXCEPT !.install = [Pruned(f, S).install EXCEPT ![n] = 0]]

\* The file that process p prepares from f to reach its target t.
Prepared(p, f, t, S) ==
  CASE p \in Sessions -> Rotated(f, t.node)
    [] p \in Issuers -> Issued(f, t.node, S)
    [] OTHER -> IF Holds(f, t.node, t.gen, S) THEN Consumed(f, t.node, S)
                                              ELSE Pruned(f, S)

\* Only a consume may find that there is nothing to persist.
Persists(p, t, S) ==
  p \in Installers => Holds(file, t.node, t.gen, S) \/ Pruned(file, S) # file

\* Another process holds a copy of the file that is about to reach memory.
Overlaps(p) ==
  \E q \in Procs \ {p} : pc[q] \in {"loaded", "mark", "apply"}

\* Process p is back to rest.
Rest(p) ==
  /\ pc' = [pc EXCEPT ![p] = "idle"]
  /\ wanted' = [wanted EXCEPT ![p].gen = 0]
  /\ draft' = [draft EXCEPT ![p] = EmptyFile]
  /\ base' = [base EXCEPT ![p] = 0]
  /\ tries' = [tries EXCEPT ![p] = 0]
  /\ found' = [found EXCEPT ![p] = FALSE]
  /\ seen' = [seen EXCEPT ![p] = 0]

\* A session ends and its cache is gone.
TurnOff(s) ==
  /\ session' = [session EXCEPT ![s] = "off"]
  /\ entry' = [entry EXCEPT ![s] = 0]
  /\ round' = [round EXCEPT ![s] = 1]
  /\ generation' = [generation EXCEPT ![s] = 0]
  /\ cached' = [cached EXCEPT ![s] = 0]
  /\ selfRotated' = [selfRotated EXCEPT ![s] = FALSE]

\* An operation of process p fails.  A session either reports the error to its
\* agent and goes on (refresh requested by the agent) or ends (other refreshes).
Fail(p) ==
  /\ Rest(p)
  /\ \/ UNCHANGED sessionVars
     \/ p \in Sessions /\ TurnOff(p)

------------------------------------------------------------------------------
(* Writing the file: mutate_registry_file.                                 *)

\* What process p may set out to do: a live session rotates the token of its
\* own node, the CLI issues any node, a request tries any token issued so far.
Target(p, t) ==
  \/ /\ p \in Sessions
     /\ session[p] = "on"
     /\ t = wanted[p]
  \/ /\ p \in Issuers
     /\ t.gen = 0
  \/ /\ p \in Installers
     /\ t.gen \in 1..file.gen[t.node]
     /\ revision < MaxRevision

\* Read the file and apply the operation to the copy, outside any lock.
Prepare(p, t, S) ==
  /\ \/ pc[p] = "idle" /\ Target(p, t)
     \/ pc[p] = "retry" /\ t = wanted[p]
  /\ file.version < MaxVersion
  /\ wanted' = [wanted EXCEPT ![p] = t]
  /\ draft' = [draft EXCEPT ![p] = Prepared(p, file, t, S)]
  /\ base' = [base EXCEPT ![p] = file.version]
  /\ found' = [found EXCEPT ![p] = p \in Installers /\ Holds(file, t.node, t.gen, S)]
  /\ IF Persists(p, t, S)
       THEN /\ pc' = [pc EXCEPT ![p] = "prepared"]
            /\ UNCHANGED overlapped
       ELSE /\ pc' = [pc EXCEPT ![p] = "apply"]
            /\ overlapped' = (overlapped \/ Overlaps(p))
  /\ UNCHANGED <<tries, seen, diskVars, state, revision, checkpoint, sessionVars>>

\* Faulty variant: the version is not compared under the lock.
CommitUnchecked(p) ==
  LET n == wanted[p].node IN
  /\ pc[p] = "prepared"
  /\ file' = [draft[p] EXCEPT !.version = base[p] + 1]
  /\ handed' = [handed EXCEPT ![n] = @ \cup (IF found[p] THEN {wanted[p].gen} ELSE {})]
  /\ Rest(p)
  /\ UNCHANGED <<state, revision, checkpoint, overlapped, sessionVars>>

\* Under the file lock the version is still the one read: rename the prepared
\* file into place.
Commit(p) ==
  LET n == wanted[p].node IN
  /\ pc[p] = "prepared"
  /\ file.version = base[p]
  /\ file' = [draft[p] EXCEPT !.version = base[p] + 1]
  /\ \/ /\ p \in Sessions
        /\ pc' = [pc EXCEPT ![p] = "stat"]
        /\ wanted' = [wanted EXCEPT ![p].gen = draft[p].gen[n]]
        /\ UNCHANGED <<draft, base, tries, found, seen, handed, overlapped>>
     \/ /\ p \in Installers
        /\ pc' = [pc EXCEPT ![p] = "apply"]
        /\ handed' = [handed EXCEPT ![n] = @ \cup (IF found[p] THEN {wanted[p].gen} ELSE {})]
        /\ overlapped' = (overlapped \/ Overlaps(p))
        /\ UNCHANGED <<wanted, draft, base, tries, found, seen>>
     \/ /\ p \in Issuers
        /\ Rest(p)
        /\ UNCHANGED <<handed, overlapped>>
  /\ UNCHANGED <<state, revision, checkpoint, sessionVars>>

\* Faulty variant: one retry too many.
ConflictRetriedOnceMore(p) ==
  /\ pc[p] = "prepared"
  /\ file.version # base[p]
  /\ IF tries[p] < MaxWriteRetries
       THEN /\ pc' = [pc EXCEPT ![p] = "retry"]
            /\ tries' = [tries EXCEPT ![p] = @ + 1]
            /\ draft' = [draft EXCEPT ![p] = EmptyFile]
            /\ base' = [base EXCEPT ![p] = 0]
            /\ UNCHANGED <<wanted, found, seen, sessionVars>>
       ELSE Fail(p)
  /\ UNCHANGED <<diskVars, memoryVars>>

\* VersionConflict: another process has committed.  Start over, a bounded
\* number of times.
Conflict(p) ==
  /\ pc[p] = "prepared"
  /\ file.version # base[p]
  /\ IF tries[p] + 1 < MaxWriteRetries
       THEN /\ pc' = [pc EXCEPT ![p] = "retry"]
            /\ tries' = [tries EXCEPT ![p] = @ + 1]
            /\ draft' = [draft EXCEPT ![p] = EmptyFile]
            /\ base' = [base EXCEPT ![p] = 0]
            /\ UNCHANGED <<wanted, found, seen, sessionVars>>
       ELSE Fail(p)
  /\ UNCHANGED <<diskVars, memoryVars>>

\* The file cannot be read or written; what was prepared is removed.
WriteFails(p) ==
  /\ pc[p] \in {"prepared", "retry"}
  /\ Fail(p)
  /\ UNCHANGED <<diskVars, memoryVars>>

------------------------------------------------------------------------------
(* Reading the file into memory: reload and reload_if_file_changed.        *)

\* The fingerprint is taken before the content is read.
Stat(p) ==
  /\ \/ p \in Sessions /\ pc[p] = "stat" /\ pc' = [pc EXCEPT ![p] = "load"]
     \/ p = Poller /\ pc[p] = "idle" /\ pc' = [pc EXCEPT ![p] = "compare"]
  /\ seen' = [seen EXCEPT ![p] = file.version]
  /\ UNCHANGED <<wanted, draft, base, tries, found, diskVars, memoryVars, sessionVars>>

\* The poll stops here when the fingerprint is the one of the checkpoint.
Compare ==
  /\ pc[Poller] = "compare"
  /\ IF checkpoint = seen[Poller]
       THEN Rest(Poller)
       ELSE /\ pc' = [pc EXCEPT ![Poller] = "load"]
            /\ UNCHANGED <<wanted, draft, base, tries, found, seen>>
  /\ UNCHANGED <<diskVars, memoryVars, sessionVars>>

\* load_registry_state reads and prunes the file, without any lock.
Load(p, S) ==
  /\ pc[p] = "load"
  /\ draft' = [draft EXCEPT ![p] = Pruned(file, S)]
  /\ pc' = [pc EXCEPT ![p] = "loaded"]
  /\ overlapped' = (overlapped \/ Overlaps(p))
  /\ UNCHANGED <<wanted, base, tries, found, seen, diskVars, state, revision,
                 checkpoint, sessionVars>>

\* The file cannot be read: memory stays as it is, even after a rotation that
\* is already on disk.
LoadFails(p) ==
  /\ pc[p] = "load"
  /\ Fail(p)
  /\ UNCHANGED <<diskVars, memoryVars>>

\* Faulty variant: the revision is not moved.
ReplaceSilently(p) ==
  /\ pc[p] = "loaded"
  /\ state' = Content(draft[p])
  /\ pc' = [pc EXCEPT ![p] = "mark"]
  /\ UNCHANGED <<wanted, draft, base, tries, found, seen, diskVars, revision,
                 checkpoint, overlapped, sessionVars>>

\* Under the write lock, replace the copy if it differs.
Replace(p) ==
  /\ pc[p] = "loaded"
  /\ IF state # Content(draft[p])
       THEN revision' = revision + 1 /\ state' = Content(draft[p])
       ELSE UNCHANGED <<revision, state>>
  /\ pc' = [pc EXCEPT ![p] = "mark"]
  /\ UNCHANGED <<wanted, draft, base, tries, found, seen, diskVars, checkpoint,
                 overlapped, sessionVars>>

\* Faulty variant: the fingerprint is taken again after the load.
MarkNewestFile(p) ==
  /\ pc[p] = "mark"
  /\ checkpoint' = file.version
  /\ Rest(p)
  /\ UNCHANGED <<diskVars, state, revision, overlapped, sessionVars>>

\* After the lock is released, remember the fingerprint.
Mark(p) ==
  /\ pc[p] = "mark"
  /\ checkpoint' = seen[p]
  /\ \/ /\ p \in Sessions
        /\ pc' = [pc EXCEPT ![p] = "sending"]
        /\ draft' = [draft EXCEPT ![p] = EmptyFile]
        /\ seen' = [seen EXCEPT ![p] = 0]
        /\ UNCHANGED <<wanted, base, tries, found>>
     \/ p = Poller /\ Rest(p)
  /\ UNCHANGED <<diskVars, state, revision, overlapped, sessionVars>>

\* consume_install_token puts the very file it wrote, or found, into memory.
Apply(i) ==
  /\ pc[i] = "apply"
  /\ revision' = revision + 1
  /\ state' = Content(draft[i])
  /\ Rest(i)
  /\ UNCHANGED <<diskVars, checkpoint, overlapped, sessionVars>>

------------------------------------------------------------------------------
(* Agent sessions.                                                         *)

\* authorize reads the entry and verifies the token an agent presents.
BeginVerify(s, g) ==
  LET n == wanted[s].node IN
  /\ session[s] = "off" /\ pc[s] = "idle"
  /\ state.gen[n] # 0
  /\ g \in 1..file.gen[n]
  /\ session' = [session EXCEPT ![s] = "verifying"]
  /\ entry' = [entry EXCEPT ![s] = state.gen[n]]
  /\ wanted' = [wanted EXCEPT ![s].gen = g]
  /\ UNCHANGED <<round, generation, cached, selfRotated, pc, draft, base, tries,
                 found, seen, diskVars, memoryVars>>

\* Verification takes time; the entry is compared with the current one and
\* verification starts over once if it has changed.
FinishVerify(s) ==
  LET current == state.gen[wanted[s].node] IN
  /\ session[s] = "verifying" /\ pc[s] = "idle"
  /\ \/ /\ current # entry[s] /\ round[s] = 1
        /\ entry' = [entry EXCEPT ![s] = current]
        /\ round' = [round EXCEPT ![s] = 2]
        /\ UNCHANGED <<session, generation, cached, selfRotated, wanted>>
     \/ /\ \/ current # entry[s] /\ round[s] = 2
           \/ current = entry[s] /\ wanted[s].gen # current
        /\ TurnOff(s)
        /\ wanted' = [wanted EXCEPT ![s].gen = 0]
     \/ /\ current = entry[s] /\ wanted[s].gen = current
        /\ session' = [session EXCEPT ![s] = "on"]
        /\ generation' = [generation EXCEPT ![s] = current]
        /\ cached' = [cached EXCEPT ![s] = revision]
        /\ entry' = [entry EXCEPT ![s] = 0]
        /\ round' = [round EXCEPT ![s] = 1]
        /\ wanted' = [wanted EXCEPT ![s].gen = 0]
        /\ UNCHANGED selfRotated
  /\ UNCHANGED <<pc, draft, base, tries, found, seen, diskVars, memoryVars>>

\* ensure_current_token on a message or a ping tick.  While the revision is the
\* cached one nothing is looked up and nothing changes.
CheckToken(s) ==
  /\ session[s] = "on" /\ pc[s] = "idle"
  /\ cached[s] # revision
  /\ IF state.gen[wanted[s].node] = generation[s]
       THEN /\ cached' = [cached EXCEPT ![s] = revision]
            /\ selfRotated' = [selfRotated EXCEPT ![s] = FALSE]
            /\ UNCHANGED <<session, entry, round, generation>>
       ELSE TurnOff(s)
  /\ UNCHANGED <<procVars, diskVars, memoryVars>>

\* The response with the new token is sent; then the session takes over the
\* generation it rotated to, with the revision of this later moment.
SendToken(s) ==
  /\ pc[s] = "sending"
  /\ generation' = [generation EXCEPT ![s] = wanted[s].gen]
  /\ cached' = [cached EXCEPT ![s] = revision]
  /\ selfRotated' = [selfRotated EXCEPT ![s] = TRUE]
  /\ Rest(s)
  /\ UNCHANGED <<session, entry, round, diskVars, memoryVars>>

\* Sending fails: the session ends, and the rotated token is lost.
SendFails(s) ==
  /\ pc[s] = "sending"
  /\ TurnOff(s)
  /\ Rest(s)
  /\ UNCHANGED <<diskVars, memoryVars>>

\* The session ends for any other reason.
SessionEnds(s) ==
  /\ session[s] = "on" /\ pc[s] = "idle"
  /\ TurnOff(s)
  /\ UNCHANGED <<procVars, diskVars, memoryVars>>

------------------------------------------------------------------------------
Targets == [node : Nodes, gen : 0..MaxVersion]

WriteStep(p) ==
  \/ \E t \in Targets, S \in SUBSET Nodes : Prepare(p, t, S)
  \/ Commit(p) \/ Conflict(p) \/ WriteFails(p)

ReloadStep(p) ==
  \/ Stat(p)
  \/ \E S \in SUBSET Nodes : Load(p, S)
  \/ LoadFails(p) \/ Replace(p) \/ Mark(p)

SessionStep(s) ==
  \/ \E g \in 1..MaxVersion : BeginVerify(s, g)
  \/ FinishVerify(s) \/ CheckToken(s) \/ SendToken(s) \/ SendFails(s)
  \/ SessionEnds(s)

Next ==
  \/ \E p \in Procs : WriteStep(p) \/ ReloadStep(p)
  \/ Compare
  \/ \E i \in Installers : Apply(i)
  \/ \E s \in Sessions : SessionStep(s)

Spec == Init /\ [][Next]_vars

------------------------------------------------------------------------------
(* Properties.                                                             *)

\* The versioned write makes every operation on the file atomic: a concurrent
\* rotation by the server, an issue by the CLI and a consume never undo one
\* another, two successful rotations never return the same generation, and an
\* install token is handed out at most once.
Atomic == INSTANCE AtomicRegistry WITH gen <- file.gen, install <- file.install
ImplementsAtomicRegistry == Atomic!AtomicSpec

\* A session on the lock-free fast path, whose cached revision is the current
\* one, holds the generation the server holds: the pair it cached was read
\* under one lock.  A session that has just rotated its own token is exempt:
\* the pair it caches was not.
FastPathIsCurrent(s) ==
  session[s] = "on" /\ pc[s] = "idle" /\ cached[s] = revision
    => generation[s] = state.gen[wanted[s].node]

FastPathIsSound == \A s \in Sessions : selfRotated[s] \/ FastPathIsCurrent(s)

\* A cached revision is never ahead of the registry's.
CacheNotAhead == \A s \in Sessions : cached[s] <= revision

\* The documented role of the generation (SECURITY.md:51, the test
\* token_check_revalidates_after_registry_revision_changes): a session compares
\* it to find out on the hot path that its token has been rotated.
HotPathSeesRotation ==
  \A s \in Sessions :
    session[s] = "on" /\ pc[s] = "idle" /\ generation[s] < state.gen[wanted[s].node]
      => cached[s] # revision

\* The poll is at rest and will skip the file as unchanged.
Quiet ==
  /\ checkpoint = file.version
  /\ \A p \in Procs : pc[p] \notin {"load", "loaded", "mark", "apply"}

\* Expired install sessions may have left memory but not yet the file.
UpToDate ==
  /\ state.gen = file.gen
  /\ \A n \in Nodes : state.install[n] \in {0, file.install[n]}

\* Unless two copies of the file were on their way to memory at the same time,
\* memory that differs from the file is noticed by the next poll.
StalenessIsNoticed == Quiet /\ ~overlapped => UpToDate

\* The documented result of consume_install_token (registry.rs:398): the token
\* handed out is the current one of the node.
HandedTokenIsCurrent ==
  [][\A n \in Nodes : \A g \in handed'[n] \ handed[n] : g = file.gen[n]]_vars
==============================================================================
