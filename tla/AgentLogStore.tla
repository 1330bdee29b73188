----------------------------- MODULE AgentLogStore ------------------------------
(***************************************************************************)
(* The recent logs of the agents in memory (agent_logs.rs): a buffer of    *)
(* bounded length per node in one of several shards, and a budget for all  *)
(* of them.  The counter of the budget is an atomic beside the locks of    *)
(* the shards, and the oldest entry is looked up shard by shard before it  *)
(* is removed.  Bytes are counted at the same places as entries, and an    *)
(* entry is its sequence number; each node of the model has a shard of its *)
(* own.                                                                    *)
(*                                                                         *)
(* Definitions whose comment says "faulty" are variants that no action     *)
(* uses (README).                                                          *)
(***************************************************************************)
EXTENDS Naturals, Sequences, FiniteSets, FiniteSetsExt

CONSTANTS
  Shards,       \* number of shards; node i has shard i
  Shippers,     \* sessions that hand over batches of logs
  MaxBatch,     \* MAX_BATCH_ENTRIES
  MaxPerNode,   \* MAX_LOGS_PER_NODE
  MaxTotal,     \* MAX_LOG_ENTRIES_TOTAL
  MaxSequence   \* bound of the model: entries pushed

ASSUME LogAssumption ==
  /\ {Shards, MaxBatch, MaxPerNode, MaxTotal} \subseteq Nat \ {0}
  /\ MaxSequence \in Nat
  /\ IsFiniteSet(Shippers) /\ 0 \notin Shippers

VARIABLES
  logs,          \* the buffer of each node
  total,         \* total_entries
  nextSequence,
  evictor,       \* the session that holds eviction_lock, or 0
  ship,          \* what each session does: the step, its node, entries left to push,
                 \* the sequence of the entry being pushed, entries to discount
  scan,          \* the next shard of the scan, its best candidate, 0 for none, and
                 \* the sequence it had when it was read
  forgotten      \* entries of forgotten nodes not discounted yet

logVars == <<logs, total, nextSequence, evictor, ship, scan, forgotten>>

LogNodes == 1..Shards
Idle == [step |-> "idle", node |-> 1, left |-> 0, sequence |-> 0, discount |-> 0]
NoScan == [shard |-> 1, node |-> 0, sequence |-> 0]
ShipSteps == {"idle", "count", "insert", "discount", "check", "lock", "recheck", "scan",
              "pop", "popped"}

LogTypeOK ==
  /\ logs \in [LogNodes -> Seq(0..MaxSequence)]
  /\ \A n \in LogNodes : Len(logs[n]) <= MaxPerNode
  /\ total \in Nat /\ forgotten \in Nat /\ nextSequence \in 0..MaxSequence
  /\ evictor \in Shippers \cup {0}
  /\ ship \in [Shippers -> [step : ShipSteps, node : LogNodes, left : 0..MaxBatch,
                            sequence : 0..MaxSequence, discount : Nat]]
  /\ scan \in [shard : 1..Shards + 1, node : 0..Shards, sequence : 0..MaxSequence]

LogInit ==
  /\ logs = [n \in LogNodes |-> <<>>] /\ total = 0 /\ nextSequence = 0
  /\ evictor = 0 /\ ship = [s \in Shippers |-> Idle] /\ scan = NoScan /\ forgotten = 0

At(s, step) == ship[s].step = step
Move(s, step) == ship' = [ship EXCEPT ![s].step = step]

\* record_entries: the first MaxBatch entries of a batch, without those that
\* sanitize_entry refuses.
BeginBatch(s) ==
  /\ At(s, "idle")
  /\ \E n \in LogNodes, k \in 1..MaxBatch :
       ship' = [ship EXCEPT ![s] = [Idle EXCEPT !.step = "count", !.node = n, !.left = k]]
  /\ UNCHANGED <<logs, total, nextSequence, evictor, scan, forgotten>>

\* push_entry counts the entry before it has the lock of the shard.
CountEntry(s) ==
  /\ At(s, "count") /\ ship[s].left > 0 /\ nextSequence < MaxSequence
  /\ nextSequence' = nextSequence + 1
  /\ total' = total + 1
  /\ ship' = [ship EXCEPT ![s].step = "insert", ![s].sequence = nextSequence,
                          ![s].left = @ - 1]
  /\ UNCHANGED <<logs, evictor, scan, forgotten>>

\* Under the lock of the shard: the entry is appended and the buffer cut.
InsertEntry(s) ==
  /\ At(s, "insert")
  /\ LET n == ship[s].node
         longer == Append(logs[n], ship[s].sequence)
         excess == IF Len(longer) > MaxPerNode THEN Len(longer) - MaxPerNode ELSE 0
     IN /\ logs' = [logs EXCEPT ![n] = SubSeq(longer, excess + 1, Len(longer))]
        /\ ship' = [ship EXCEPT ![s].step = "discount", ![s].discount = excess]
  /\ UNCHANGED <<total, nextSequence, evictor, scan, forgotten>>

\* Faulty: what the buffer has lost stays counted.
DiscountNothing(s) ==
  /\ At(s, "discount")
  /\ ship' = [ship EXCEPT ![s].step = "count", ![s].discount = 0]
  /\ UNCHANGED <<logs, total, nextSequence, evictor, scan, forgotten>>

DiscountEntries(s) ==
  /\ At(s, "discount")
  /\ total' = total - ship[s].discount
  /\ ship' = [ship EXCEPT ![s].step = "count", ![s].discount = 0]
  /\ UNCHANGED <<logs, nextSequence, evictor, scan, forgotten>>

EndPushes(s) ==
  /\ At(s, "count") /\ (ship[s].left = 0 \/ nextSequence = MaxSequence)
  /\ Move(s, "check")
  /\ UNCHANGED <<logs, total, nextSequence, evictor, scan, forgotten>>

\* enforce_global_budget looks at the counters before it takes the lock.
CheckBudget(s) ==
  /\ At(s, "check")
  /\ IF total > MaxTotal THEN Move(s, "lock") ELSE ship' = [ship EXCEPT ![s] = Idle]
  /\ UNCHANGED <<logs, total, nextSequence, evictor, scan, forgotten>>

LockEviction(s) ==
  /\ At(s, "lock") /\ evictor = 0
  /\ evictor' = s
  /\ Move(s, "recheck")
  /\ UNCHANGED <<logs, total, nextSequence, scan, forgotten>>

EndEviction(s) == evictor' = 0 /\ ship' = [ship EXCEPT ![s] = Idle]

\* The condition of the loop.
RecheckBudget(s) ==
  /\ At(s, "recheck")
  /\ IF total > MaxTotal THEN Move(s, "scan") /\ UNCHANGED evictor ELSE EndEviction(s)
  /\ scan' = NoScan
  /\ UNCHANGED <<logs, total, nextSequence, forgotten>>

\* oldest_node_location reads one shard after the other.
ScanShard(s) ==
  /\ At(s, "scan") /\ scan.shard <= Shards
  /\ LET n == scan.shard
         older == logs[n] # <<>> /\ (scan.node = 0 \/ Head(logs[n]) < scan.sequence)
     IN scan' = [shard |-> n + 1, node |-> IF older THEN n ELSE scan.node,
                 sequence |-> IF older THEN Head(logs[n]) ELSE scan.sequence]
  /\ UNCHANGED <<logs, total, nextSequence, evictor, ship, forgotten>>

EndScan(s) ==
  /\ At(s, "scan") /\ scan.shard > Shards
  /\ IF scan.node = 0 THEN EndEviction(s) ELSE Move(s, "pop") /\ UNCHANGED evictor
  /\ UNCHANGED <<logs, total, nextSequence, scan, forgotten>>

\* The node may have been forgotten since.
PopOldest(s) ==
  /\ At(s, "pop")
  /\ IF logs[scan.node] = <<>> THEN Move(s, "recheck") /\ UNCHANGED logs
     ELSE Move(s, "popped") /\ logs' = [logs EXCEPT ![scan.node] = Tail(@)]
  /\ UNCHANGED <<total, nextSequence, evictor, scan, forgotten>>

DiscountPopped(s) ==
  /\ At(s, "popped")
  /\ total' = total - 1
  /\ Move(s, "recheck")
  /\ UNCHANGED <<logs, nextSequence, evictor, scan, forgotten>>

\* forget_missing, one shard after the other; its counters follow.
ForgetNode(n) ==
  /\ forgotten = 0 /\ logs[n] # <<>>
  /\ logs' = [logs EXCEPT ![n] = <<>>]
  /\ forgotten' = Len(logs[n])
  /\ UNCHANGED <<total, nextSequence, evictor, ship, scan>>

DiscountForgotten ==
  /\ forgotten > 0
  /\ total' = total - forgotten
  /\ forgotten' = 0
  /\ UNCHANGED <<logs, nextSequence, evictor, ship, scan>>

LogNext ==
  \/ \E s \in Shippers :
       \/ BeginBatch(s) \/ CountEntry(s) \/ InsertEntry(s) \/ DiscountEntries(s)
       \/ EndPushes(s) \/ CheckBudget(s) \/ LockEviction(s) \/ RecheckBudget(s)
       \/ ScanShard(s) \/ EndScan(s) \/ PopOldest(s) \/ DiscountPopped(s)
  \/ \E n \in LogNodes : ForgetNode(n)
  \/ DiscountForgotten

--------------------------------------------------------------------------------
Entries == LET kept == [n \in LogNodes |-> Len(logs[n])]
           IN MapThenSumSet(LAMBDA n : kept[n], LogNodes)

\* The counter never falls below the number of entries kept, so the budget errs on
\* the safe side; and when no batch is being handled it is exact and within the
\* budget, whatever batches, evictions and forgotten nodes met (push_entry,
\* enforce_global_budget, forget_missing).
LogBudgetHolds ==
  /\ Entries <= total
  /\ forgotten = 0 /\ (\A s \in Shippers : At(s, "idle")) => Entries = total /\ total <= MaxTotal
================================================================================
