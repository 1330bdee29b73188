------------------------------ MODULE HistoryStore -----------------------------
(***************************************************************************)
(* The history of one node (history.rs, history/writer.rs,                 *)
(* history/query.rs): sessions offer samples under a throttle, a bounded   *)
(* channel carries them to the writer task, which commits them in batches  *)
(* and deletes expired ones in the same transaction.  At shutdown the      *)
(* sender is dropped and the writer awaited.  Nodes share the channel and  *)
(* nothing else; MaxTime bounds the clock, MaxForgets the times the node   *)
(* is missing from a reloaded registry.                                    *)
(*                                                                         *)
(* Definitions whose comment says "faulty" are variants that no action     *)
(* uses (README).                                                          *)
(***************************************************************************)
EXTENDS Naturals, Sequences, FiniteSets, FiniteSetsExt

CONSTANTS
  Recorders,        \* sessions of the node: the current one, superseded ones
  WriteInterval,    \* DEFAULT_HISTORY_WRITE_INTERVAL_SECS
  HistoryCapacity,  \* HISTORY_CHANNEL_CAPACITY
  HistoryBatchMax,  \* HISTORY_BATCH_MAX
  Retention,        \* DEFAULT_HISTORY_RETENTION_HOURS
  PruneInterval,    \* HISTORY_PRUNE_MIN_INTERVAL
  MaxTime, MaxForgets

ASSUME HistoryAssumption ==
  /\ {WriteInterval, HistoryCapacity, HistoryBatchMax, Retention, PruneInterval, MaxTime}
       \subseteq Nat \ {0}
  /\ MaxForgets \in Nat

VARIABLES
  now,            \* the wall clock
  historyTx,      \* writer_tx is Some
  lastWritten,    \* last_written_at of the node, 0 if there is none
  recording,      \* the time of the sample that a record call holds, or 0: the
                  \* call has passed the first check and cloned the sender
  historyQueue, historyBatch,
  writing,        \* the transaction under way
  historyWriter,  \* where the writer task is
  lastPruned,     \* last_pruned_at
  stored,         \* table history_points
  forgets,        \* bound: times the node was forgotten
  accepted, lost  \* history: samples taken by the channel; samples of transactions
                  \* that failed

historyVars == <<now, historyTx, lastWritten, recording, historyQueue, historyBatch,
                 writing, historyWriter, lastPruned, stored, forgets, accepted, lost>>

\* `since` counts the times the node had been forgotten, `by` tells sessions apart.
Samples == [at : 1..MaxTime, by : Recorders, since : 0..MaxForgets]
NoWrite == [points |-> {}, cutoff |-> 0]

HistoryTypeOK ==
  /\ now \in 1..MaxTime /\ lastWritten \in 0..MaxTime /\ lastPruned \in 0..MaxTime
  /\ historyTx \in BOOLEAN /\ forgets \in 0..MaxForgets
  /\ recording \in [Recorders -> 0..MaxTime]
  /\ historyQueue \in Seq(Samples) /\ Len(historyQueue) <= HistoryCapacity
  /\ historyBatch \in SUBSET Samples /\ Cardinality(historyBatch) < HistoryBatchMax
  /\ writing \in [points : SUBSET Samples, cutoff : Nat]
  /\ historyWriter \in {"receive", "write", "last write", "exited"}
  /\ {stored, accepted, lost} \subseteq SUBSET Samples

HistoryInit ==
  /\ now = 1 /\ historyTx = TRUE /\ lastWritten = 0 /\ lastPruned = 0
  /\ recording = [r \in Recorders |-> 0]
  /\ historyQueue = <<>> /\ historyBatch = {} /\ writing = NoWrite
  /\ historyWriter = "receive"
  /\ stored = {} /\ accepted = {} /\ lost = {} /\ forgets = 0

Throttled(at) == lastWritten > 0 /\ at < lastWritten + WriteInterval

\* record_status_with_builder up to the clone of the sender.
BeginRecord(r) ==
  /\ recording[r] = 0
  /\ historyTx /\ ~Throttled(now)
  /\ recording' = [recording EXCEPT ![r] = now]
  /\ UNCHANGED <<now, historyTx, lastWritten, historyQueue, historyBatch, writing,
                 historyWriter, lastPruned, stored, forgets, accepted, lost>>

\* Faulty: the throttle is not checked again under its lock.
OfferUnchecked(r) ==
  /\ recording[r] > 0
  /\ recording' = [recording EXCEPT ![r] = 0]
  /\ LET sample == [at |-> recording[r], by |-> r, since |-> forgets]
     IN IF Len(historyQueue) = HistoryCapacity
        THEN UNCHANGED <<lastWritten, historyQueue, accepted>>
        ELSE /\ lastWritten' = recording[r]
             /\ historyQueue' = Append(historyQueue, sample)
             /\ accepted' = accepted \cup {sample}
  /\ UNCHANGED <<now, historyTx, historyBatch, writing, historyWriter, lastPruned,
                 stored, forgets, lost>>

\* The second check and try_send under the lock of the throttle.  A full channel
\* drops the sample and leaves the throttle alone.
Offer(r) ==
  /\ recording[r] > 0
  /\ recording' = [recording EXCEPT ![r] = 0]
  /\ LET sample == [at |-> recording[r], by |-> r, since |-> forgets]
     IN IF Throttled(recording[r]) \/ Len(historyQueue) = HistoryCapacity
        THEN UNCHANGED <<lastWritten, historyQueue, accepted>>
        ELSE /\ lastWritten' = recording[r]
             /\ historyQueue' = Append(historyQueue, sample)
             /\ accepted' = accepted \cup {sample}
  /\ UNCHANGED <<now, historyTx, historyBatch, writing, historyWriter, lastPruned,
                 stored, forgets, lost>>

\* flush_history_batch: the batch is taken and should_prune_now decides on the
\* deletion, which counts as done whether the transaction succeeds or not.
Flush(points, next) ==
  LET due == lastPruned = 0 \/ now - lastPruned >= PruneInterval
  IN /\ historyBatch' = {}
     /\ writing' = [points |-> points,
                    cutoff |-> IF due /\ now > Retention THEN now - Retention ELSE 0]
     /\ lastPruned' = IF due THEN now ELSE lastPruned
     /\ historyWriter' = next

\* Faulty: off by one.
ReceiveOneMore ==
  /\ historyWriter = "receive" /\ historyQueue # <<>>
  /\ historyQueue' = Tail(historyQueue)
  /\ LET points == historyBatch \cup {Head(historyQueue)}
     IN IF Cardinality(points) > HistoryBatchMax
        THEN Flush(points, "write")
        ELSE historyBatch' = points /\ UNCHANGED <<writing, lastPruned, historyWriter>>
  /\ UNCHANGED <<now, historyTx, lastWritten, recording, stored, forgets, accepted, lost>>

Receive ==
  /\ historyWriter = "receive" /\ historyQueue # <<>>
  /\ historyQueue' = Tail(historyQueue)
  /\ LET points == historyBatch \cup {Head(historyQueue)}
     IN IF Cardinality(points) >= HistoryBatchMax
        THEN Flush(points, "write")
        ELSE historyBatch' = points /\ UNCHANGED <<writing, lastPruned, historyWriter>>
  /\ UNCHANGED <<now, historyTx, lastWritten, recording, stored, forgets, accepted, lost>>

\* Faulty: only a full batch is flushed.
FlushFullBatch ==
  /\ historyWriter = "receive" /\ historyQueue = <<>>
  /\ Cardinality(historyBatch) = HistoryBatchMax
  /\ Flush(historyBatch, "write")
  /\ UNCHANGED <<now, historyTx, lastWritten, recording, historyQueue, stored,
                 forgets, accepted, lost>>

\* The select is biased: the timer counts only while the channel is empty.
FlushTimer ==
  /\ historyWriter = "receive" /\ historyQueue = <<>> /\ historyBatch # {}
  /\ Flush(historyBatch, "write")
  /\ UNCHANGED <<now, historyTx, lastWritten, recording, historyQueue, stored,
                 forgets, accepted, lost>>

\* recv answers None: every sender is gone and the channel is empty.
Closed == ~historyTx /\ historyQueue = <<>> /\ \A r \in Recorders : recording[r] = 0

\* Faulty: what is in the batch is forgotten.
DrainNothing ==
  /\ historyWriter = "receive" /\ Closed
  /\ historyBatch' = {} /\ historyWriter' = "exited"
  /\ UNCHANGED <<now, historyTx, lastWritten, recording, historyQueue, writing,
                 lastPruned, stored, forgets, accepted, lost>>

Drain ==
  /\ historyWriter = "receive" /\ Closed
  /\ IF historyBatch # {} THEN Flush(historyBatch, "last write")
     ELSE historyWriter' = "exited" /\ UNCHANGED <<historyBatch, writing, lastPruned>>
  /\ UNCHANGED <<now, historyTx, lastWritten, recording, historyQueue, stored,
                 forgets, accepted, lost>>

\* write_history_batch commits, or fails after its retries; a failure is logged.
WriteEnds(ok) ==
  /\ historyWriter \in {"write", "last write"}
  /\ historyWriter' = IF historyWriter = "write" THEN "receive" ELSE "exited"
  /\ writing' = NoWrite
  /\ IF ok THEN /\ stored' = {p \in stored \cup writing.points : p.at >= writing.cutoff}
                /\ UNCHANGED lost
           ELSE lost' = lost \cup writing.points /\ UNCHANGED stored
  /\ UNCHANGED <<now, historyTx, lastWritten, recording, historyQueue, historyBatch,
                 lastPruned, forgets, accepted>>

WriterStep == Receive \/ FlushTimer \/ Drain \/ \E ok \in BOOLEAN : WriteEnds(ok)

\* HistoryStore::shutdown drops the sender and then waits for "exited".
DropSender ==
  /\ historyTx
  /\ historyTx' = FALSE
  /\ UNCHANGED <<now, lastWritten, recording, historyQueue, historyBatch, writing,
                 historyWriter, lastPruned, stored, forgets, accepted, lost>>

\* forget_missing: a reloaded registry lacks the node; it may return later.
ForgetMissing ==
  /\ forgets < MaxForgets /\ lastWritten > 0
  /\ forgets' = forgets + 1
  /\ lastWritten' = 0
  /\ UNCHANGED <<now, historyTx, recording, historyQueue, historyBatch, writing,
                 historyWriter, lastPruned, stored, accepted, lost>>

Clock ==
  /\ now < MaxTime
  /\ now' = now + 1
  /\ UNCHANGED <<historyTx, lastWritten, recording, historyQueue, historyBatch, writing,
                 historyWriter, lastPruned, stored, forgets, accepted, lost>>

HistoryNext ==
  \/ \E r \in Recorders : BeginRecord(r) \/ Offer(r)
  \/ WriterStep \/ DropSender \/ ForgetMissing \/ Clock

--------------------------------------------------------------------------------
\* Faulty: the span is divided rounding down.
BucketSecondsDown(since, until, max) == Max({1, (until - since) \div max})

\* query_history_between.
BucketSeconds(since, until, max) ==
  Max({1, (Max({1, until - since}) + max - 1) \div max})

\* The GROUP BY of HISTORY_QUERY_SQL: the groups of samples of the interval, oldest
\* first, and the LIMIT on their number.
Bucket(p, since, until, max) == (p.at - since) \div BucketSeconds(since, until, max)
InRange(since, until) == {p \in stored : p.at \in since..until}
Represented(since, until, max) ==
  LET B(p) == Bucket(p, since, until, max)
      older(p) == {B(q) : q \in {q \in InRange(since, until) : B(q) < B(p)}}
  IN {p \in InRange(since, until) : Cardinality(older(p)) < max}

--------------------------------------------------------------------------------
\* Two samples of a node are at least WriteInterval apart, also when a superseded
\* session and its successor record at once; only a registry without the node lets
\* the throttle forget (record_status_with_builder, is_throttled).
SamplesAreSpaced ==
  \A p, q \in accepted :
    p # q /\ p.since = q.since => p.at + WriteInterval <= q.at \/ q.at + WriteInterval <= p.at

\* When the writer has exited, which shutdown waits for, every sample the channel
\* took has been committed, unless its transaction failed or it has expired
\* (HistoryStore::shutdown: queued samples are not lost with the process).
HistoryDrainLosesNothing ==
  historyWriter = "exited" =>
    /\ historyQueue = <<>> /\ \A r \in Recorders : recording[r] = 0
    /\ \A p \in accepted : p \in stored \cup lost \/ p.at + Retention < now

\* Every sample the channel takes is written, also when no other sample follows
\* it (HISTORY_BATCH_FLUSH_INTERVAL), unless its transaction fails: none of a
\* time up to t stays pending.
Pending(t) == {p \in accepted \ (stored \cup lost) : p.at <= t /\ p.at + Retention >= now}
SamplesReachTheStore == \A t \in 1..MaxTime : Pending(t) # {} ~> Pending(t) = {}

\* The LIMIT of a query leaves out no sample older than the last second of the
\* interval: the buckets are wide enough (query_history_between).
QueryShowsEverything ==
  \A since \in 1..now, until \in 1..now, max \in 1..2 : since < until =>
    \A p \in InRange(since, until) : p.at < until => p \in Represented(since, until, max)
================================================================================
