-------------------------------- MODULE AuditLog -------------------------------
(***************************************************************************)
(* The audit log (audit/log.rs, audit/writer.rs): events are pushed into a *)
(* bounded channel without waiting, a writer task commits them in batches, *)
(* and a query first sends a flush command through the same channel and    *)
(* waits for its answer, so that it reads what was recorded before it.     *)
(* Events are numbered in the order in which the channel takes them, and   *)
(* that is also the order of their time stamps; the types of events that   *)
(* the configuration leaves out never get here.                            *)
(*                                                                         *)
(* Definitions whose comment says "faulty" are variants that no action     *)
(* uses (README).                                                          *)
(***************************************************************************)
EXTENDS Naturals, Sequences, FiniteSets

CONSTANTS
  Askers,          \* HTTP clients, each with one query at a time
  AuditCapacity,   \* AUDIT_CHANNEL_CAPACITY
  AuditBatchMax,   \* AUDIT_BATCH_MAX
  MaxEvents        \* bound of the model: events recorded

ASSUME AuditAssumption ==
  /\ {AuditCapacity, AuditBatchMax} \subseteq Nat \ {0}
  /\ MaxEvents \in Nat
  /\ 0 \notin Askers

VARIABLES
  auditTx,        \* writer_tx is Some
  auditQueue,     \* commands: events and flushes
  auditBatch,
  auditWriting,   \* the events of the transaction under way
  acking,         \* the queries whose flush ends with that transaction
  auditWriter,    \* where the writer task is
  auditStored,    \* table audit_log
  horizon,        \* events up to this one have expired
  query,          \* where a query is
  recorded,       \* number of events that the channel has taken
  failed,         \* history: events of transactions that failed
  before, answer  \* history: events taken before the query began; what it read

auditVars == <<auditTx, auditQueue, auditBatch, auditWriting, acking, auditWriter,
               auditStored, horizon, query, recorded, failed, before, answer>>

Events == 1..MaxEvents
Event(i) == [flush |-> FALSE, id |-> i]
FlushOf(q) == [flush |-> TRUE, id |-> q]
Orphan == [flush |-> TRUE, id |-> 0]   \* the flush of a query that is gone
Commands == {Event(i) : i \in Events} \cup {FlushOf(q) : q \in Askers} \cup {Orphan}
Full == Len(auditQueue) = AuditCapacity

AuditTypeOK ==
  /\ auditTx \in BOOLEAN
  /\ auditQueue \in Seq(Commands) /\ Len(auditQueue) <= AuditCapacity
  /\ auditBatch \in SUBSET Events /\ Cardinality(auditBatch) < AuditBatchMax
  /\ {auditWriting, auditStored, failed} \subseteq SUBSET Events
  /\ acking \in SUBSET (Askers \cup {0})
  /\ auditWriter \in {"receive", "write", "last write", "exited"}
  /\ {horizon, recorded} \subseteq 0..MaxEvents
  /\ query \in [Askers -> {"idle", "send", "wait", "read"}]
  /\ before \in [Askers -> 0..MaxEvents] /\ answer \in [Askers -> SUBSET Events]

AuditInit ==
  /\ auditTx = TRUE /\ auditQueue = <<>> /\ auditWriter = "receive"
  /\ auditBatch = {} /\ auditWriting = {} /\ acking = {} /\ auditStored = {}
  /\ horizon = 0 /\ recorded = 0 /\ failed = {}
  /\ query = [q \in Askers |-> "idle"]
  /\ before = [q \in Askers |-> 0] /\ answer = [q \in Askers |-> {}]

\* AuditLog::record holds the read lock of writer_tx across try_send; a full channel
\* drops the event and counts it.
Record ==
  /\ recorded < MaxEvents
  /\ auditTx /\ ~Full
  /\ recorded' = recorded + 1
  /\ auditQueue' = Append(auditQueue, Event(recorded + 1))
  /\ UNCHANGED <<auditTx, auditBatch, auditWriting, acking, auditWriter, auditStored,
                 horizon, query, failed, before, answer>>

\* AuditLog::query and flush_pending; send waits for room in the channel.
BeginQuery(q) ==
  /\ query[q] = "idle"
  /\ auditTx
  /\ query' = [query EXCEPT ![q] = "send"]
  /\ before' = [before EXCEPT ![q] = recorded]
  /\ UNCHANGED <<auditTx, auditQueue, auditBatch, auditWriting, acking, auditWriter,
                 auditStored, horizon, recorded, failed, answer>>

SendFlush(q) ==
  /\ query[q] = "send" /\ ~Full
  /\ query' = [query EXCEPT ![q] = "wait"]
  /\ auditQueue' = Append(auditQueue, FlushOf(q))
  /\ UNCHANGED <<auditTx, auditBatch, auditWriting, acking, auditWriter, auditStored,
                 horizon, recorded, failed, before, answer>>

ReadEvents(q) ==
  /\ query[q] = "read"
  /\ query' = [query EXCEPT ![q] = "idle"]
  /\ answer' = [answer EXCEPT ![q] = auditStored]
  /\ UNCHANGED <<auditTx, auditQueue, auditBatch, auditWriting, acking, auditWriter,
                 auditStored, horizon, recorded, failed, before>>

\* ack.send wakes the query, if it is still there.
Acknowledged(Q) == [q \in Askers |-> IF q \in Q THEN "read" ELSE query[q]]

\* flush_audit_batch.
StartWrite(events, Q, next) ==
  /\ auditWriting' = events /\ acking' = Q
  /\ auditBatch' = {}
  /\ auditWriter' = next

ReceiveEvent ==
  /\ auditWriter = "receive" /\ auditQueue # <<>> /\ ~Head(auditQueue).flush
  /\ auditQueue' = Tail(auditQueue)
  /\ LET events == auditBatch \cup {Head(auditQueue).id}
     IN IF Cardinality(events) >= AuditBatchMax
        THEN StartWrite(events, {}, "write")
        ELSE auditBatch' = events /\ UNCHANGED <<auditWriting, acking, auditWriter>>
  /\ UNCHANGED <<auditTx, auditStored, horizon, query, recorded, failed, before, answer>>

\* Faulty: the flush is answered while its transaction is under way.
AckBeforeWrite ==
  /\ auditWriter = "receive" /\ auditQueue # <<>> /\ Head(auditQueue).flush
  /\ auditQueue' = Tail(auditQueue)
  /\ query' = Acknowledged({Head(auditQueue).id})
  /\ IF auditBatch # {} THEN StartWrite(auditBatch, {}, "write")
     ELSE UNCHANGED <<auditBatch, auditWriting, acking, auditWriter>>
  /\ UNCHANGED <<auditTx, auditStored, horizon, recorded, failed, before, answer>>

ReceiveFlush ==
  /\ auditWriter = "receive" /\ auditQueue # <<>> /\ Head(auditQueue).flush
  /\ auditQueue' = Tail(auditQueue)
  /\ IF auditBatch # {}
     THEN StartWrite(auditBatch, {Head(auditQueue).id}, "write") /\ UNCHANGED query
     ELSE /\ query' = Acknowledged({Head(auditQueue).id})
          /\ UNCHANGED <<auditBatch, auditWriting, acking, auditWriter>>
  /\ UNCHANGED <<auditTx, auditStored, horizon, recorded, failed, before, answer>>

AuditTimer ==
  /\ auditWriter = "receive" /\ auditQueue = <<>> /\ auditBatch # {}
  /\ StartWrite(auditBatch, {}, "write")
  /\ UNCHANGED <<auditTx, auditQueue, auditStored, horizon, query, recorded, failed,
                 before, answer>>

\* recv answers None: the sender is gone, and the channel is empty.
DrainAudit ==
  /\ auditWriter = "receive" /\ ~auditTx /\ auditQueue = <<>>
  /\ IF auditBatch # {} THEN StartWrite(auditBatch, {}, "last write")
     ELSE auditWriter' = "exited" /\ UNCHANGED <<auditBatch, auditWriting, acking>>
  /\ UNCHANGED <<auditTx, auditQueue, auditStored, horizon, query, recorded, failed,
                 before, answer>>

\* The transaction commits or fails, and its flush is answered in either case.
AuditWriteEnds(ok) ==
  /\ auditWriter \in {"write", "last write"}
  /\ auditWriter' = IF auditWriter = "write" THEN "receive" ELSE "exited"
  /\ auditWriting' = {} /\ acking' = {}
  /\ query' = Acknowledged(acking)
  /\ IF ok THEN auditStored' = auditStored \cup auditWriting /\ UNCHANGED failed
           ELSE failed' = failed \cup auditWriting /\ UNCHANGED auditStored
  /\ UNCHANGED <<auditTx, auditQueue, auditBatch, horizon, recorded, before, answer>>

AuditWriterStep ==
  \/ ReceiveEvent \/ ReceiveFlush \/ AuditTimer \/ DrainAudit
  \/ \E ok \in BOOLEAN : AuditWriteEnds(ok)

\* The client goes away while its query waits, or the query fails.
AbandonQuery(q) ==
  /\ query[q] # "idle"
  /\ query' = [query EXCEPT ![q] = "idle"]
  /\ before' = [before EXCEPT ![q] = 0] /\ answer' = [answer EXCEPT ![q] = {}]
  /\ auditQueue' = [i \in DOMAIN auditQueue |->
                     IF auditQueue[i] = FlushOf(q) THEN Orphan ELSE auditQueue[i]]
  /\ acking' = acking \ {q}
  /\ UNCHANGED <<auditTx, auditBatch, auditWriting, auditWriter, auditStored, horizon,
                 recorded, failed>>

\* spawn_pruner: what has expired by now is deleted.
PruneAudit ==
  /\ \E i \in {j \in auditStored : j > horizon} :
       /\ horizon' = i
       /\ auditStored' = {j \in auditStored : j > i}
  /\ UNCHANGED <<auditTx, auditQueue, auditBatch, auditWriting, acking, auditWriter, query,
                 recorded, failed, before, answer>>

\* AuditLog::shutdown, after the HTTP requests have ended.
DropAuditSender ==
  /\ auditTx /\ \A q \in Askers : query[q] = "idle"
  /\ auditTx' = FALSE
  /\ UNCHANGED <<auditQueue, auditBatch, auditWriting, acking, auditWriter, auditStored,
                 horizon, query, recorded, failed, before, answer>>

AuditNext ==
  \/ \E q \in Askers : BeginQuery(q) \/ SendFlush(q) \/ ReadEvents(q) \/ AbandonQuery(q)
  \/ Record \/ AuditWriterStep \/ PruneAudit \/ DropAuditSender

AuditSpec == AuditInit /\ [][AuditNext]_auditVars

--------------------------------------------------------------------------------
\* A query shows every event that was taken before it began, unless its
\* transaction failed or it has expired: the flush command passes the same channel
\* as the events (AuditLog::query, flush_pending).
QuerySeesRecorded ==
  \A q \in Askers : query[q] = "idle" =>
    \A i \in 1..before[q] : i \in answer[q] \cup failed \/ i <= horizon

\* When the writer has exited, every event that the channel took is committed,
\* unless its transaction failed or it has expired (AuditLog::shutdown).
AuditDrainLosesNothing ==
  auditWriter = "exited" => \A i \in 1..recorded : i \in auditStored \cup failed \/ i <= horizon
================================================================================
