---------------------------- MODULE Storage_proofs ----------------------------
(***************************************************************************)
(* Proofs about the stores for every value of the constants: the throttle, *)
(* the drain and the queries of the history, the snapshot file, the budget *)
(* of the agent logs, and the types of all four.                           *)
(***************************************************************************)
EXTENDS MCStorage, Counting_proofs, SequenceTheorems

(***************************************************************************)
(* The audit log: a query sees what was recorded before it, and the writer *)
(* task leaves nothing behind.                                             *)
(***************************************************************************)

Types ==
  /\ auditQueue \in Seq(Commands)
  /\ auditBatch \subseteq Events /\ auditWriting \subseteq Events
  /\ auditStored \subseteq Events /\ failed \subseteq Events
  /\ horizon \in Nat /\ recorded \in 0..MaxEvents
  /\ query \in [Askers -> {"idle", "send", "wait", "read"}]
  /\ before \in [Askers -> Nat]
  /\ answer \in [Askers -> SUBSET Events]

\* The events that need nothing more, and with them those that the writer task holds.
Past == auditStored \cup failed \cup {i \in Events : i <= horizon}
Ahead == Past \cup auditBatch \cup auditWriting

\* Event i is in S or in one of the first n places of s.
Within(S, s, i, n) == i \in S \/ \E j \in 1..n : s[j] = Event(i)

\* No event that the channel took has gone astray.
NothingAstray ==
  \A i \in 1..recorded : Within(Ahead, auditQueue, i, Len(auditQueue))

\* What the writer task holds where.
WriterHolds ==
  /\ auditWriter \in {"receive", "exited"} => auditWriting = {} /\ acking = {}
  /\ auditWriter # "receive" => auditBatch = {}
  /\ auditWriter \in {"last write", "exited"} => ~auditTx /\ auditQueue = <<>>
  /\ ~auditTx => \A q \in Askers : query[q] = "idle"

\* The flush command of a query is in one place, behind the events recorded before it.
FlushIsBehind ==
  \A q \in Askers, p \in 1..Len(auditQueue) : auditQueue[p] = FlushOf(q) =>
    /\ query[q] = "wait" /\ q \notin acking
    /\ \A i \in 1..before[q] : Within(Ahead, auditQueue, i, p - 1)
    /\ \A r \in 1..Len(auditQueue) : auditQueue[r] = FlushOf(q) => r = p

\* The transaction that answers a query holds all that it waits for.
AckIsBehind ==
  \A q \in Askers \cap acking :
    query[q] = "wait" /\ 1..before[q] \subseteq Past \cup auditWriting

QueryIsAhead ==
  \A q \in Askers :
    /\ before[q] <= recorded
    /\ query[q] = "read" => 1..before[q] \subseteq Past
    /\ query[q] = "idle" => \A i \in 1..before[q] : i \in answer[q] \cup failed \/ i <= horizon

\* The inductive invariant.  That a query reads what it should needs its events to be
\* ahead of its flush on the whole way through channel, batch and transaction.
AuditInv ==
  /\ Types /\ NothingAstray /\ WriterHolds /\ FlushIsBehind /\ AckIsBehind /\ QueryIsAhead

LEMMA InitAudit == AuditInit => AuditInv
BY AuditAssumption
  DEF AuditInit, AuditInv, Types, NothingAstray, WriterHolds, FlushIsBehind, AckIsBehind,
      QueryIsAhead

(***************************************************************************)
(* Commands and places.                                                    *)
(***************************************************************************)

LEMMA CommandsDiffer ==
  /\ \A i, q : Event(i) # FlushOf(q) /\ Event(i) # Orphan
  /\ \A i, j : Event(i) = Event(j) => i = j
  /\ \A q, r : FlushOf(q) = FlushOf(r) => q = r
  /\ \A q \in Askers : FlushOf(q) # Orphan
<1>1. \A i, q : Event(i).flush = FALSE /\ Event(i).id = i /\ FlushOf(q).flush = TRUE
                 /\ FlushOf(q).id = q /\ Orphan.flush = TRUE /\ Orphan.id = 0
  BY DEF Event, FlushOf, Orphan
<1> QED BY <1>1, AuditAssumption

LEMMA WithinGrows ==
  ASSUME NEW S, NEW T, NEW s, NEW t, NEW i, NEW n \in Nat, NEW m \in Nat,
         S \subseteq T, n <= m, \A j \in 1..n : t[j] = s[j], Within(S, s, i, n)
  PROVE  Within(T, t, i, m)
BY DEF Within

LEMMA WithinTail ==
  ASSUME NEW S, NEW T, NEW s, NEW t, NEW i, NEW n \in Nat, n > 0,
         S \subseteq T, \A j \in 1..(n - 1) : t[j] = s[j + 1], s[1] = Event(i) => i \in T,
         Within(S, s, i, n)
  PROVE  Within(T, t, i, n - 1)
<1>1. CASE i \in S
  BY <1>1 DEF Within
<1>2. CASE \E j \in 1..n : s[j] = Event(i)
  <2>1. PICK j \in 1..n : s[j] = Event(i)
    BY <1>2
  <2>2. CASE j = 1
    BY <2>1, <2>2 DEF Within
  <2>3. CASE j # 1
    <3>1. j - 1 \in 1..(n - 1) /\ t[j - 1] = s[(j - 1) + 1] /\ (j - 1) + 1 = j
      BY <2>3
    <3> QED BY <2>1, <3>1 DEF Within
  <2> QED BY <2>2, <2>3
<1> QED BY <1>1, <1>2 DEF Within

\* A step that leaves the channel alone, and lets no query go that has a flush in it.
LEMMA ChannelKept ==
  ASSUME AuditInv, UNCHANGED <<auditQueue, recorded>>, Ahead \subseteq Ahead',
         \A q \in Askers : query[q] = "wait" /\ q \notin acking =>
           query'[q] = "wait" /\ q \notin acking' /\ before'[q] = before[q]
  PROVE  NothingAstray' /\ FlushIsBehind'
<1>1. Len(auditQueue) \in Nat
  BY DEF AuditInv, Types
<1>2. NothingAstray'
  <2> SUFFICES ASSUME NEW i \in 1..recorded
               PROVE  Within(Ahead', auditQueue, i, Len(auditQueue))
    BY DEF NothingAstray
  <2> QED BY <1>1, WithinGrows DEF AuditInv, NothingAstray
<1>3. FlushIsBehind'
  <2> SUFFICES ASSUME NEW q \in Askers, NEW p \in 1..Len(auditQueue),
                      auditQueue[p] = FlushOf(q)
               PROVE  /\ query'[q] = "wait" /\ q \notin acking'
                      /\ \A i \in 1..before'[q] : Within(Ahead', auditQueue, i, p - 1)
                      /\ \A r \in 1..Len(auditQueue) : auditQueue[r] = FlushOf(q) => r = p
    BY DEF FlushIsBehind
  <2>1. /\ query'[q] = "wait" /\ q \notin acking' /\ before'[q] = before[q]
        /\ \A i \in 1..before[q] : Within(Ahead, auditQueue, i, p - 1)
        /\ \A r \in 1..Len(auditQueue) : auditQueue[r] = FlushOf(q) => r = p
    BY DEF AuditInv, FlushIsBehind
  <2>2. p - 1 \in Nat
    BY <1>1
  <2>3. \A i \in 1..before[q] : Within(Ahead', auditQueue, i, p - 1)
    BY <2>1, <2>2, WithinGrows
  <2> QED BY <2>1, <2>3
<1> QED BY <1>2, <1>3

\* A step that puts one command behind the others.
LEMMA CommandAppended ==
  ASSUME AuditInv, NEW c \in Commands, auditQueue' = Append(auditQueue, c),
         UNCHANGED <<auditBatch, auditWriting, auditStored, horizon, failed>>
  PROVE  /\ auditQueue' \in Seq(Commands)
         /\ Ahead' = Ahead /\ Past' = Past
         /\ Len(auditQueue) \in Nat /\ Len(auditQueue') = Len(auditQueue) + 1
         /\ \A j \in 1..Len(auditQueue) : auditQueue'[j] = auditQueue[j]
         /\ auditQueue'[Len(auditQueue) + 1] = c
<1>1. auditQueue \in Seq(Commands)
  BY DEF AuditInv, Types
<1>2. Ahead' = Ahead /\ Past' = Past
  BY DEF Ahead, Past
<1> QED BY <1>1, <1>2

(***************************************************************************)
(* The steps of queries and recorders.                                     *)
(***************************************************************************)

LEMMA RecordKeeps == AuditInv /\ Record => AuditInv'
<1> SUFFICES ASSUME AuditInv, Record PROVE AuditInv'
  OBVIOUS
<1>1. /\ recorded' = recorded + 1 /\ recorded' \in 1..MaxEvents /\ auditTx
      /\ auditQueue' = Append(auditQueue, Event(recorded'))
      /\ UNCHANGED <<auditTx, auditBatch, auditWriting, acking, auditWriter, auditStored,
                     horizon, query, failed, before, answer>>
  BY AuditAssumption DEF AuditInv, Types, Record
<1> DEFINE n == Len(auditQueue)
<1>2. /\ auditQueue' \in Seq(Commands) /\ Ahead' = Ahead /\ Past' = Past
      /\ n \in Nat /\ Len(auditQueue') = n + 1
      /\ \A j \in 1..n : auditQueue'[j] = auditQueue[j]
      /\ auditQueue'[n + 1] = Event(recorded')
  <2>1. Event(recorded') \in Commands
    BY <1>1 DEF Commands, Events
  <2> QED BY <1>1, <2>1, CommandAppended
<1>3. Types'
  BY <1>1, <1>2, AuditAssumption DEF AuditInv, Types
<1>4. NothingAstray'
  <2> SUFFICES ASSUME NEW i \in 1..recorded'
               PROVE  Within(Ahead, auditQueue', i, n + 1)
    BY <1>2 DEF NothingAstray
  <2>1. CASE i = recorded'
    BY <1>2, <2>1 DEF Within
  <2>2. CASE i # recorded'
    <3>1. i \in 1..recorded
      BY <1>1, <2>2 DEF AuditInv, Types
    <3>2. Within(Ahead, auditQueue, i, n)
      BY <3>1 DEF AuditInv, NothingAstray
    <3>3. n + 1 \in Nat /\ n <= n + 1
      BY <1>2
    <3> HIDE DEF n
    <3> QED BY <1>2, <3>2, <3>3, WithinGrows
  <2> QED BY <2>1, <2>2
<1>5. WriterHolds' /\ AckIsBehind' /\ QueryIsAhead'
  <2>1. WriterHolds'
    BY <1>1, <1>2 DEF AuditInv, WriterHolds
  <2>2. AckIsBehind'
    BY <1>1, <1>2 DEF AuditInv, AckIsBehind
  <2>3. QueryIsAhead'
    BY <1>1, <1>2 DEF AuditInv, Types, QueryIsAhead
  <2> QED BY <2>1, <2>2, <2>3
<1>6. FlushIsBehind'
  <2> SUFFICES ASSUME NEW q \in Askers, NEW p \in 1..(n + 1), auditQueue'[p] = FlushOf(q)
               PROVE  /\ query[q] = "wait" /\ q \notin acking
                      /\ \A i \in 1..before[q] : Within(Ahead, auditQueue', i, p - 1)
                      /\ \A r \in 1..(n + 1) : auditQueue'[r] = FlushOf(q) => r = p
    BY <1>1, <1>2 DEF FlushIsBehind
  <2>1. p \in 1..n /\ auditQueue[p] = FlushOf(q) /\ p - 1 \in Nat
    BY <1>2, CommandsDiffer
  <2>2. /\ query[q] = "wait" /\ q \notin acking
        /\ \A i \in 1..before[q] : Within(Ahead, auditQueue, i, p - 1)
        /\ \A r \in 1..n : auditQueue[r] = FlushOf(q) => r = p
    BY <2>1 DEF AuditInv, FlushIsBehind
  <2>3. \A i \in 1..before[q] : Within(Ahead, auditQueue', i, p - 1)
    <3>1. \A j \in 1..(p - 1) : auditQueue'[j] = auditQueue[j]
      BY <1>2, <2>1
    <3> QED BY <2>1, <2>2, <3>1, WithinGrows
  <2>4. \A r \in 1..(n + 1) : auditQueue'[r] = FlushOf(q) => r = p
    BY <1>2, <2>2, CommandsDiffer
  <2> QED BY <2>2, <2>3, <2>4
<1> QED BY <1>3, <1>4, <1>5, <1>6 DEF AuditInv

LEMMA BeginQueryKeeps ==
  ASSUME AuditInv, NEW q \in Askers, BeginQuery(q)
  PROVE  AuditInv'
<1>1. /\ query[q] = "idle" /\ query' = [query EXCEPT ![q] = "send"] /\ auditTx
      /\ before' = [before EXCEPT ![q] = recorded]
      /\ UNCHANGED <<auditTx, auditQueue, auditBatch, auditWriting, acking, auditWriter,
                     auditStored, horizon, recorded, failed, answer>>
  BY DEF BeginQuery
<1>2. Ahead' = Ahead /\ Past' = Past
  BY <1>1 DEF Ahead, Past
<1>3. Types'
  BY <1>1, AuditAssumption DEF AuditInv, Types
<1>4. NothingAstray' /\ FlushIsBehind'
  BY <1>1, <1>2, ChannelKept DEF AuditInv, Types
<1>5. WriterHolds'
  BY <1>1 DEF AuditInv, WriterHolds
<1>6. AckIsBehind'
  BY <1>1, <1>2 DEF AuditInv, Types, AckIsBehind
<1>7. QueryIsAhead'
  BY <1>1, <1>2 DEF AuditInv, Types, QueryIsAhead
<1> QED BY <1>3, <1>4, <1>5, <1>6, <1>7 DEF AuditInv

\* The flush command goes behind all that is in the channel.
LEMMA SendFlushKeeps ==
  ASSUME AuditInv, NEW q \in Askers, SendFlush(q)
  PROVE  AuditInv'
<1>1. /\ query[q] = "send" /\ query' = [query EXCEPT ![q] = "wait"]
      /\ auditQueue' = Append(auditQueue, FlushOf(q))
      /\ UNCHANGED <<auditTx, auditBatch, auditWriting, acking, auditWriter, auditStored,
                     horizon, recorded, failed, before, answer>>
  BY DEF SendFlush
<1> DEFINE n == Len(auditQueue)
<1>2. /\ auditQueue' \in Seq(Commands) /\ Ahead' = Ahead /\ Past' = Past
      /\ n \in Nat /\ Len(auditQueue') = n + 1
      /\ \A j \in 1..n : auditQueue'[j] = auditQueue[j]
      /\ auditQueue'[n + 1] = FlushOf(q)
  <2>1. FlushOf(q) \in Commands
    BY DEF Commands
  <2> QED BY <1>1, <2>1, CommandAppended
<1> HIDE DEF n
<1>3. Types'
  BY <1>1, <1>2 DEF AuditInv, Types
<1>4. \A i \in 1..recorded : Within(Ahead, auditQueue', i, n)
  BY <1>2, WithinGrows DEF AuditInv, NothingAstray, n
<1>5. NothingAstray'
  <2> SUFFICES ASSUME NEW i \in 1..recorded
               PROVE  Within(Ahead, auditQueue', i, n + 1)
    BY <1>1, <1>2 DEF NothingAstray
  <2>1. n + 1 \in Nat /\ n <= n + 1
    BY <1>2
  <2> QED BY <1>2, <1>4, <2>1, WithinGrows
<1>6. WriterHolds' /\ QueryIsAhead'
  <2>1. WriterHolds'
    BY <1>1 DEF AuditInv, Types, WriterHolds
  <2>2. QueryIsAhead'
    BY <1>1, <1>2 DEF AuditInv, Types, QueryIsAhead
  <2> QED BY <2>1, <2>2
<1>7. AckIsBehind'
  BY <1>1, <1>2 DEF AuditInv, Types, AckIsBehind
<1>8. FlushIsBehind'
  <2>1. q \notin acking /\ before[q] <= recorded /\ before[q] \in Nat /\ recorded \in Nat
    BY <1>1, AuditAssumption DEF AuditInv, Types, AckIsBehind, QueryIsAhead
  <2>2. \A p \in 1..n : auditQueue[p] # FlushOf(q)
    BY <1>1 DEF AuditInv, FlushIsBehind, n
  <2> SUFFICES ASSUME NEW r \in Askers, NEW p \in 1..(n + 1), auditQueue'[p] = FlushOf(r)
               PROVE  /\ query'[r] = "wait" /\ r \notin acking
                      /\ \A i \in 1..before[r] : Within(Ahead, auditQueue', i, p - 1)
                      /\ \A o \in 1..(n + 1) : auditQueue'[o] = FlushOf(r) => o = p
    BY <1>1, <1>2 DEF FlushIsBehind
  <2>3. CASE r = q
    <3>1. p = n + 1 /\ p - 1 = n
      BY <1>2, <2>2, <2>3
    <3>2. \A i \in 1..before[q] : i \in 1..recorded
      BY <2>1
    <3>3. query'[q] = "wait"
      BY <1>1 DEF AuditInv, Types
    <3>4. \A o \in 1..(n + 1) : auditQueue'[o] = FlushOf(q) => o = p
      BY <1>2, <2>2, <3>1
    <3> QED BY <1>4, <2>1, <2>3, <3>1, <3>2, <3>3, <3>4
  <2>4. CASE r # q
    <3>1. p \in 1..n /\ auditQueue[p] = FlushOf(r) /\ p - 1 \in Nat
      BY <1>2, <2>4, CommandsDiffer
    <3>2. /\ query[r] = "wait" /\ r \notin acking
          /\ \A i \in 1..before[r] : Within(Ahead, auditQueue, i, p - 1)
          /\ \A o \in 1..n : auditQueue[o] = FlushOf(r) => o = p
      BY <3>1 DEF AuditInv, FlushIsBehind, n
    <3>3. \A j \in 1..(p - 1) : auditQueue'[j] = auditQueue[j]
      BY <1>2, <3>1
    <3>4. \A i \in 1..before[r] : Within(Ahead, auditQueue', i, p - 1)
      BY <3>1, <3>2, <3>3, WithinGrows
    <3>5. \A o \in 1..(n + 1) : auditQueue'[o] = FlushOf(r) => o = p
      BY <1>2, <2>4, <3>2, CommandsDiffer
    <3>6. query'[r] = "wait"
      BY <1>1, <2>4, <3>2 DEF AuditInv, Types
    <3> QED BY <3>2, <3>4, <3>5, <3>6
  <2> QED BY <2>3, <2>4
<1> QED BY <1>3, <1>5, <1>6, <1>7, <1>8 DEF AuditInv

LEMMA ReadEventsKeeps ==
  ASSUME AuditInv, NEW q \in Askers, ReadEvents(q)
  PROVE  AuditInv'
<1>1. /\ query[q] = "read" /\ query' = [query EXCEPT ![q] = "idle"]
      /\ answer' = [answer EXCEPT ![q] = auditStored]
      /\ UNCHANGED <<auditTx, auditQueue, auditBatch, auditWriting, acking, auditWriter,
                     auditStored, horizon, recorded, failed, before>>
  BY DEF ReadEvents
<1>2. Ahead' = Ahead /\ Past' = Past
  BY <1>1 DEF Ahead, Past
<1>3. Types'
  BY <1>1 DEF AuditInv, Types
<1>4. NothingAstray' /\ FlushIsBehind'
  BY <1>1, <1>2, ChannelKept DEF AuditInv, Types
<1>5. WriterHolds'
  BY <1>1 DEF AuditInv, Types, WriterHolds
<1>6. AckIsBehind'
  BY <1>1, <1>2 DEF AuditInv, Types, AckIsBehind
<1>7. QueryIsAhead'
  <2>1. \A i \in 1..before[q] : i \in auditStored \cup failed \/ i <= horizon
    BY <1>1 DEF AuditInv, QueryIsAhead, Past
  <2> QED BY <1>1, <1>2, <2>1 DEF AuditInv, Types, QueryIsAhead
<1> QED BY <1>3, <1>4, <1>5, <1>6, <1>7 DEF AuditInv

(***************************************************************************)
(* The steps of the writer task.                                           *)
(***************************************************************************)

\* A step that takes the first command out of the channel.
LEMMA ChannelTail ==
  ASSUME AuditInv, auditQueue # <<>>, auditQueue' = Tail(auditQueue),
         UNCHANGED <<recorded, before>>, Ahead \subseteq Ahead',
         \A i : Head(auditQueue) = Event(i) => i \in Ahead',
         \A q \in Askers :
           query[q] = "wait" /\ q \notin acking /\ Head(auditQueue) # FlushOf(q) =>
             query'[q] = "wait" /\ q \notin acking'
  PROVE  auditQueue' \in Seq(Commands) /\ NothingAstray' /\ FlushIsBehind'
<1> DEFINE n == Len(auditQueue)
<1>1. /\ n \in Nat /\ n > 0 /\ auditQueue' \in Seq(Commands) /\ Len(auditQueue') = n - 1
      /\ \A j \in 1..(n - 1) : auditQueue'[j] = auditQueue[j + 1]
      /\ Head(auditQueue) = auditQueue[1]
  BY DEF AuditInv, Types
<1> HIDE DEF n
<1>2. NothingAstray'
  <2> SUFFICES ASSUME NEW i \in 1..recorded
               PROVE  Within(Ahead', auditQueue', i, n - 1)
    BY <1>1 DEF NothingAstray
  <2>1. Within(Ahead, auditQueue, i, n)
    BY DEF AuditInv, NothingAstray, n
  <2>2. auditQueue[1] = Event(i) => i \in Ahead'
    BY <1>1
  <2> QED BY <1>1, <2>1, <2>2, WithinTail
<1>3. FlushIsBehind'
  <2> SUFFICES ASSUME NEW q \in Askers, NEW p \in 1..(n - 1), auditQueue'[p] = FlushOf(q)
               PROVE  /\ query'[q] = "wait" /\ q \notin acking'
                      /\ \A i \in 1..before[q] : Within(Ahead', auditQueue', i, p - 1)
                      /\ \A r \in 1..(n - 1) : auditQueue'[r] = FlushOf(q) => r = p
    BY <1>1 DEF FlushIsBehind
  <2>1. /\ p \in Nat /\ p > 0 /\ p + 1 \in 1..n /\ (p + 1) - 1 = p
        /\ auditQueue[p + 1] = FlushOf(q)
    BY <1>1
  <2>2. /\ query[q] = "wait" /\ q \notin acking
        /\ \A i \in 1..before[q] : Within(Ahead, auditQueue, i, p)
        /\ \A r \in 1..n : auditQueue[r] = FlushOf(q) => r = p + 1
    <3>1. /\ query[q] = "wait" /\ q \notin acking
          /\ \A i \in 1..before[q] : Within(Ahead, auditQueue, i, (p + 1) - 1)
          /\ \A r \in 1..n : auditQueue[r] = FlushOf(q) => r = p + 1
      BY <2>1 DEF AuditInv, FlushIsBehind, n
    <3> QED BY <2>1, <3>1
  <2>3. query'[q] = "wait" /\ q \notin acking'
    BY <1>1, <2>1, <2>2
  <2>4. ASSUME NEW i \in 1..before[q] PROVE Within(Ahead', auditQueue', i, p - 1)
    <3>1. \A j \in 1..(p - 1) : auditQueue'[j] = auditQueue[j + 1]
      BY <1>1, <2>1
    <3>2. auditQueue[1] = Event(i) => i \in Ahead'
      BY <1>1
    <3> QED BY <2>1, <2>2, <3>1, <3>2, WithinTail
  <2>5. \A r \in 1..(n - 1) : auditQueue'[r] = FlushOf(q) => r = p
    <3> TAKE r \in 1..(n - 1)
    <3>1. r \in Nat /\ r + 1 \in 1..n /\ auditQueue'[r] = auditQueue[r + 1]
      BY <1>1
    <3>2. auditQueue'[r] = FlushOf(q) => r + 1 = p + 1
      BY <2>2, <3>1
    <3>3. r + 1 = p + 1 => r = p
      BY <2>1, <3>1
    <3> QED BY <3>2, <3>3
  <2> QED BY <2>3, <2>4, <2>5
<1> QED BY <1>1, <1>2, <1>3

LEMMA ReceiveEventKeeps == AuditInv /\ ReceiveEvent => AuditInv'
<1> SUFFICES ASSUME AuditInv, ReceiveEvent PROVE AuditInv'
  OBVIOUS
<1>1. /\ auditWriter = "receive" /\ auditQueue # <<>> /\ ~Head(auditQueue).flush
      /\ auditQueue' = Tail(auditQueue)
      /\ UNCHANGED <<auditTx, auditStored, horizon, query, recorded, failed, before, answer>>
  BY DEF ReceiveEvent
<1>2. PICK i \in Events : Head(auditQueue) = Event(i)
  <2>1. Head(auditQueue) \in Commands
    BY <1>1 DEF AuditInv, Types
  <2>2. \A q : FlushOf(q).flush = TRUE /\ Orphan.flush = TRUE
    BY DEF FlushOf, Orphan
  <2> QED BY <1>1, <2>1, <2>2 DEF Commands
<1>3. Head(auditQueue).id = i
  BY <1>2 DEF Event
<1>4. /\ acking = {} /\ acking' = {} /\ auditWriting = {}
      /\ \/ /\ auditBatch' = {} /\ auditWriting' = auditBatch \cup {i}
            /\ auditWriter' = "write"
         \/ /\ auditBatch' = auditBatch \cup {i} /\ auditWriting' = {}
            /\ auditWriter' = "receive"
  BY <1>1, <1>3 DEF AuditInv, WriterHolds, ReceiveEvent, StartWrite
<1>5. Past' = Past /\ Ahead' = Ahead \cup {i}
  BY <1>1, <1>4 DEF Past, Ahead
<1>6. auditQueue' \in Seq(Commands) /\ NothingAstray' /\ FlushIsBehind'
  <2>1. \A j : Head(auditQueue) = Event(j) => j \in Ahead'
    BY <1>2, <1>5, CommandsDiffer
  <2> QED BY <1>1, <1>4, <1>5, <2>1, ChannelTail
<1>7. Types'
  BY <1>1, <1>4, <1>6 DEF AuditInv, Types
<1>8. WriterHolds'
  BY <1>1, <1>4 DEF AuditInv, WriterHolds
<1>9. AckIsBehind' /\ QueryIsAhead'
  BY <1>1, <1>4, <1>5 DEF AuditInv, AckIsBehind, QueryIsAhead
<1> QED BY <1>6, <1>7, <1>8, <1>9 DEF AuditInv

\* With an empty batch all that was in front of the flush is in the table, failed or
\* expired; otherwise the batch, with the rest of it, becomes the transaction.
LEMMA ReceiveFlushKeeps == AuditInv /\ ReceiveFlush => AuditInv'
<1> SUFFICES ASSUME AuditInv, ReceiveFlush PROVE AuditInv'
  OBVIOUS
<1> DEFINE f == Head(auditQueue).id
<1>1. /\ auditWriter = "receive" /\ auditQueue # <<>> /\ Head(auditQueue).flush
      /\ auditQueue' = Tail(auditQueue) /\ auditWriting = {} /\ acking = {}
      /\ UNCHANGED <<auditTx, auditStored, horizon, recorded, failed, before, answer>>
  BY DEF AuditInv, WriterHolds, ReceiveFlush
<1>2. /\ \A i : Head(auditQueue) # Event(i)
      /\ \A q \in Askers : Head(auditQueue) = FlushOf(q) <=> f = q
  <2>1. Head(auditQueue) \in Commands
    BY <1>1 DEF AuditInv, Types
  <2>2. \A i, q : Event(i).flush = FALSE /\ FlushOf(q).id = q /\ Orphan.id = 0
    BY DEF Event, FlushOf, Orphan
  <2> QED BY <1>1, <2>1, <2>2, AuditAssumption DEF Commands
<1>3. \/ /\ auditBatch # {} /\ auditBatch' = {} /\ auditWriting' = auditBatch
         /\ acking' = {f} /\ auditWriter' = "write" /\ query' = query
      \/ /\ auditBatch = {} /\ query' = [q \in Askers |-> IF q = f THEN "read" ELSE query[q]]
         /\ UNCHANGED <<auditBatch, auditWriting, acking, auditWriter>>
  BY DEF ReceiveFlush, StartWrite, Acknowledged
<1>4. Past' = Past /\ Ahead' = Ahead
  BY <1>1, <1>3 DEF Past, Ahead
<1>5. auditQueue' \in Seq(Commands) /\ NothingAstray' /\ FlushIsBehind'
  <2>1. \A q \in Askers :
          query[q] = "wait" /\ q \notin acking /\ Head(auditQueue) # FlushOf(q) =>
            query'[q] = "wait" /\ q \notin acking'
    BY <1>1, <1>2, <1>3
  <2> QED BY <1>1, <1>2, <1>4, <2>1, ChannelTail
<1>6. \A q \in Askers : f = q => query[q] = "wait" /\ 1..before[q] \subseteq Ahead
  <2> SUFFICES ASSUME NEW q \in Askers, f = q
               PROVE  query[q] = "wait" /\ 1..before[q] \subseteq Ahead
    OBVIOUS
  <2>1. 1 \in 1..Len(auditQueue) /\ auditQueue[1] = FlushOf(q)
    BY <1>1, <1>2 DEF AuditInv, Types
  <2>2. query[q] = "wait" /\ \A i \in 1..before[q] : Within(Ahead, auditQueue, i, 1 - 1)
    BY <2>1 DEF AuditInv, FlushIsBehind
  <2> QED BY <2>2 DEF Within
<1>7. Types'
  BY <1>1, <1>3, <1>5 DEF AuditInv, Types
<1>8. WriterHolds'
  <2>1. CASE auditTx
    BY <1>1, <1>3, <2>1 DEF AuditInv, WriterHolds
  <2>2. CASE ~auditTx
    <3>1. \A q \in Askers : f # q
      BY <1>6, <2>2 DEF AuditInv, WriterHolds
    <3> QED BY <1>1, <1>3, <2>2, <3>1 DEF AuditInv, WriterHolds
  <2> QED BY <2>1, <2>2
<1>9. AckIsBehind'
  BY <1>1, <1>3, <1>4, <1>6 DEF AuditInv, AckIsBehind, Ahead
<1>10. QueryIsAhead'
  <2>1. auditBatch = {} => Ahead = Past
    BY <1>1 DEF Ahead
  <2>2. CASE auditBatch # {}
    BY <1>1, <1>3, <1>4, <2>2 DEF AuditInv, QueryIsAhead
  <2>3. CASE auditBatch = {}
    BY <1>1, <1>3, <1>4, <1>6, <2>1, <2>3 DEF AuditInv, QueryIsAhead
  <2> QED BY <2>2, <2>3
<1> QED BY <1>5, <1>7, <1>8, <1>9, <1>10 DEF AuditInv

LEMMA AuditTimerKeeps == AuditInv /\ AuditTimer => AuditInv'
<1> SUFFICES ASSUME AuditInv, AuditTimer PROVE AuditInv'
  OBVIOUS
<1>1. /\ auditWriter = "receive" /\ auditWriting = {} /\ acking = {} /\ acking' = {}
      /\ auditWriting' = auditBatch /\ auditBatch' = {} /\ auditWriter' = "write"
      /\ UNCHANGED <<auditTx, auditQueue, auditStored, horizon, query, recorded, failed,
                     before, answer>>
  BY DEF AuditInv, WriterHolds, AuditTimer, StartWrite
<1>2. Past' = Past /\ Ahead' = Ahead
  BY <1>1 DEF Past, Ahead
<1>3. NothingAstray' /\ FlushIsBehind'
  BY <1>1, <1>2, ChannelKept
<1>4. Types' /\ WriterHolds'
  BY <1>1 DEF AuditInv, Types, WriterHolds
<1>5. AckIsBehind' /\ QueryIsAhead'
  BY <1>1, <1>2 DEF AuditInv, AckIsBehind, QueryIsAhead
<1> QED BY <1>3, <1>4, <1>5 DEF AuditInv

LEMMA DrainAuditKeeps == AuditInv /\ DrainAudit => AuditInv'
<1> SUFFICES ASSUME AuditInv, DrainAudit PROVE AuditInv'
  OBVIOUS
<1>1. /\ auditWriter = "receive" /\ auditWriting = {} /\ acking = {} /\ acking' = {}
      /\ ~auditTx /\ auditQueue = <<>>
      /\ auditWriting' = auditBatch /\ auditBatch' = {}
      /\ auditWriter' \in {"last write", "exited"}
      /\ auditWriter' = "exited" => auditBatch = {}
      /\ UNCHANGED <<auditTx, auditQueue, auditStored, horizon, query, recorded, failed,
                     before, answer>>
  BY DEF AuditInv, WriterHolds, DrainAudit, StartWrite
<1>2. Past' = Past /\ Ahead' = Ahead
  BY <1>1 DEF Past, Ahead
<1>3. NothingAstray' /\ FlushIsBehind'
  BY <1>1, <1>2, ChannelKept
<1>4. Types' /\ WriterHolds'
  BY <1>1 DEF AuditInv, Types, WriterHolds
<1>5. AckIsBehind' /\ QueryIsAhead'
  BY <1>1, <1>2 DEF AuditInv, AckIsBehind, QueryIsAhead
<1> QED BY <1>3, <1>4, <1>5 DEF AuditInv

LEMMA AuditWriteEndsKeeps ==
  ASSUME AuditInv, NEW ok \in BOOLEAN, AuditWriteEnds(ok)
  PROVE  AuditInv'
<1>1. /\ auditWriter \in {"write", "last write"} /\ auditBatch = {}
      /\ auditWriter' = IF auditWriter = "write" THEN "receive" ELSE "exited"
      /\ auditWriting' = {} /\ acking' = {}
      /\ query' = [q \in Askers |-> IF q \in acking THEN "read" ELSE query[q]]
      /\ auditStored \subseteq auditStored' /\ failed \subseteq failed'
      /\ auditStored' \cup failed' = auditStored \cup failed \cup auditWriting
      /\ UNCHANGED <<auditTx, auditQueue, auditBatch, horizon, recorded, before, answer>>
  BY DEF AuditInv, WriterHolds, AuditWriteEnds, Acknowledged
<1>2. Past' = Past \cup auditWriting /\ Ahead' = Ahead
  BY <1>1 DEF Past, Ahead
<1>3. NothingAstray' /\ FlushIsBehind'
  BY <1>1, <1>2, ChannelKept
<1>4. Types'
  BY <1>1 DEF AuditInv, Types
<1>5. WriterHolds'
  <2>1. ~auditTx => acking \cap Askers = {}
    BY DEF AuditInv, WriterHolds, AckIsBehind
  <2> QED BY <1>1, <2>1 DEF AuditInv, WriterHolds
<1>6. AckIsBehind'
  BY <1>1 DEF AckIsBehind
<1>7. QueryIsAhead'
  <2> SUFFICES ASSUME NEW q \in Askers
               PROVE  /\ before[q] <= recorded
                      /\ query'[q] = "read" => 1..before[q] \subseteq Past'
                      /\ query'[q] = "idle" =>
                           \A i \in 1..before[q] : i \in answer[q] \cup failed' \/ i <= horizon
    BY <1>1 DEF QueryIsAhead
  <2>1. CASE q \in acking
    BY <1>1, <1>2, <2>1 DEF AuditInv, AckIsBehind, QueryIsAhead
  <2>2. CASE q \notin acking
    BY <1>1, <1>2, <2>2 DEF AuditInv, QueryIsAhead
  <2> QED BY <2>1, <2>2
<1> QED BY <1>3, <1>4, <1>5, <1>6, <1>7 DEF AuditInv

(***************************************************************************)
(* The other steps.                                                        *)
(***************************************************************************)

\* The flush of a query that goes away stays in the channel, and answers nobody.
LEMMA AbandonQueryKeeps ==
  ASSUME AuditInv, NEW q \in Askers, AbandonQuery(q)
  PROVE  AuditInv'
<1>1. /\ query[q] # "idle" /\ query' = [query EXCEPT ![q] = "idle"]
      /\ before' = [before EXCEPT ![q] = 0] /\ answer' = [answer EXCEPT ![q] = {}]
      /\ acking' = acking \ {q}
      /\ UNCHANGED <<auditTx, auditBatch, auditWriting, auditWriter, auditStored, horizon,
                     recorded, failed>>
  BY DEF AbandonQuery
<1> DEFINE n == Len(auditQueue)
<1>2. /\ n \in Nat /\ auditQueue' \in Seq(Commands) /\ Len(auditQueue') = n
      /\ \A j \in 1..n : /\ auditQueue[j] # FlushOf(q) => auditQueue'[j] = auditQueue[j]
                         /\ auditQueue[j] = FlushOf(q) => auditQueue'[j] = Orphan
  <2>1. auditQueue \in Seq(Commands) /\ n \in Nat /\ DOMAIN auditQueue = 1..n
    BY DEF AuditInv, Types
  <2>2. auditQueue' = [i \in 1..n |-> IF auditQueue[i] = FlushOf(q) THEN Orphan
                                                                    ELSE auditQueue[i]]
    BY <2>1 DEF AbandonQuery
  <2>3. \A i \in 1..n : (IF auditQueue[i] = FlushOf(q) THEN Orphan ELSE auditQueue[i]) \in Commands
    BY <2>1 DEF Commands
  <2>4. auditQueue' \in Seq(Commands)
    BY <2>1, <2>2, <2>3, SeqDef
  <2>5. Len(auditQueue') = n
    BY <2>1, <2>2, <2>4
  <2> HIDE DEF n
  <2> QED BY <2>1, <2>2, <2>4, <2>5
<1> HIDE DEF n
<1>3. Past' = Past /\ Ahead' = Ahead
  BY <1>1 DEF Past, Ahead
<1>4. ASSUME NEW i, NEW m \in 0..n, Within(Ahead, auditQueue, i, m)
      PROVE  Within(Ahead', auditQueue', i, m)
  <2>1. \A j \in 1..m : auditQueue[j] = Event(i) => auditQueue'[j] = Event(i)
    BY <1>2, CommandsDiffer
  <2> QED BY <1>3, <1>4, <2>1 DEF Within
<1>5. NothingAstray'
  <2> SUFFICES ASSUME NEW i \in 1..recorded
               PROVE  Within(Ahead', auditQueue', i, n)
    BY <1>1, <1>2 DEF NothingAstray
  <2>1. Within(Ahead, auditQueue, i, n) /\ n \in 0..n
    BY <1>2 DEF AuditInv, NothingAstray, n
  <2> QED BY <1>4, <2>1
<1>6. FlushIsBehind'
  <2> SUFFICES ASSUME NEW r \in Askers, NEW p \in 1..n, auditQueue'[p] = FlushOf(r)
               PROVE  /\ query'[r] = "wait" /\ r \notin acking'
                      /\ \A i \in 1..before'[r] : Within(Ahead', auditQueue', i, p - 1)
                      /\ \A o \in 1..n : auditQueue'[o] = FlushOf(r) => o = p
    BY <1>2 DEF FlushIsBehind
  <2>1. r # q /\ auditQueue[p] = FlushOf(r) /\ p - 1 \in 0..n
    BY <1>2, CommandsDiffer
  <2>2. /\ query[r] = "wait" /\ r \notin acking
        /\ \A i \in 1..before[r] : Within(Ahead, auditQueue, i, p - 1)
        /\ \A o \in 1..n : auditQueue[o] = FlushOf(r) => o = p
    BY <2>1 DEF AuditInv, FlushIsBehind, n
  <2>3. query'[r] = "wait" /\ r \notin acking' /\ before'[r] = before[r]
    BY <1>1, <2>1, <2>2 DEF AuditInv, Types
  <2>4. \A i \in 1..before[r] : Within(Ahead', auditQueue', i, p - 1)
    BY <1>4, <2>1, <2>2
  <2>5. \A o \in 1..n : auditQueue'[o] = FlushOf(r) => o = p
    BY <1>2, <2>2, CommandsDiffer
  <2> QED BY <2>3, <2>4, <2>5
<1>7. Types'
  BY <1>1, <1>2 DEF AuditInv, Types
<1>8. WriterHolds'
  <2>1. auditQueue = <<>> => auditQueue' = <<>>
    BY <1>2 DEF AuditInv, Types, n
  <2> QED BY <1>1, <2>1 DEF AuditInv, Types, WriterHolds
<1>9. AckIsBehind'
  BY <1>1, <1>3 DEF AuditInv, Types, AckIsBehind
<1>10. QueryIsAhead'
  BY <1>1, <1>3 DEF AuditInv, Types, QueryIsAhead
<1> QED BY <1>5, <1>6, <1>7, <1>8, <1>9, <1>10 DEF AuditInv

LEMMA PruneAuditKeeps == AuditInv /\ PruneAudit => AuditInv'
<1> SUFFICES ASSUME AuditInv, PruneAudit PROVE AuditInv'
  OBVIOUS
<1>1. /\ UNCHANGED <<auditTx, auditQueue, auditBatch, auditWriting, acking, auditWriter,
                     query, recorded, failed, before, answer>>
      /\ horizon' \in Events /\ horizon < horizon'
      /\ auditStored' = {j \in auditStored : j > horizon'}
  BY DEF AuditInv, Types, PruneAudit
<1>2. horizon \in Nat /\ horizon' \in Nat /\ auditStored \subseteq Events
  BY <1>1 DEF AuditInv, Types, Events
<1>3. Past \subseteq Past' /\ Ahead \subseteq Ahead'
  <2>1. \A i \in Events : i > horizon' \/ i <= horizon'
    BY <1>2 DEF Events
  <2>2. \A i \in Events : i <= horizon => i <= horizon'
    BY <1>1, <1>2 DEF Events
  <2>3. auditStored \subseteq auditStored' \cup {i \in Events : i <= horizon'}
    BY <1>1, <1>2, <2>1
  <2>4. Past \subseteq Past'
    BY <1>1, <2>2, <2>3 DEF Past
  <2> QED BY <1>1, <2>4 DEF Ahead
<1>4. NothingAstray' /\ FlushIsBehind'
  BY <1>1, <1>3, ChannelKept
<1>5. Types' /\ WriterHolds'
  BY <1>1, <1>2 DEF AuditInv, Types, WriterHolds
<1>6. AckIsBehind'
  BY <1>1, <1>3 DEF AuditInv, AckIsBehind
<1>7. QueryIsAhead'
  <2> SUFFICES ASSUME NEW q \in Askers
               PROVE  /\ before[q] <= recorded
                      /\ query[q] = "read" => 1..before[q] \subseteq Past'
                      /\ query[q] = "idle" =>
                           \A i \in 1..before[q] : i \in answer[q] \cup failed \/ i <= horizon'
    BY <1>1 DEF QueryIsAhead
  <2>1. \A i \in 1..before[q] : i <= horizon => i <= horizon'
    BY <1>1, <1>2 DEF AuditInv, Types
  <2> QED BY <1>3, <2>1 DEF AuditInv, QueryIsAhead
<1> QED BY <1>4, <1>5, <1>6, <1>7 DEF AuditInv

LEMMA DropAuditSenderKeeps == AuditInv /\ DropAuditSender => AuditInv'
<1> SUFFICES ASSUME AuditInv, DropAuditSender PROVE AuditInv'
  OBVIOUS
<1>1. /\ auditTx /\ auditTx' = FALSE /\ \A q \in Askers : query[q] = "idle"
      /\ UNCHANGED <<auditQueue, auditBatch, auditWriting, acking, auditWriter, auditStored,
                     horizon, query, recorded, failed, before, answer>>
  BY DEF DropAuditSender
<1>2. Past' = Past /\ Ahead' = Ahead
  BY <1>1 DEF Past, Ahead
<1>3. NothingAstray' /\ FlushIsBehind'
  BY <1>1, <1>2, ChannelKept
<1>4. Types' /\ WriterHolds'
  BY <1>1 DEF AuditInv, Types, WriterHolds
<1>5. AckIsBehind' /\ QueryIsAhead'
  BY <1>1, <1>2 DEF AuditInv, AckIsBehind, QueryIsAhead
<1> QED BY <1>3, <1>4, <1>5 DEF AuditInv

LEMMA StepKeeps == AuditInv /\ [AuditNext]_auditVars => AuditInv'
<1> SUFFICES ASSUME AuditInv, [AuditNext]_auditVars PROVE AuditInv'
  OBVIOUS
<1>1. ASSUME NEW q \in Askers, BeginQuery(q) \/ SendFlush(q) \/ ReadEvents(q) \/ AbandonQuery(q)
      PROVE  AuditInv'
  BY <1>1, BeginQueryKeeps, SendFlushKeeps, ReadEventsKeeps, AbandonQueryKeeps
<1>2. CASE AuditWriterStep
  BY <1>2, ReceiveEventKeeps, ReceiveFlushKeeps, AuditTimerKeeps, DrainAuditKeeps,
     AuditWriteEndsKeeps DEF AuditWriterStep
<1>3. CASE Record \/ PruneAudit \/ DropAuditSender
  BY <1>3, RecordKeeps, PruneAuditKeeps, DropAuditSenderKeeps
<1>4. CASE UNCHANGED auditVars
  <2>1. Past' = Past /\ Ahead' = Ahead
    BY <1>4 DEF auditVars, Past, Ahead
  <2>2. NothingAstray' /\ FlushIsBehind'
    BY <1>4, <2>1, ChannelKept DEF auditVars
  <2>3. Types' /\ WriterHolds'
    BY <1>4 DEF auditVars, AuditInv, Types, WriterHolds
  <2>4. AckIsBehind' /\ QueryIsAhead'
    BY <1>4, <2>1 DEF auditVars, AuditInv, AckIsBehind, QueryIsAhead
  <2> QED BY <2>2, <2>3, <2>4 DEF AuditInv
<1> QED BY <1>1, <1>2, <1>3, <1>4 DEF AuditNext

(***************************************************************************)
(* The theorems.                                                           *)
(***************************************************************************)

\* Whatever the capacity and the batch size, and however many queries there are, a
\* query has read every event that was taken before it began and neither failed nor
\* expired (AuditLog::query, flush_pending, run_audit_writer).
THEOREM QuerySeesWhatWasRecorded == AuditSpec => []QuerySeesRecorded
<1>1. AuditInv => QuerySeesRecorded
  BY DEF AuditInv, QueryIsAhead, QuerySeesRecorded
<1> QED BY <1>1, InitAudit, StepKeeps, PTL DEF AuditSpec

LEMMA AuditDrained == AuditInv => AuditDrainLosesNothing
<1> SUFFICES ASSUME AuditInv, auditWriter = "exited", NEW i \in 1..recorded
             PROVE  i \in auditStored \cup failed \/ i <= horizon
  BY DEF AuditDrainLosesNothing
<1>1. auditQueue = <<>> /\ auditBatch = {} /\ auditWriting = {}
  BY DEF AuditInv, WriterHolds
<1>2. i \in Ahead
  BY <1>1 DEF AuditInv, NothingAstray, Within
<1> QED BY <1>1, <1>2 DEF Ahead, Past

\* When the writer task ends, no event that the channel took is left in the channel or in
\* a batch (AuditLog::shutdown, run_audit_writer).
THEOREM AuditDrainIsComplete == AuditSpec => []AuditDrainLosesNothing
BY AuditDrained, InitAudit, StepKeeps, PTL DEF AuditSpec

(***************************************************************************)
(* The history.                                                            *)
(***************************************************************************)

HistoryNumbers ==
  /\ now \in 1..MaxTime /\ lastWritten \in 0..MaxTime /\ lastPruned \in 0..MaxTime
  /\ forgets \in 0..MaxForgets
  /\ recording \in [Recorders -> 0..MaxTime]

HistoryTypes ==
  /\ historyQueue \in Seq(Samples)
  /\ historyBatch \subseteq Samples
  /\ writing \in [points : SUBSET Samples, cutoff : Nat]
  /\ historyWriter \in {"receive", "write", "last write", "exited"}
  /\ stored \subseteq Samples /\ accepted \subseteq Samples /\ lost \subseteq Samples

HistorySizes ==
  /\ historyTx \in BOOLEAN
  /\ Len(historyQueue) <= HistoryCapacity
  /\ IsFiniteSet(historyBatch) /\ Cardinality(historyBatch) < HistoryBatchMax

\* A deletion is decided on no later than now.
CutoffIsPast == writing.cutoff = 0 \/ writing.cutoff + Retention <= now

\* The throttle knows the latest sample, unless it has forgotten the node since.
ThrottleKnows ==
  \A p \in accepted : p.since <= forgets /\ (p.since = forgets => p.at <= lastWritten)

\* What the writer task holds where, and what has ended before it ends.
WriterTurns ==
  /\ historyWriter \in {"receive", "exited"} => writing.points = {}
  /\ historyWriter # "receive" => historyBatch = {}
  /\ historyWriter \in {"last write", "exited"} =>
       ~historyTx /\ historyQueue = <<>> /\ \A r \in Recorders : recording[r] = 0

\* A sample that the channel took is on its way, has been dealt with, or has expired.
Arrived1(p) ==
  p \in stored \/ p \in lost \/ p \in historyBatch \/ p \in writing.points
  \/ p.at + Retention < now
Queued(p) == \E i \in 1..Len(historyQueue) : historyQueue[i] = p
NoneAstray == \A p \in accepted : Arrived1(p) \/ Queued(p)

\* The inductive invariant.  That samples are spaced needs the throttle to know the
\* latest of them, and that none is lost at the end needs to know where each one is.
HistoryInv ==
  /\ HistoryNumbers /\ HistoryTypes /\ HistorySizes /\ CutoffIsPast /\ WriterTurns
  /\ ThrottleKnows /\ SamplesAreSpaced /\ NoneAstray

LEMMA HistoryBounds ==
  /\ WriteInterval \in Nat /\ WriteInterval > 0
  /\ HistoryCapacity \in Nat /\ HistoryCapacity > 0
  /\ HistoryBatchMax \in Nat /\ HistoryBatchMax > 0
  /\ Retention \in Nat /\ Retention > 0
  /\ PruneInterval \in Nat /\ PruneInterval > 0
  /\ MaxTime \in Nat /\ MaxTime > 0 /\ MaxForgets \in Nat
BY HistoryAssumption

LEMMA InitHistory == HistoryInit => HistoryInv
<1> SUFFICES ASSUME HistoryInit PROVE HistoryInv
  OBVIOUS
<1>1. IsFiniteSet({}) /\ Cardinality({}) = 0
  BY FS_EmptySet
<1>2. HistoryNumbers /\ HistoryTypes
  <2>1. now \in 1..MaxTime
    BY HistoryBounds DEF HistoryInit
  <2>2. historyQueue \in Seq(Samples)
    BY DEF HistoryInit
  <2>3. recording \in [Recorders -> 0..MaxTime]
    BY HistoryBounds DEF HistoryInit
  <2>4. HistoryNumbers
    BY <2>1, <2>3, HistoryBounds DEF HistoryInit, HistoryNumbers
  <2> QED BY <2>2, <2>4 DEF HistoryInit, HistoryTypes, NoWrite
<1>3. HistorySizes
  <2>1. Len(historyQueue) = 0 /\ historyBatch = {} /\ historyTx = TRUE
    BY DEF HistoryInit
  <2>2. Len(historyQueue) <= HistoryCapacity /\ Cardinality(historyBatch) < HistoryBatchMax
    BY <1>1, <2>1, HistoryBounds
  <2> QED BY <1>1, <2>1, <2>2 DEF HistorySizes
<1> QED
  BY <1>2, <1>3 DEF HistoryInit, HistoryInv, CutoffIsPast, WriterTurns, ThrottleKnows,
              SamplesAreSpaced, NoneAstray, NoWrite

LEMMA SampleFields ==
  \A p \in Samples : p.at \in Nat /\ p.at > 0 /\ p.at <= MaxTime /\ p.since \in Nat
BY HistoryBounds DEF Samples

LEMMA HistoryFacts ==
  ASSUME HistoryInv
  PROVE  /\ now \in Nat /\ lastWritten \in Nat /\ lastPruned \in Nat /\ forgets \in Nat
         /\ historyQueue \in Seq(Samples) /\ Len(historyQueue) \in Nat
         /\ \A r \in Recorders : recording[r] \in Nat
         /\ accepted \subseteq Samples /\ stored \subseteq Samples /\ lost \subseteq Samples
         /\ historyBatch \subseteq Samples /\ writing.points \subseteq Samples
         /\ writing.cutoff \in Nat
<1>1. HistoryTypes /\ HistoryNumbers
  BY DEF HistoryInv
<1>2. now \in Nat /\ lastWritten \in Nat /\ lastPruned \in Nat /\ forgets \in Nat
  BY <1>1, HistoryBounds DEF HistoryNumbers
<1>3. historyQueue \in Seq(Samples) /\ Len(historyQueue) \in Nat
  <2>1. historyQueue \in Seq(Samples)
    BY <1>1 DEF HistoryTypes
  <2> QED BY <2>1
<1>4. \A r \in Recorders : recording[r] \in Nat
  BY <1>1, HistoryBounds DEF HistoryNumbers
<1>5. /\ accepted \subseteq Samples /\ stored \subseteq Samples /\ lost \subseteq Samples
      /\ historyBatch \subseteq Samples /\ writing.points \subseteq Samples
      /\ writing.cutoff \in Nat
  BY <1>1 DEF HistoryTypes
<1> QED BY <1>2, <1>3, <1>4, <1>5

LEMMA BeginRecordKeeps ==
  ASSUME HistoryInv, NEW r \in Recorders, BeginRecord(r) PROVE HistoryInv'
<1>1. /\ historyTx /\ recording' = [recording EXCEPT ![r] = now]
      /\ UNCHANGED <<now, historyTx, lastWritten, historyQueue, historyBatch, writing,
                     historyWriter, lastPruned, stored, forgets, accepted, lost>>
  BY DEF BeginRecord
<1>2. HistoryTypes' /\ HistorySizes'
  BY <1>1 DEF HistoryInv, HistoryTypes, HistorySizes
<1>0. HistoryNumbers'
  <2>1. HistoryNumbers /\ now \in 0..MaxTime
    BY HistoryBounds DEF HistoryInv, HistoryNumbers
  <2> QED BY <1>1, <2>1 DEF HistoryNumbers
<1>3. WriterTurns'
  BY <1>1 DEF HistoryInv, WriterTurns
<1>4. CutoffIsPast' /\ ThrottleKnows' /\ SamplesAreSpaced' /\ NoneAstray'
  BY <1>1 DEF HistoryInv, CutoffIsPast, ThrottleKnows, SamplesAreSpaced, NoneAstray, Arrived1, Queued
<1> QED BY <1>0, <1>2, <1>3, <1>4 DEF HistoryInv

LEMMA OfferKeeps ==
  ASSUME HistoryInv, NEW r \in Recorders, Offer(r) PROVE HistoryInv'
<1> DEFINE sample == [at |-> recording[r], by |-> r, since |-> forgets]
<1>1. /\ recording[r] > 0 /\ recording' = [recording EXCEPT ![r] = 0]
      /\ \/ UNCHANGED <<lastWritten, historyQueue, accepted>>
         \/ /\ ~Throttled(recording[r]) /\ Len(historyQueue) # HistoryCapacity
            /\ lastWritten' = recording[r] /\ historyQueue' = Append(historyQueue, sample)
            /\ accepted' = accepted \cup {sample}
      /\ UNCHANGED <<now, historyTx, historyBatch, writing, historyWriter, lastPruned,
                     stored, forgets, lost>>
  BY DEF Offer
<1>2. sample \in Samples /\ sample.at = recording[r] /\ sample.since = forgets
  <2>1. recording[r] \in 1..MaxTime
    BY <1>1, HistoryBounds DEF HistoryInv, HistoryNumbers
  <2>2. forgets \in 0..MaxForgets
    BY DEF HistoryInv, HistoryNumbers
  <2> QED BY <2>1, <2>2 DEF Samples
<1> HIDE DEF sample
<1>3. historyWriter \notin {"last write", "exited"}
  <2>1. recording[r] # 0
    BY <1>1, HistoryFacts
  <2> QED BY <2>1 DEF HistoryInv, WriterTurns
<1>4. WriterTurns' /\ CutoffIsPast'
  BY <1>1, <1>3 DEF HistoryInv, WriterTurns, CutoffIsPast
<1>5. recording' \in [Recorders -> 0..MaxTime]
  <2>1. 0 \in 0..MaxTime
    BY HistoryBounds
  <2>2. recording \in [Recorders -> 0..MaxTime]
    BY DEF HistoryInv, HistoryNumbers
  <2> QED BY <1>1, <2>1, <2>2
<1>6. CASE UNCHANGED <<lastWritten, historyQueue, accepted>>
  <2>1. HistoryNumbers' /\ HistoryTypes' /\ HistorySizes'
    BY <1>1, <1>5, <1>6 DEF HistoryInv, HistoryNumbers, HistoryTypes, HistorySizes
  <2>2. ThrottleKnows' /\ SamplesAreSpaced' /\ NoneAstray'
    BY <1>1, <1>6 DEF HistoryInv, ThrottleKnows, SamplesAreSpaced, NoneAstray, Arrived1, Queued
  <2> QED BY <1>4, <2>1, <2>2 DEF HistoryInv
<1>7. CASE /\ ~Throttled(recording[r]) /\ Len(historyQueue) # HistoryCapacity
           /\ lastWritten' = recording[r] /\ historyQueue' = Append(historyQueue, sample)
           /\ accepted' = accepted \cup {sample}
  <2>1. historyQueue' \in Seq(Samples) /\ Len(historyQueue') = Len(historyQueue) + 1
        /\ historyQueue'[Len(historyQueue) + 1] = sample
        /\ \A i \in 1..Len(historyQueue) : historyQueue'[i] = historyQueue[i]
    BY <1>2, <1>7, HistoryFacts
  <2>2. HistorySizes'
    <3>1. HistorySizes
      BY DEF HistoryInv
    <3>2. Len(historyQueue) <= HistoryCapacity
      BY <3>1 DEF HistorySizes
    <3>3. Len(historyQueue') <= HistoryCapacity
      BY <1>7, <2>1, <3>2, HistoryFacts, HistoryBounds
    <3> QED BY <1>1, <3>1, <3>3 DEF HistorySizes
  <2>3. lastWritten' \in 0..MaxTime /\ accepted' \subseteq Samples
    <3>1. recording[r] \in 0..MaxTime
      BY DEF HistoryInv, HistoryNumbers
    <3> QED BY <1>2, <1>7, <3>1, HistoryFacts
  <2>4. HistoryNumbers' /\ HistoryTypes'
    BY <1>1, <1>5, <2>1, <2>3 DEF HistoryInv, HistoryNumbers, HistoryTypes
  <2>5. \A p \in accepted : p.since = forgets =>
          p.at <= lastWritten /\ p.at + WriteInterval <= recording[r]
    <3> SUFFICES ASSUME NEW p \in accepted, p.since = forgets
                 PROVE  p.at <= lastWritten /\ p.at + WriteInterval <= recording[r]
      OBVIOUS
    <3>1. p.at <= lastWritten /\ p.at \in Nat /\ p.at > 0 /\ lastWritten \in Nat
          /\ recording[r] \in Nat
      BY HistoryFacts, SampleFields DEF HistoryInv, ThrottleKnows
    <3>2. lastWritten > 0
      BY <3>1
    <3>3. ~(recording[r] < lastWritten + WriteInterval)
      BY <1>7, <3>2 DEF Throttled
    <3> QED BY <3>1, <3>3, HistoryBounds
  <2>6. ThrottleKnows'
    <3> SUFFICES ASSUME NEW p \in accepted'
                 PROVE  p.since <= forgets' /\ (p.since = forgets' => p.at <= lastWritten')
      BY DEF ThrottleKnows
    <3>1. CASE p = sample
      BY <1>1, <1>2, <1>7, <3>1, HistoryFacts
    <3>2. CASE p \in accepted
      <4>1. p.since <= forgets /\ p.at \in Nat /\ recording[r] \in Nat
        BY <3>2, HistoryFacts, SampleFields DEF HistoryInv, ThrottleKnows
      <4>2. p.since = forgets => p.at <= recording[r]
        BY <2>5, <3>2, <4>1, HistoryBounds
      <4> QED BY <1>1, <1>7, <4>1, <4>2
    <3> QED BY <1>7, <3>1, <3>2
  <2>7. SamplesAreSpaced'
    <3> SUFFICES ASSUME NEW p \in accepted', NEW q \in accepted', p # q, p.since = q.since
                 PROVE  p.at + WriteInterval <= q.at \/ q.at + WriteInterval <= p.at
      BY DEF SamplesAreSpaced
    <3>1. CASE p \in accepted /\ q \in accepted
      BY <3>1 DEF HistoryInv, SamplesAreSpaced
    <3>2. CASE p = sample \/ q = sample
      BY <1>2, <1>7, <2>5, <3>2
    <3> QED BY <1>7, <3>1, <3>2
  <2>8. NoneAstray'
    <3> SUFFICES ASSUME NEW p \in accepted' PROVE Arrived1(p)' \/ Queued(p)'
      BY DEF NoneAstray
    <3>1. CASE p = sample
      BY <2>1, <3>1, HistoryFacts DEF Queued
    <3>2. CASE p \in accepted /\ Arrived1(p)
      BY <1>1, <3>2 DEF Arrived1
    <3>3. CASE p \in accepted /\ Queued(p)
      <4>1. PICK i \in 1..Len(historyQueue) : historyQueue[i] = p
        BY <3>3 DEF Queued
      <4>2. i \in 1..Len(historyQueue') /\ historyQueue'[i] = p
        BY <2>1, <4>1, HistoryFacts
      <4> QED BY <4>2 DEF Queued
    <3> QED BY <1>7, <3>1, <3>2, <3>3 DEF HistoryInv, NoneAstray
  <2> QED BY <1>4, <2>2, <2>4, <2>6, <2>7, <2>8 DEF HistoryInv
<1> QED BY <1>1, <1>6, <1>7

LEMMA FlushFacts ==
  ASSUME HistoryInv, NEW points \in SUBSET Samples, NEW next, Flush(points, next), now' = now
  PROVE  /\ historyBatch' = {} /\ historyWriter' = next
         /\ writing' \in [points : SUBSET Samples, cutoff : Nat] /\ writing'.points = points
         /\ CutoffIsPast' /\ lastPruned' \in 0..MaxTime
<1> DEFINE due == lastPruned = 0 \/ now - lastPruned >= PruneInterval
           cutoff == IF due /\ now > Retention THEN now - Retention ELSE 0
<1>1. /\ historyBatch' = {} /\ historyWriter' = next
      /\ writing' = [points |-> points, cutoff |-> cutoff]
      /\ lastPruned' = IF due THEN now ELSE lastPruned
  BY DEF Flush
<1>2. cutoff \in Nat /\ (cutoff = 0 \/ cutoff + Retention <= now)
  BY HistoryFacts, HistoryBounds
<1>3. lastPruned' \in 0..MaxTime
  <2>1. now \in 0..MaxTime /\ lastPruned \in 0..MaxTime
    BY HistoryBounds DEF HistoryInv, HistoryNumbers
  <2> QED BY <1>1, <2>1
<1> HIDE DEF cutoff, due
<1>4. writing' \in [points : SUBSET Samples, cutoff : Nat] /\ writing'.points = points
      /\ writing'.cutoff = cutoff
  BY <1>1, <1>2
<1>5. CutoffIsPast'
  BY <1>2, <1>4 DEF CutoffIsPast
<1> QED BY <1>1, <1>3, <1>4, <1>5

\* Steps of the writer task leave the throttle and what was accepted alone.
WriterAlone ==
  UNCHANGED <<now, historyTx, lastWritten, recording, forgets, accepted>>

LEMMA WriterAloneKeeps ==
  HistoryInv /\ WriterAlone => ThrottleKnows' /\ SamplesAreSpaced'
BY DEF HistoryInv, WriterAlone, ThrottleKnows, SamplesAreSpaced

LEMMA NumbersKept ==
  HistoryInv /\ WriterAlone /\ lastPruned' \in 0..MaxTime => HistoryNumbers'
<1> SUFFICES ASSUME HistoryInv, WriterAlone, lastPruned' \in 0..MaxTime PROVE HistoryNumbers'
  OBVIOUS
<1>1. HistoryNumbers
  BY DEF HistoryInv
<1> QED BY <1>1 DEF HistoryNumbers, WriterAlone

LEMMA ReceiveKeeps == HistoryInv /\ Receive => HistoryInv'
<1> SUFFICES ASSUME HistoryInv, Receive PROVE HistoryInv'
  OBVIOUS
<1> DEFINE points == historyBatch \cup {Head(historyQueue)}
<1>1. /\ historyWriter = "receive" /\ historyQueue # <<>> /\ historyQueue' = Tail(historyQueue)
      /\ IF Cardinality(points) >= HistoryBatchMax
         THEN Flush(points, "write")
         ELSE historyBatch' = points /\ UNCHANGED <<writing, lastPruned, historyWriter>>
      /\ WriterAlone /\ UNCHANGED <<stored, lost>> /\ now' = now
  BY DEF Receive, WriterAlone
<1>2. /\ historyQueue' \in Seq(Samples) /\ Len(historyQueue') = Len(historyQueue) - 1
      /\ Head(historyQueue) = historyQueue[1] /\ Head(historyQueue) \in Samples
      /\ \A i \in 2..Len(historyQueue) : i - 1 \in 1..Len(historyQueue') /\ historyQueue'[i - 1] = historyQueue[i]
      /\ Len(historyQueue) \in Nat /\ Len(historyQueue) > 0
  BY <1>1, HistoryFacts
<1>3. HistorySizes /\ writing.points = {}
  BY <1>1 DEF HistoryInv, WriterTurns
<1>4. points \in SUBSET Samples /\ IsFiniteSet(points) /\ Cardinality(points) \in Nat
  <2>1. IsFiniteSet(historyBatch) /\ historyBatch \subseteq Samples
    BY <1>3, HistoryFacts DEF HistorySizes
  <2>2. IsFiniteSet(points)
    BY <2>1, FS_AddElement
  <2> QED BY <1>2, <2>1, <2>2, FS_CardinalityType
<1>5. Len(historyQueue') <= HistoryCapacity
  <2>1. Len(historyQueue) <= HistoryCapacity
    BY <1>3 DEF HistorySizes
  <2> QED BY <1>2, <2>1, HistoryBounds
<1> HIDE DEF points
<1>6. \A p : Queued(p) => Queued(p)' \/ p \in points
  <2> SUFFICES ASSUME NEW p, Queued(p), p \notin points PROVE Queued(p)'
    OBVIOUS
  <2>1. PICK i \in 1..Len(historyQueue) : historyQueue[i] = p
    BY DEF Queued
  <2>2. i # 1
    BY <1>2, <2>1 DEF points
  <2>3. i \in 2..Len(historyQueue)
    BY <1>2, <2>1, <2>2
  <2> QED BY <1>2, <2>1, <2>3 DEF Queued
<1>7. historyBatch \subseteq points
  BY DEF points
<1>8. CASE Flush(points, "write")
  <2>1. /\ historyBatch' = {} /\ historyWriter' = "write"
        /\ writing' \in [points : SUBSET Samples, cutoff : Nat] /\ writing'.points = points
        /\ CutoffIsPast' /\ lastPruned' \in 0..MaxTime
    BY <1>1, <1>4, <1>8, FlushFacts
  <2>2. HistoryNumbers' /\ ThrottleKnows' /\ SamplesAreSpaced'
    BY <1>1, <2>1, NumbersKept, WriterAloneKeeps
  <2>3. HistoryTypes'
    BY <1>1, <1>2, <2>1 DEF HistoryInv, HistoryTypes, WriterAlone
  <2>4. HistorySizes'
    <3>1. IsFiniteSet(historyBatch') /\ Cardinality(historyBatch') < HistoryBatchMax
      BY <2>1, FS_EmptySet, HistoryBounds
    <3> QED BY <1>1, <1>3, <1>5, <3>1 DEF HistorySizes, WriterAlone
  <2>5. WriterTurns'
    BY <2>1 DEF WriterTurns
  <2>6. NoneAstray'
    BY <1>1, <1>3, <1>6, <1>7, <2>1 DEF HistoryInv, NoneAstray, Arrived1, WriterAlone
  <2> QED BY <2>1, <2>2, <2>3, <2>4, <2>5, <2>6 DEF HistoryInv
<1>9. CASE /\ historyBatch' = points /\ UNCHANGED <<writing, lastPruned, historyWriter>>
           /\ ~(Cardinality(points) >= HistoryBatchMax)
  <2>1. lastPruned' \in 0..MaxTime
    BY <1>9 DEF HistoryInv, HistoryNumbers
  <2>2. HistoryNumbers' /\ ThrottleKnows' /\ SamplesAreSpaced'
    BY <1>1, <2>1, NumbersKept, WriterAloneKeeps
  <2>3. HistoryTypes'
    BY <1>1, <1>2, <1>4, <1>9 DEF HistoryInv, HistoryTypes, WriterAlone
  <2>4. HistorySizes'
    <3>1. Cardinality(points) < HistoryBatchMax
      BY <1>4, <1>9, HistoryBounds
    <3> QED BY <1>1, <1>3, <1>4, <1>5, <1>9, <3>1 DEF HistorySizes, WriterAlone
  <2>5. WriterTurns' /\ CutoffIsPast'
    BY <1>1, <1>9 DEF HistoryInv, WriterTurns, CutoffIsPast, WriterAlone
  <2>6. NoneAstray'
    BY <1>1, <1>6, <1>7, <1>9 DEF HistoryInv, NoneAstray, Arrived1, WriterAlone
  <2> QED BY <2>2, <2>3, <2>4, <2>5, <2>6 DEF HistoryInv
<1> QED
  <2>1. \/ Flush(points, "write")
        \/ /\ historyBatch' = points /\ UNCHANGED <<writing, lastPruned, historyWriter>>
           /\ ~(Cardinality(points) >= HistoryBatchMax)
    BY <1>1 DEF points
  <2> QED BY <1>8, <1>9, <2>1

\* The batch is taken whole, by the timer or at the end.
LEMMA BatchTaken ==
  ASSUME HistoryInv, historyWriter = "receive", historyQueue = <<>>, NEW next,
         \/ next = "write"
         \/ next = "last write" /\ Closed,
         Flush(historyBatch, next), WriterAlone, UNCHANGED <<historyQueue, stored, lost>>
  PROVE  HistoryInv'
<1>1. /\ historyBatch' = {} /\ historyWriter' = next
      /\ writing' \in [points : SUBSET Samples, cutoff : Nat] /\ writing'.points = historyBatch
      /\ CutoffIsPast' /\ lastPruned' \in 0..MaxTime
  <2>1. historyBatch \in SUBSET Samples /\ now' = now
    BY HistoryFacts DEF WriterAlone
  <2> QED BY <2>1, FlushFacts
<1>2. HistoryNumbers' /\ ThrottleKnows' /\ SamplesAreSpaced'
  BY <1>1, NumbersKept, WriterAloneKeeps
<1>3. HistoryTypes'
  BY <1>1 DEF HistoryInv, HistoryTypes, WriterAlone
<1>4. HistorySizes'
  <2>1. IsFiniteSet(historyBatch') /\ Cardinality(historyBatch') < HistoryBatchMax
    BY <1>1, FS_EmptySet, HistoryBounds
  <2> QED BY <2>1 DEF HistoryInv, HistorySizes, WriterAlone
<1>5. WriterTurns'
  BY <1>1 DEF WriterTurns, WriterAlone, Closed
<1>6. NoneAstray'
  <2>1. writing.points = {}
    BY DEF HistoryInv, WriterTurns
  <2> QED BY <1>1, <2>1 DEF HistoryInv, NoneAstray, Arrived1, Queued, WriterAlone
<1> QED BY <1>1, <1>2, <1>3, <1>4, <1>5, <1>6 DEF HistoryInv

LEMMA DrainKeeps == HistoryInv /\ (FlushTimer \/ Drain) => HistoryInv'
<1> SUFFICES ASSUME HistoryInv, FlushTimer \/ Drain PROVE HistoryInv'
  OBVIOUS
<1>1. CASE FlushTimer
  BY <1>1, BatchTaken DEF FlushTimer, WriterAlone
<1>2. CASE Drain /\ historyBatch # {}
  <2>1. /\ Flush(historyBatch, "last write") /\ historyWriter = "receive" /\ Closed
        /\ WriterAlone /\ UNCHANGED <<historyQueue, stored, lost>> /\ historyQueue = <<>>
    BY <1>2 DEF Drain, WriterAlone, Closed
  <2> QED BY <2>1, BatchTaken
<1>3. CASE Drain /\ historyBatch = {}
  <2>1. /\ historyWriter = "receive" /\ Closed /\ historyWriter' = "exited" /\ WriterAlone
        /\ UNCHANGED <<historyQueue, stored, lost, historyBatch, writing, lastPruned>>
    BY <1>3 DEF Drain, WriterAlone
  <2>2. HistoryNumbers' /\ ThrottleKnows' /\ SamplesAreSpaced'
    <3>1. lastPruned' \in 0..MaxTime
      BY <2>1 DEF HistoryInv, HistoryNumbers
    <3> QED BY <2>1, <3>1, NumbersKept, WriterAloneKeeps
  <2>3. HistoryTypes' /\ HistorySizes'
    BY <2>1 DEF HistoryInv, HistoryTypes, HistorySizes, WriterAlone
  <2>4. WriterTurns'
    BY <1>3, <2>1 DEF HistoryInv, WriterTurns, WriterAlone, Closed
  <2>5. CutoffIsPast' /\ NoneAstray'
    BY <2>1 DEF HistoryInv, CutoffIsPast, NoneAstray, Arrived1, Queued, WriterAlone
  <2> QED BY <2>2, <2>3, <2>4, <2>5 DEF HistoryInv
<1> QED BY <1>1, <1>2, <1>3

LEMMA WriteEndsKeeps ==
  ASSUME HistoryInv, NEW ok \in BOOLEAN, WriteEnds(ok) PROVE HistoryInv'
<1>1. /\ historyWriter \in {"write", "last write"}
      /\ historyWriter' = IF historyWriter = "write" THEN "receive" ELSE "exited"
      /\ writing' = NoWrite
      /\ \/ /\ stored' = {p \in stored \cup writing.points : p.at >= writing.cutoff}
            /\ UNCHANGED lost
         \/ lost' = lost \cup writing.points /\ UNCHANGED stored
      /\ WriterAlone /\ UNCHANGED <<historyQueue, historyBatch, lastPruned>>
  BY DEF WriteEnds, WriterAlone
<1>2. /\ writing' \in [points : SUBSET Samples, cutoff : Nat]
      /\ writing'.points = {} /\ writing'.cutoff = 0
  BY <1>1 DEF NoWrite
<1>3. HistoryNumbers' /\ ThrottleKnows' /\ SamplesAreSpaced'
  <2>1. lastPruned' \in 0..MaxTime
    BY <1>1 DEF HistoryInv, HistoryNumbers
  <2> QED BY <1>1, <2>1, NumbersKept, WriterAloneKeeps
<1>4. HistoryTypes'
  <2>1. stored' \subseteq Samples /\ lost' \subseteq Samples
    BY <1>1, HistoryFacts
  <2> QED BY <1>1, <1>2, <2>1 DEF HistoryInv, HistoryTypes, WriterAlone
<1>5. HistorySizes' /\ CutoffIsPast'
  BY <1>1, <1>2 DEF HistoryInv, HistorySizes, CutoffIsPast, WriterAlone
<1>6. WriterTurns'
  BY <1>1, <1>2 DEF HistoryInv, WriterTurns, WriterAlone
<1>7. NoneAstray'
  <2> SUFFICES ASSUME NEW p \in accepted, Arrived1(p) PROVE Arrived1(p)'
    BY <1>1 DEF HistoryInv, NoneAstray, Queued, WriterAlone
  <2>1. CASE p \in lost \/ p \in historyBatch \/ p.at + Retention < now
    BY <1>1, <2>1 DEF Arrived1, WriterAlone
  <2>2. CASE p \in stored \/ p \in writing.points
    <3>1. CASE stored' = {q \in stored \cup writing.points : q.at >= writing.cutoff}
      <4>1. CASE p.at >= writing.cutoff
        BY <2>2, <3>1, <4>1 DEF Arrived1
      <4>2. CASE ~(p.at >= writing.cutoff)
        <5>1. p \in Samples /\ writing.cutoff \in Nat /\ now \in Nat
          BY HistoryFacts
        <5>2. p.at < writing.cutoff /\ p.at \in Nat
          BY <4>2, <5>1, SampleFields
        <5>3. writing.cutoff + Retention <= now
          BY <5>1, <5>2 DEF HistoryInv, CutoffIsPast
        <5>4. p.at + Retention < now
          BY <5>1, <5>2, <5>3, HistoryBounds
        <5> QED BY <1>1, <5>4 DEF Arrived1, WriterAlone
      <4> QED BY <4>1, <4>2
    <3>2. CASE lost' = lost \cup writing.points /\ UNCHANGED stored
      BY <2>2, <3>2 DEF Arrived1
    <3> QED BY <1>1, <3>1, <3>2
  <2> QED BY <2>1, <2>2 DEF Arrived1
<1> QED BY <1>3, <1>4, <1>5, <1>6, <1>7 DEF HistoryInv

LEMMA EnvironmentKeeps ==
  HistoryInv /\ (DropSender \/ ForgetMissing \/ Clock \/ UNCHANGED historyVars) => HistoryInv'
<1> SUFFICES ASSUME HistoryInv, DropSender \/ ForgetMissing \/ Clock \/ UNCHANGED historyVars
             PROVE  HistoryInv'
  OBVIOUS
<1>1. CASE DropSender
  <2>1. HistoryNumbers' /\ HistoryTypes'
    BY <1>1 DEF DropSender, HistoryInv, HistoryNumbers, HistoryTypes
  <2>2. HistorySizes' /\ WriterTurns'
    BY <1>1 DEF DropSender, HistoryInv, HistorySizes, WriterTurns
  <2>3. CutoffIsPast' /\ ThrottleKnows' /\ SamplesAreSpaced' /\ NoneAstray'
    BY <1>1 DEF DropSender, HistoryInv, CutoffIsPast, ThrottleKnows, SamplesAreSpaced,
                NoneAstray, Arrived1, Queued
  <2> QED BY <2>1, <2>2, <2>3 DEF HistoryInv
<1>2. CASE ForgetMissing
  <2>1. HistoryNumbers'
    BY <1>2, HistoryBounds DEF ForgetMissing, HistoryInv, HistoryNumbers
  <2>2. HistoryTypes' /\ HistorySizes' /\ WriterTurns'
    BY <1>2 DEF ForgetMissing, HistoryInv, HistoryTypes, HistorySizes, WriterTurns
  <2>3. ThrottleKnows'
    <3>1. \A p \in accepted : p.since <= forgets /\ p.since \in Nat
      BY HistoryFacts, SampleFields DEF HistoryInv, ThrottleKnows
    <3>2. forgets' = forgets + 1 /\ accepted' = accepted /\ forgets \in Nat
      BY <1>2, HistoryFacts DEF ForgetMissing
    <3>3. \A p \in accepted' : p.since <= forgets' /\ p.since # forgets'
      BY <3>1, <3>2
    <3> QED BY <3>3 DEF ThrottleKnows
  <2>4. CutoffIsPast' /\ SamplesAreSpaced' /\ NoneAstray'
    BY <1>2 DEF ForgetMissing, HistoryInv, CutoffIsPast, SamplesAreSpaced, NoneAstray,
                Arrived1, Queued
  <2> QED BY <2>1, <2>2, <2>3, <2>4 DEF HistoryInv
<1>3. CASE Clock
  <2>1. HistoryNumbers'
    BY <1>3, HistoryBounds DEF Clock, HistoryInv, HistoryNumbers
  <2>2. HistoryTypes' /\ HistorySizes' /\ WriterTurns' /\ ThrottleKnows' /\ SamplesAreSpaced'
    BY <1>3 DEF Clock, HistoryInv, HistoryTypes, HistorySizes, WriterTurns, ThrottleKnows,
                SamplesAreSpaced
  <2>3. now' = now + 1 /\ now \in Nat /\ UNCHANGED writing /\ writing.cutoff \in Nat
    BY <1>3, HistoryFacts DEF Clock
  <2>4. CutoffIsPast'
    BY <2>3, HistoryBounds DEF HistoryInv, CutoffIsPast
  <2>5. \A p \in accepted : p.at + Retention < now => p.at + Retention < now'
    <3> SUFFICES ASSUME NEW p \in accepted, p.at + Retention < now
                 PROVE  p.at + Retention < now'
      OBVIOUS
    <3>1. p.at \in Nat
      BY HistoryFacts, SampleFields
    <3> QED BY <2>3, <3>1, HistoryBounds
  <2>6. NoneAstray'
    BY <1>3, <2>5 DEF Clock, HistoryInv, NoneAstray, Arrived1, Queued
  <2> QED BY <2>1, <2>2, <2>4, <2>6 DEF HistoryInv
<1>4. CASE UNCHANGED historyVars
  BY <1>4 DEF historyVars, HistoryInv, HistoryNumbers, HistoryTypes, HistorySizes, CutoffIsPast,
              WriterTurns, ThrottleKnows, SamplesAreSpaced, NoneAstray, Arrived1, Queued
<1> QED BY <1>1, <1>2, <1>3, <1>4

LEMMA StepHistory == HistoryInv /\ [HistoryNext]_historyVars => HistoryInv'
BY BeginRecordKeeps, OfferKeeps, ReceiveKeeps, DrainKeeps, WriteEndsKeeps, EnvironmentKeeps
  DEF HistoryNext, WriterStep

LEMMA HistoryDrained == HistoryInv => HistoryDrainLosesNothing
BY DEF HistoryInv, HistoryDrainLosesNothing, WriterTurns, NoneAstray, Arrived1, Queued

LEMMA HistoryTyped == HistoryInv => HistoryTypeOK
<1> SUFFICES ASSUME HistoryInv PROVE HistoryTypeOK
  OBVIOUS
<1>1. HistoryNumbers /\ HistoryTypes /\ HistorySizes
  BY DEF HistoryInv
<1>2. {stored, accepted, lost} \subseteq SUBSET Samples
  BY <1>1 DEF HistoryTypes
<1> QED BY <1>1, <1>2, Zenon DEF HistoryNumbers, HistoryTypes, HistorySizes, HistoryTypeOK

(***************************************************************************)
(* What a query shows.                                                     *)
(***************************************************************************)

LEMMA MaxOf ==
  \A a, b \in Int : Max({a, b}) \in {a, b} /\ a <= Max({a, b}) /\ b <= Max({a, b})
<1> SUFFICES ASSUME NEW a \in Int, NEW b \in Int
             PROVE  Max({a, b}) \in {a, b} /\ a <= Max({a, b}) /\ b <= Max({a, b})
  OBVIOUS
<1>1. \E x \in {a, b} : \A y \in {a, b} : x >= y
  BY a <= b \/ b <= a
<1>2. Max({a, b}) \in {a, b} /\ \A y \in {a, b} : Max({a, b}) >= y
  BY <1>1 DEF Max
<1> QED BY <1>2

LEMMA Quotient ==
  ASSUME NEW x \in Nat, NEW d \in Nat, d > 0
  PROVE  x \div d \in Nat /\ d * (x \div d) <= x /\ x < d * (x \div d) + d
OBVIOUS

\* The buckets of an interval are as many as max at most.
LEMMA BucketsSuffice ==
  ASSUME NEW since \in Nat, NEW until \in Nat, since < until, NEW max \in 1..2,
         NEW at \in Nat, since <= at, at < until
  PROVE  /\ BucketSeconds(since, until, max) \in Nat
         /\ BucketSeconds(since, until, max) > 0
         /\ (at - since) \div BucketSeconds(since, until, max) \in 0..max - 1
<1> DEFINE span == until - since
           width == BucketSeconds(since, until, max)
           wide == (span + max - 1) \div max
           back == at - since
<1>1. span \in Nat /\ span >= 1 /\ back \in Nat /\ back < span /\ max \in {1, 2}
  OBVIOUS
<1>2. Max({1, until - since}) = span
  <2>1. Max({1, span}) \in {1, span} /\ 1 <= Max({1, span}) /\ span <= Max({1, span})
    BY <1>1, MaxOf
  <2> QED BY <1>1, <2>1
<1>3. width = Max({1, wide})
  BY <1>2 DEF BucketSeconds
<1> HIDE DEF span, back
<1>4. wide \in Nat /\ wide >= 1 /\ span <= wide * max
  <2>1. CASE max = 1
    BY <1>1, <2>1
  <2>2. CASE max = 2
    BY <1>1, <2>2
  <2> QED BY <1>1, <2>1, <2>2
<1> HIDE DEF wide
<1>5. width = wide
  <2>1. Max({1, wide}) \in {1, wide} /\ 1 <= Max({1, wide}) /\ wide <= Max({1, wide})
    BY <1>4, MaxOf
  <2> QED BY <1>3, <1>4, <2>1
<1> HIDE DEF width
<1>6. back \div width \in Nat /\ width * (back \div width) <= back
  BY <1>1, <1>4, <1>5, Quotient
<1>7. back \div width < max
  <2> DEFINE b == back \div width
  <2> SUFFICES b < max
    OBVIOUS
  <2>1. b \in Nat /\ width * b <= back
    BY <1>6
  <2> HIDE DEF b
  <2>2. CASE max = 1
    <3>1. width * b < width
      BY <1>1, <1>4, <1>5, <2>1, <2>2
    <3> QED BY <1>4, <1>5, <2>1, <2>2, <3>1
  <2>3. CASE max = 2
    <3>1. width * b < width + width
      BY <1>1, <1>4, <1>5, <2>1, <2>3
    <3>2. b >= 2 => width * b >= width * 2
      BY <1>4, <1>5, <2>1
    <3> QED BY <1>4, <1>5, <2>1, <2>3, <3>1, <3>2
  <2> QED BY <1>1, <2>2, <2>3
<1> QED BY <1>1, <1>4, <1>5, <1>6, <1>7 DEF width, back

LEMMA QueriesShow == HistoryInv => QueryShowsEverything
<1> SUFFICES ASSUME HistoryInv, NEW since \in 1..now, NEW until \in 1..now, NEW max \in 1..2,
                    since < until, NEW p \in InRange(since, until), p.at < until
             PROVE  p \in Represented(since, until, max)
  BY DEF QueryShowsEverything
<1>1. now \in Nat /\ since \in Nat /\ until \in Nat
  BY HistoryFacts
<1>2. \A q \in InRange(since, until) : q.at \in Nat /\ since <= q.at
  BY <1>1, HistoryFacts, SampleFields DEF InRange
<1> DEFINE B(q) == Bucket(q, since, until, max)
           older == {B(q) : q \in {q \in InRange(since, until) : B(q) < B(p)}}
<1>3. B(p) \in 0..max - 1 /\ \A q \in InRange(since, until) : B(q) \in Nat
  <2>1. /\ BucketSeconds(since, until, max) \in Nat /\ BucketSeconds(since, until, max) > 0
        /\ (p.at - since) \div BucketSeconds(since, until, max) \in 0..max - 1
    BY <1>1, <1>2, BucketsSuffice
  <2>2. \A q \in InRange(since, until) : q.at - since \in Nat
    BY <1>1, <1>2
  <2>3. \A q \in InRange(since, until) :
          (q.at - since) \div BucketSeconds(since, until, max) \in Nat
    BY <2>1, <2>2, Quotient
  <2> QED BY <2>1, <2>3 DEF Bucket
<1> HIDE DEF B
<1>4. older \subseteq 0..B(p) - 1
  BY <1>3
<1> HIDE DEF older
<1>5. IsFiniteSet(0..B(p) - 1) /\ Cardinality(0..B(p) - 1) = B(p)
  <2> DEFINE b == B(p)
             last == b - 1
  <2>1. b \in Nat /\ last \in Int /\ 0 \in Int /\ last = b - 1
    BY <1>3
  <2> HIDE DEF b, last
  <2>2. IsFiniteSet(0..last) /\ Cardinality(0..last) = IF 0 > last THEN 0 ELSE last - 0 + 1
    BY <2>1, FS_Interval
  <2>3. Cardinality(0..last) = b
    BY <2>1, <2>2
  <2> QED BY <2>2, <2>3 DEF b, last
<1>6. Cardinality(older) <= B(p) /\ Cardinality(older) \in Nat
  <2>1. IsFiniteSet(older) /\ Cardinality(older) <= Cardinality(0..B(p) - 1)
    BY <1>4, <1>5, FS_Subset
  <2>2. Cardinality(older) \in Nat
    BY <2>1, FS_CardinalityType
  <2> QED BY <1>5, <2>1, <2>2
<1>7. Cardinality(older) < max
  BY <1>3, <1>6
<1> QED BY <1>7 DEF Represented, older, B

(***************************************************************************)
(* The budget of the agent logs.                                           *)
(***************************************************************************)

Evicting == {"recheck", "scan", "pop", "popped"}
ShipRecords == [step : ShipSteps, node : LogNodes, left : 0..MaxBatch,
                sequence : 0..MaxSequence, discount : Nat]
ScanRecords == [shard : 1..Shards + 1, node : 0..Shards, sequence : 0..MaxSequence]

\* What a session has counted and not inserted yet, or removed and not discounted yet.
Owes(work) == IF work.step \in {"insert", "popped"} THEN 1
              ELSE IF work.step = "discount" THEN work.discount ELSE 0
Debts == [s \in Shippers |-> Owes(ship[s])]
Debt == Sum(Debts, Shippers)

LogNumbers ==
  /\ total \in Nat /\ forgotten \in Nat /\ nextSequence \in 0..MaxSequence
  /\ logs \in [LogNodes -> Seq(0..MaxSequence)]
  /\ \A n \in LogNodes : Len(logs[n]) <= MaxPerNode

ShipTypes ==
  /\ ship \in [Shippers -> ShipRecords] /\ scan \in ScanRecords
  /\ evictor \in Shippers \cup {0}

\* The counter differs from the entries by what is owed to it.
Counted == total = Entries + Debt + forgotten

\* The lock of the eviction is held by the one session that evicts.
OneEvictor ==
  \A s \in Shippers : ship[s].step \in Evicting <=> evictor = s

PopHasNode == \A s \in Shippers : At(s, "pop") => scan.node \in LogNodes

\* A scan that has found nothing so far: the shards behind it are empty, or somebody
\* who is still at work has filled them, or did and then found the budget kept.
ScanTells ==
  \A s \in Shippers :
    At(s, "scan") /\ scan.node = 0 /\ (\A r \in Shippers \ {s} : At(r, "idle")) =>
      \/ total <= MaxTotal + forgotten
      \/ \A n \in LogNodes : n < scan.shard => logs[n] = <<>>

BudgetKept == (\A s \in Shippers : At(s, "idle")) => total <= MaxTotal + forgotten

\* The inductive invariant.  That the counter is exact in the end needs to know what
\* everybody owes it; that it is within the budget needs the eviction that finds
\* nothing to evict to be told apart from one that has come too early.
LogInv ==
  /\ LogNumbers /\ ShipTypes /\ Counted /\ OneEvictor /\ PopHasNode
  /\ ScanTells /\ BudgetKept

LEMMA LogBounds ==
  /\ Shards \in Nat /\ Shards > 0 /\ MaxBatch \in Nat /\ MaxBatch > 0
  /\ MaxPerNode \in Nat /\ MaxPerNode > 0 /\ MaxTotal \in Nat /\ MaxTotal > 0
  /\ MaxSequence \in Nat /\ IsFiniteSet(Shippers) /\ 0 \notin Shippers
BY LogAssumption

LEMMA LogNodesFinite == IsFiniteSet(LogNodes)
BY LogBounds, FS_Interval DEF LogNodes

Kept == [n \in LogNodes |-> Len(logs[n])]

LEMMA EntriesAre == Entries = Sum(Kept, LogNodes) /\ Entries' = Sum(Kept', LogNodes)
<1>1. Entries = Sum(Kept, LogNodes)
  BY Zenon DEF Entries, Sum, Kept
<1>2. Entries' = Sum(Kept', LogNodes)
  BY Zenon DEF Entries, Sum, Kept, MapThenSumSet, MapThenFoldSet
<1> QED BY <1>1, <1>2

LEMMA OwesNat == \A work \in ShipRecords : Owes(work) \in Nat
BY DEF ShipRecords, Owes

LEMMA LogFacts ==
  ASSUME LogNumbers, ShipTypes
  PROVE  /\ total \in Nat /\ forgotten \in Nat /\ nextSequence \in Nat
         /\ Entries \in Nat /\ Debt \in Nat
         /\ Kept \in [LogNodes -> Nat] /\ Debts \in [Shippers -> Nat]
         /\ \A s \in Shippers : ship[s] \in ShipRecords /\ Owes(ship[s]) \in Nat
                                /\ Owes(ship[s]) <= Debt
<1>1. \A s \in Shippers : ship[s] \in ShipRecords /\ Owes(ship[s]) \in Nat
  BY OwesNat DEF ShipTypes
<1>2. Debts \in [Shippers -> Nat]
  BY <1>1 DEF Debts
<1>3. Kept \in [LogNodes -> Nat]
  <2>1. \A n \in LogNodes : logs[n] \in Seq(0..MaxSequence)
    BY DEF LogNumbers
  <2>2. \A n \in LogNodes : Len(logs[n]) \in Nat
    BY <2>1
  <2> QED BY <2>2 DEF Kept
<1>4. Debt \in Nat /\ \A s \in Shippers : Debts[s] <= Debt
  BY <1>2, LogBounds, SumNat DEF Debt
<1>5. Entries \in Nat
  BY <1>3, LogNodesFinite, EntriesAre, SumNat
<1>6. total \in Nat /\ forgotten \in Nat /\ nextSequence \in Nat
  BY LogBounds DEF LogNumbers
<1>7. \A s \in Shippers : Owes(ship[s]) <= Debt
  BY <1>4 DEF Debts
<1> QED BY <1>1, <1>2, <1>3, <1>4, <1>5, <1>6, <1>7

\* A step of one session.
Works(s, work) == ship' = [ship EXCEPT ![s] = work]

LEMMA ShipMoves ==
  ASSUME LogNumbers, ShipTypes, NEW s \in Shippers, NEW work \in ShipRecords, Works(s, work)
  PROVE  /\ ship' \in [Shippers -> ShipRecords]
         /\ ship'[s] = work /\ \A r \in Shippers : r # s => ship'[r] = ship[r]
         /\ Debt' = Debt + Owes(work) - Owes(ship[s])
<1>1. ship \in [Shippers -> ShipRecords]
  BY DEF ShipTypes
<1>2. ship' \in [Shippers -> ShipRecords] /\ ship'[s] = work
      /\ \A r \in Shippers : r # s => ship'[r] = ship[r]
  BY <1>1 DEF Works
<1>3. Debts \in [Shippers -> Int] /\ Debts' \in [Shippers -> Int]
  <2>1. Debts \in [Shippers -> Nat]
    BY LogFacts
  <2>2. \A r \in Shippers : Owes(ship'[r]) \in Nat
    BY <1>2, OwesNat
  <2>3. Debts' \in [Shippers -> Nat]
    BY <2>2 DEF Debts
  <2> QED BY <2>1, <2>3
<1>4. /\ Debts[s] = Owes(ship[s]) /\ Debts'[s] = Owes(work)
      /\ \A r \in Shippers \ {s} : Debts'[r] = Debts[r]
  BY <1>2 DEF Debts
<1>5. Sum(Debts', Shippers) = Sum(Debts, Shippers) + Debts'[s] - Debts[s]
  BY <1>3, <1>4, LogBounds, SumChange
<1> QED BY <1>2, <1>4, <1>5 DEF Debt

\* What the steps write.
LEMMA StepIs ==
  ASSUME ShipTypes, NEW s \in Shippers, NEW step \in ShipSteps, Move(s, step)
  PROVE  \E work \in ShipRecords :
           Works(s, work) /\ work.step = step /\ work.discount = ship[s].discount
<1> DEFINE work == [ship[s] EXCEPT !.step = step]
<1>1. ship \in [Shippers -> ShipRecords]
  BY DEF ShipTypes
<1>2. ship' = [ship EXCEPT ![s] = work]
  BY <1>1 DEF Move, ShipRecords
<1>3. work \in ShipRecords /\ work.step = step /\ work.discount = ship[s].discount
  BY <1>1 DEF ShipRecords
<1> HIDE DEF work
<1> QED BY <1>2, <1>3 DEF Works

Discounts(s, step, x) == ship' = [ship EXCEPT ![s].step = step, ![s].discount = x]

LEMMA DiscountIs ==
  ASSUME ShipTypes, NEW s \in Shippers, NEW step \in ShipSteps, NEW x \in Nat,
         Discounts(s, step, x)
  PROVE  \E work \in ShipRecords : Works(s, work) /\ work.step = step /\ work.discount = x
<1> DEFINE work == [ship[s] EXCEPT !.step = step, !.discount = x]
<1>1. ship \in [Shippers -> ShipRecords]
  BY DEF ShipTypes
<1>2. ship' = [ship EXCEPT ![s] = work]
  BY <1>1 DEF ShipRecords, Discounts
<1>3. work \in ShipRecords /\ work.step = step /\ work.discount = x
  BY <1>1 DEF ShipRecords
<1> HIDE DEF work
<1> QED BY <1>2, <1>3 DEF Works

LEMMA ShipRests == UNCHANGED ship => Debt' = Debt
BY DEF Debt, Debts

LEMMA LogsRest == UNCHANGED logs => Entries' = Entries
<1> SUFFICES ASSUME UNCHANGED logs PROVE Entries' = Entries
  OBVIOUS
<1>1. Kept' = Kept
  BY DEF Kept
<1> QED BY <1>1, EntriesAre

\* A change of one buffer.
LEMMA BufferMoves ==
  ASSUME LogNumbers, ShipTypes, NEW n \in LogNodes, NEW s \in Seq(0..MaxSequence), Len(s) <= MaxPerNode,
         logs' = [logs EXCEPT ![n] = s]
  PROVE  /\ logs' \in [LogNodes -> Seq(0..MaxSequence)]
         /\ \A m \in LogNodes : Len(logs'[m]) <= MaxPerNode
         /\ logs'[n] = s /\ \A m \in LogNodes : m # n => logs'[m] = logs[m]
         /\ Entries' = Entries + Len(s) - Len(logs[n])
<1>1. logs \in [LogNodes -> Seq(0..MaxSequence)]
  BY DEF LogNumbers
<1>2. logs' \in [LogNodes -> Seq(0..MaxSequence)] /\ logs'[n] = s
      /\ \A m \in LogNodes : m # n => logs'[m] = logs[m]
  BY <1>1
<1>3. \A m \in LogNodes : Len(logs'[m]) <= MaxPerNode
  BY <1>2 DEF LogNumbers
<1>4. Kept \in [LogNodes -> Int] /\ Kept' \in [LogNodes -> Int]
  <2>1. Kept \in [LogNodes -> Nat]
    BY LogFacts
  <2>2. \A m \in LogNodes : logs'[m] \in Seq(0..MaxSequence)
    BY <1>2
  <2>3. \A m \in LogNodes : Len(logs'[m]) \in Nat
    BY <2>2
  <2>4. Kept' \in [LogNodes -> Nat]
    BY <2>3 DEF Kept
  <2> QED BY <2>1, <2>4
<1>5. /\ Kept[n] = Len(logs[n]) /\ Kept'[n] = Len(s)
      /\ \A m \in LogNodes \ {n} : Kept'[m] = Kept[m]
  BY <1>2 DEF Kept
<1>6. Sum(Kept', LogNodes) = Sum(Kept, LogNodes) + Kept'[n] - Kept[n]
  BY <1>4, <1>5, LogNodesFinite, SumChange
<1> QED BY <1>2, <1>3, <1>5, <1>6, EntriesAre

LEMMA InitLogs == LogInit => LogInv
<1> SUFFICES ASSUME LogInit PROVE LogInv
  OBVIOUS
<1>1. total = 0 /\ forgotten = 0 /\ nextSequence = 0
      /\ logs = [n \in LogNodes |-> <<>>] /\ ship = [s \in Shippers |-> Idle]
      /\ scan = NoScan /\ evictor = 0
  BY DEF LogInit
<1>2. LogNumbers
  <2>1. logs \in [LogNodes -> Seq(0..MaxSequence)]
    BY <1>1
  <2>2. \A n \in LogNodes : Len(logs[n]) <= MaxPerNode
    BY <1>1, LogBounds
  <2>3. 0 \in 0..MaxSequence
    BY LogBounds
  <2> QED BY <1>1, <2>1, <2>2, <2>3 DEF LogNumbers
<1>3. Idle \in ShipRecords /\ Idle.step = "idle"
  <2>1. 0 \in 0..MaxSequence /\ 0 \in 0..MaxBatch /\ 1 \in LogNodes
    BY LogBounds DEF LogNodes
  <2> QED BY <2>1 DEF Idle, ShipRecords, ShipSteps
<1>4. NoScan \in ScanRecords
  <2>1. 0 \in 0..MaxSequence /\ 0 \in 0..Shards /\ 1 \in 1..Shards + 1
    BY LogBounds
  <2> QED BY <2>1 DEF NoScan, ScanRecords
<1>5. ShipTypes
  BY <1>1, <1>3, <1>4 DEF ShipTypes
<1>6. Counted
  <2>1. Debt = 0
    <3>1. Debts \in [Shippers -> Nat] /\ \A s \in Shippers : Debts[s] = 0
      BY <1>1, <1>3 DEF Debts, Owes
    <3> QED BY <3>1, LogBounds, SumNat DEF Debt
  <2>2. Entries = 0
    <3>1. Kept \in [LogNodes -> Nat] /\ \A n \in LogNodes : Kept[n] = 0
      BY <1>1 DEF Kept
    <3> QED BY <3>1, LogNodesFinite, EntriesAre, SumNat
  <2> QED BY <1>1, <2>1, <2>2 DEF Counted
<1>7. OneEvictor /\ PopHasNode /\ ScanTells
  BY <1>1, <1>3, LogBounds DEF OneEvictor, Evicting, PopHasNode, ScanTells, At
<1>8. BudgetKept
  BY <1>1, LogBounds DEF BudgetKept
<1> QED BY <1>2, <1>5, <1>6, <1>7, <1>8 DEF LogInv

(***************************************************************************)
(* The pushes.                                                             *)
(***************************************************************************)

\* A session that does not evict, before and after, and is not done: the others need
\* not know.
LEMMA PushingKeeps ==
  ASSUME LogInv, NEW s \in Shippers, NEW work \in ShipRecords, Works(s, work),
         ship[s].step \notin Evicting, work.step \notin Evicting, work.step # "idle",
         UNCHANGED <<evictor, scan>>
  PROVE  ShipTypes' /\ OneEvictor' /\ PopHasNode' /\ ScanTells' /\ BudgetKept'
<1>1. /\ ship' \in [Shippers -> ShipRecords]
      /\ ship'[s] = work /\ \A r \in Shippers : r # s => ship'[r] = ship[r]
  BY ShipMoves DEF LogInv
<1>2. ShipTypes'
  BY <1>1 DEF LogInv, ShipTypes
<1>3. OneEvictor'
  BY <1>1 DEF LogInv, OneEvictor
<1>4. PopHasNode'
  BY <1>1 DEF LogInv, PopHasNode, At, Evicting
<1>5. ~At(s, "idle")' /\ ~At(s, "scan")'
  BY <1>1 DEF At, Evicting
<1>6. ScanTells' /\ BudgetKept'
  BY <1>5 DEF ScanTells, BudgetKept
<1> QED BY <1>2, <1>3, <1>4, <1>6

LEMMA BeginBatchKeeps ==
  ASSUME LogInv, NEW s \in Shippers, BeginBatch(s) PROVE LogInv'
<1>1. PICK n \in LogNodes, k \in 1..MaxBatch :
        ship' = [ship EXCEPT ![s] = [Idle EXCEPT !.step = "count", !.node = n, !.left = k]]
  BY DEF BeginBatch
<1> DEFINE work == [Idle EXCEPT !.step = "count", !.node = n, !.left = k]
<1>3. work \in ShipRecords
  <2>1. 0 \in 0..MaxSequence /\ k \in 0..MaxBatch
    BY LogBounds
  <2> QED BY <2>1 DEF Idle, ShipRecords, ShipSteps
<1>4. work.step = "count" /\ Owes(work) = 0
  BY DEF Owes, Idle
<1> HIDE DEF work
<1>5. Works(s, work)
  BY <1>1 DEF Works, work
<1>6. ship[s].step = "idle" /\ UNCHANGED <<logs, total, nextSequence, evictor, scan, forgotten>>
  BY DEF BeginBatch, At
<1>7. ShipTypes' /\ OneEvictor' /\ PopHasNode' /\ ScanTells' /\ BudgetKept'
  BY <1>3, <1>4, <1>5, <1>6, PushingKeeps DEF Evicting
<1>8. LogNumbers'
  BY <1>6 DEF LogInv, LogNumbers
<1>9. Counted'
  <2>1. Debt' = Debt + Owes(work) - Owes(ship[s])
    BY <1>3, <1>5, ShipMoves DEF LogInv
  <2>2. Owes(ship[s]) = 0
    BY <1>6 DEF Owes
  <2>3. Entries' = Entries /\ Debt \in Nat
    BY <1>6, LogsRest, LogFacts DEF LogInv
  <2> QED BY <1>4, <1>6, <2>1, <2>2, <2>3 DEF LogInv, Counted
<1> QED BY <1>7, <1>8, <1>9 DEF LogInv

LEMMA CountEntryKeeps ==
  ASSUME LogInv, NEW s \in Shippers, CountEntry(s) PROVE LogInv'
<1> DEFINE old == ship[s]
           work == [step |-> "insert", node |-> old.node, left |-> old.left - 1,
                    sequence |-> nextSequence, discount |-> old.discount]
<1>1. /\ old.step = "count" /\ old.left > 0 /\ nextSequence < MaxSequence
      /\ nextSequence' = nextSequence + 1 /\ total' = total + 1
      /\ ship' = [ship EXCEPT ![s].step = "insert", ![s].sequence = nextSequence,
                              ![s].left = @ - 1]
      /\ UNCHANGED <<logs, evictor, scan, forgotten>>
  BY DEF CountEntry, At
<1>2. ship \in [Shippers -> ShipRecords] /\ old \in ShipRecords
  BY DEF LogInv, ShipTypes
<1>3. Works(s, work)
  BY <1>1, <1>2 DEF Works, ShipRecords
<1>4. nextSequence \in 0..MaxSequence /\ nextSequence' \in 0..MaxSequence
  <2>1. nextSequence \in 0..MaxSequence
    BY DEF LogInv, LogNumbers
  <2> QED BY <1>1, <2>1, LogBounds
<1>5. work \in ShipRecords
  <2>1. old.left - 1 \in 0..MaxBatch
    <3>1. old.left \in 0..MaxBatch
      BY <1>2 DEF ShipRecords
    <3> QED BY <1>1, <3>1, LogBounds
  <2>2. old.node \in LogNodes /\ old.discount \in Nat
    BY <1>2 DEF ShipRecords
  <2> HIDE DEF old
  <2> QED BY <1>4, <2>1, <2>2 DEF ShipRecords, ShipSteps
<1>6. work.step = "insert" /\ Owes(work) = 1 /\ Owes(old) = 0
  BY <1>1 DEF Owes
<1> HIDE DEF work
<1>7. ShipTypes' /\ OneEvictor' /\ PopHasNode' /\ ScanTells' /\ BudgetKept'
  BY <1>1, <1>3, <1>5, <1>6, PushingKeeps DEF Evicting
<1>8. total' \in Nat
  BY <1>1, LogFacts DEF LogInv
<1>9. LogNumbers'
  BY <1>1, <1>4, <1>8 DEF LogInv, LogNumbers
<1>10. Counted'
  <2>1. Debt' = Debt + 1 - 0
    BY <1>3, <1>5, <1>6, ShipMoves DEF LogInv
  <2>2. Entries' = Entries /\ Debt \in Nat /\ Entries \in Nat /\ forgotten \in Nat /\ total \in Nat
    BY <1>1, LogsRest, LogFacts DEF LogInv
  <2>3. total = Entries + Debt + forgotten
    BY DEF LogInv, Counted
  <2>4. total' = Entries' + Debt' + forgotten'
    BY <1>1, <2>1, <2>2, <2>3
  <2> QED BY <2>4 DEF Counted
<1> QED BY <1>7, <1>9, <1>10 DEF LogInv

LEMMA InsertEntryKeeps ==
  ASSUME LogInv, NEW s \in Shippers, InsertEntry(s) PROVE LogInv'
<1> DEFINE old == ship[s]
           n == old.node
           longer == Append(logs[n], old.sequence)
           excess == IF Len(longer) > MaxPerNode THEN Len(longer) - MaxPerNode ELSE 0
           cut == SubSeq(longer, excess + 1, Len(longer))
<1>1. /\ old.step = "insert" /\ logs' = [logs EXCEPT ![n] = cut]
      /\ ship' = [ship EXCEPT ![s].step = "discount", ![s].discount = excess]
      /\ UNCHANGED <<total, nextSequence, evictor, scan, forgotten>>
  BY DEF InsertEntry, At
<1>2. ship \in [Shippers -> ShipRecords] /\ old \in ShipRecords
  BY DEF LogInv, ShipTypes
<1>3. n \in LogNodes /\ old.sequence \in 0..MaxSequence /\ old.left \in 0..MaxBatch
  BY <1>2 DEF ShipRecords
<1>4. logs[n] \in Seq(0..MaxSequence) /\ Len(logs[n]) <= MaxPerNode /\ Len(logs[n]) \in Nat
  <2>1. logs[n] \in Seq(0..MaxSequence) /\ Len(logs[n]) <= MaxPerNode
    BY <1>3 DEF LogInv, LogNumbers
  <2> QED BY <2>1
<1>5. longer \in Seq(0..MaxSequence) /\ Len(longer) = Len(logs[n]) + 1
  BY <1>3, <1>4
<1> HIDE DEF old, longer, n
<1>7. excess \in 0..1 /\ Len(longer) - excess <= MaxPerNode
  BY <1>4, <1>5, LogBounds
<1>8. excess \in Nat /\ excess + 1 >= 1 /\ excess + 1 <= Len(longer) + 1 /\ Len(longer) \in Nat
  BY <1>4, <1>5, <1>7
<1> HIDE DEF excess
<1>9. cut \in Seq(0..MaxSequence) /\ Len(cut) = Len(longer) - excess
  <2>1. excess + 1 \in 1..Len(longer) + 1
    BY <1>8
  <2>2. /\ excess + 1 \in Int /\ Len(longer) \in Int
        /\ \A i \in excess + 1..Len(longer) : longer[i] \in 0..MaxSequence
    <3>1. \A i \in excess + 1..Len(longer) : i \in 1..Len(longer)
      BY <1>8
    <3>2. \A i \in 1..Len(longer) : longer[i] \in 0..MaxSequence
      BY <1>5, ElementOfSeq
    <3> QED BY <1>8, <3>1, <3>2
  <2>3. cut \in Seq(0..MaxSequence)
        /\ Len(cut) = IF excess + 1 <= Len(longer) THEN Len(longer) - (excess + 1) + 1 ELSE 0
    BY <2>2, SubSeqProperties
  <2> QED BY <1>8, <2>3
<1>10. PICK work \in ShipRecords : Works(s, work) /\ work.step = "discount" /\ work.discount = excess
  <2>1. "discount" \in ShipSteps /\ ShipTypes
    BY DEF ShipSteps, LogInv
  <2>2. Discounts(s, "discount", excess)
    BY <1>1 DEF Discounts
  <2> QED BY <1>8, <2>1, <2>2, DiscountIs
<1>11. Owes(work) = excess /\ Owes(old) = 1
  BY <1>1, <1>10 DEF Owes
<1> HIDE DEF cut
<1>12. Len(cut) <= MaxPerNode
  BY <1>7, <1>9
<1>13. /\ logs' \in [LogNodes -> Seq(0..MaxSequence)]
       /\ \A m \in LogNodes : Len(logs'[m]) <= MaxPerNode
       /\ Entries' = Entries + Len(cut) - Len(logs[n])
  BY <1>1, <1>3, <1>9, <1>12, BufferMoves DEF LogInv
<1>14. ShipTypes' /\ OneEvictor' /\ PopHasNode' /\ ScanTells' /\ BudgetKept'
  BY <1>1, <1>10, <1>11, PushingKeeps DEF Evicting, old
<1>15. LogNumbers'
  BY <1>1, <1>13 DEF LogInv, LogNumbers
<1>16. Counted'
  <2>1. Debt' = Debt + excess - 1
    BY <1>10, <1>11, ShipMoves DEF LogInv, old
  <2>2. Debt \in Nat /\ Entries \in Nat /\ forgotten \in Nat /\ total \in Nat
    BY LogFacts DEF LogInv
  <2>3. total = Entries + Debt + forgotten
    BY DEF LogInv, Counted
  <2>4. total' = Entries' + Debt' + forgotten'
    <3> DEFINE c == Len(cut)
               l == Len(logs[n])
               g == Len(longer)
    <3>1. /\ c = g - excess /\ g = l + 1 /\ l \in Nat /\ g \in Nat
          /\ Entries' = Entries + c - l /\ total' = total /\ forgotten' = forgotten
      BY <1>1, <1>4, <1>5, <1>8, <1>9, <1>13
    <3>2. excess \in Nat /\ excess <= g
      BY <1>5, <1>8
    <3> HIDE DEF c, l, g
    <3>3. Entries' = Entries + 1 - excess
      BY <2>2, <3>1, <3>2
    <3> QED BY <2>1, <2>2, <2>3, <3>1, <3>2, <3>3
  <2> QED BY <2>4 DEF Counted
<1> QED BY <1>14, <1>15, <1>16 DEF LogInv

LEMMA DiscountEntriesKeeps ==
  ASSUME LogInv, NEW s \in Shippers, DiscountEntries(s) PROVE LogInv'
<1> DEFINE old == ship[s]
<1>1. /\ old.step = "discount" /\ total' = total - old.discount
      /\ ship' = [ship EXCEPT ![s].step = "count", ![s].discount = 0]
      /\ UNCHANGED <<logs, nextSequence, evictor, scan, forgotten>>
  BY DEF DiscountEntries, At
<1>2. ship \in [Shippers -> ShipRecords] /\ old \in ShipRecords
  BY DEF LogInv, ShipTypes
<1>3. PICK work \in ShipRecords : Works(s, work) /\ work.step = "count" /\ work.discount = 0
  <2>1. "count" \in ShipSteps /\ ShipTypes /\ 0 \in Nat
    BY DEF ShipSteps, LogInv
  <2>2. Discounts(s, "count", 0)
    BY <1>1 DEF Discounts
  <2> QED BY <2>1, <2>2, DiscountIs
<1>4. Owes(work) = 0 /\ Owes(old) = old.discount
  BY <1>1, <1>3 DEF Owes
<1>5. ShipTypes' /\ OneEvictor' /\ PopHasNode' /\ ScanTells' /\ BudgetKept'
  BY <1>1, <1>3, <1>4, PushingKeeps DEF Evicting
<1>6. /\ Debt \in Nat /\ Entries \in Nat /\ forgotten \in Nat /\ total \in Nat
      /\ old.discount \in Nat /\ old.discount <= Debt /\ Entries' = Entries
  BY <1>1, <1>4, LogFacts, LogsRest DEF LogInv, LogNumbers
<1>7. total = Entries + Debt + forgotten
  BY DEF LogInv, Counted
<1>8. Debt' = Debt + 0 - old.discount
  BY <1>3, <1>4, ShipMoves DEF LogInv
<1>9. total' \in Nat /\ total' = Entries' + Debt' + forgotten'
  BY <1>1, <1>6, <1>7, <1>8
<1>10. LogNumbers'
  BY <1>1, <1>9 DEF LogInv, LogNumbers
<1> QED BY <1>5, <1>9, <1>10 DEF LogInv, Counted

LEMMA EndPushesKeeps ==
  ASSUME LogInv, NEW s \in Shippers, EndPushes(s) PROVE LogInv'
<1>1. /\ ship[s].step = "count" /\ Move(s, "check")
      /\ UNCHANGED <<logs, total, nextSequence, evictor, scan, forgotten>>
  BY DEF EndPushes, At
<1>2. PICK work \in ShipRecords :
        Works(s, work) /\ work.step = "check" /\ work.discount = ship[s].discount
  <2>1. "check" \in ShipSteps /\ ShipTypes
    BY DEF ShipSteps, LogInv
  <2> QED BY <1>1, <2>1, StepIs
<1>3. Owes(work) = 0 /\ Owes(ship[s]) = 0
  BY <1>1, <1>2 DEF Owes
<1>4. ShipTypes' /\ OneEvictor' /\ PopHasNode' /\ ScanTells' /\ BudgetKept'
  BY <1>1, <1>2, PushingKeeps DEF Evicting
<1>5. Debt' = Debt + 0 - 0 /\ Debt \in Nat /\ Entries' = Entries
  BY <1>1, <1>2, <1>3, ShipMoves, LogFacts, LogsRest DEF LogInv
<1>6. LogNumbers' /\ Counted'
  BY <1>1, <1>5 DEF LogInv, LogNumbers, Counted
<1> QED BY <1>4, <1>6 DEF LogInv

(***************************************************************************)
(* The evictions.                                                          *)
(***************************************************************************)

LEMMA IdleIs == Idle \in ShipRecords /\ Idle.step = "idle" /\ Owes(Idle) = 0
<1>1. 0 \in 0..MaxSequence /\ 0 \in 0..MaxBatch /\ 1 \in LogNodes
  BY LogBounds DEF LogNodes
<1> QED BY <1>1 DEF Idle, ShipRecords, ShipSteps, Owes

\* A session becomes idle when nobody evicts, or when it is the evictor itself.
LEMMA IdleKeeps ==
  ASSUME LogInv, NEW s \in Shippers, Works(s, Idle), scan' \in ScanRecords,
         \/ ship[s].step \notin Evicting /\ UNCHANGED <<evictor, scan>>
         \/ evictor = s /\ evictor' = 0,
         UNCHANGED <<total, forgotten>>,
         \/ total <= MaxTotal
         \/ evictor = s /\ ((\A r \in Shippers \ {s} : At(r, "idle")) => total <= MaxTotal + forgotten)
  PROVE  ShipTypes' /\ OneEvictor' /\ PopHasNode' /\ ScanTells' /\ BudgetKept'
<1>1. /\ ship' \in [Shippers -> ShipRecords]
      /\ ship'[s] = Idle /\ \A r \in Shippers : r # s => ship'[r] = ship[r]
  BY IdleIs, ShipMoves DEF LogInv
<1>2. ShipTypes'
  BY <1>1 DEF LogInv, ShipTypes
<1>3. \A r \in Shippers : r # s => (At(r, "idle")' <=> At(r, "idle")) /\ (At(r, "scan")' <=> At(r, "scan"))
                                   /\ (At(r, "pop")' <=> At(r, "pop"))
  BY <1>1 DEF At
<1>4. ~At(s, "scan")' /\ ~At(s, "pop")'
  BY <1>1, IdleIs DEF At
<1>5. OneEvictor'
  <2>1. ship'[s].step \notin Evicting /\ s # 0 /\ 0 \notin Shippers
    BY <1>1, IdleIs, LogBounds DEF Evicting
  <2> QED BY <1>1, <2>1 DEF LogInv, OneEvictor
<1>6. \A r \in Shippers : r # s /\ ship[r].step \in Evicting => UNCHANGED <<evictor, scan>> /\ evictor # s
  BY DEF LogInv, OneEvictor
<1>7. PopHasNode'
  BY <1>3, <1>4, <1>6 DEF LogInv, PopHasNode, At, Evicting
<1>8. total \in Nat /\ forgotten \in Nat /\ total' = total /\ forgotten' = forgotten
  BY LogFacts DEF LogInv
<1>9. total <= MaxTotal => total' <= MaxTotal + forgotten'
  BY <1>8, LogBounds
<1>10. ScanTells'
  <2> SUFFICES ASSUME NEW r \in Shippers, At(r, "scan")', \A t \in Shippers \ {r} : At(t, "idle")'
               PROVE  total' <= MaxTotal + forgotten'
    BY DEF ScanTells
  <2>1. r # s /\ ship[r].step \in Evicting
    BY <1>1, <1>4 DEF At, Evicting
  <2> QED BY <1>6, <1>9, <2>1
<1>11. BudgetKept'
  <2> SUFFICES ASSUME \A r \in Shippers : At(r, "idle")' PROVE total' <= MaxTotal + forgotten'
    BY DEF BudgetKept
  <2>1. \A r \in Shippers \ {s} : At(r, "idle")
    BY <1>3
  <2> QED BY <1>8, <1>9, <2>1
<1> QED BY <1>2, <1>5, <1>7, <1>10, <1>11

LEMMA SettledCount ==
  ASSUME LogInv, NEW s \in Shippers, NEW work \in ShipRecords, Works(s, work),
         Owes(work) = Owes(ship[s]), UNCHANGED <<logs, total, nextSequence, forgotten>>
  PROVE  LogNumbers' /\ Counted'
<1>1. Debt' = Debt + Owes(work) - Owes(ship[s]) /\ Debt \in Nat /\ Owes(ship[s]) \in Nat
  BY ShipMoves, LogFacts DEF LogInv
<1>2. Debt' = Debt
  BY <1>1
<1>3. Entries' = Entries
  BY LogsRest
<1> QED BY <1>2, <1>3 DEF LogInv, LogNumbers, Counted

LEMMA CheckBudgetKeeps ==
  ASSUME LogInv, NEW s \in Shippers, CheckBudget(s) PROVE LogInv'
<1>1. /\ ship[s].step = "check"
      /\ UNCHANGED <<logs, total, nextSequence, evictor, scan, forgotten>>
      /\ IF total > MaxTotal THEN Move(s, "lock") ELSE Works(s, Idle)
  BY DEF CheckBudget, At, Works
<1>2. CASE total > MaxTotal
  <2>1. PICK work \in ShipRecords :
          Works(s, work) /\ work.step = "lock" /\ work.discount = ship[s].discount
    <3>1. "lock" \in ShipSteps /\ ShipTypes
      BY DEF ShipSteps, LogInv
    <3> QED BY <1>1, <1>2, <3>1, StepIs
  <2>2. Owes(work) = Owes(ship[s])
    BY <1>1, <2>1 DEF Owes
  <2>3. ShipTypes' /\ OneEvictor' /\ PopHasNode' /\ ScanTells' /\ BudgetKept'
    BY <1>1, <2>1, PushingKeeps DEF Evicting
  <2> QED BY <1>1, <2>1, <2>2, <2>3, SettledCount DEF LogInv
<1>3. CASE ~(total > MaxTotal)
  <2>1. Works(s, Idle) /\ Owes(ship[s]) = 0
    BY <1>1, <1>3 DEF Owes
  <2>2. total <= MaxTotal
    BY <1>3, LogFacts, LogBounds DEF LogInv
  <2>3. ship[s].step \notin Evicting /\ scan' \in ScanRecords
    BY <1>1 DEF Evicting, LogInv, ShipTypes
  <2>4. ShipTypes' /\ OneEvictor' /\ PopHasNode' /\ ScanTells' /\ BudgetKept'
    BY <1>1, <2>1, <2>2, <2>3, IdleKeeps
  <2> QED BY <1>1, <2>1, <2>4, IdleIs, SettledCount DEF LogInv
<1> QED BY <1>2, <1>3

\* A step from one stage of an eviction to the next.
LEMMA EvictingKeeps ==
  ASSUME LogInv, NEW s \in Shippers, NEW work \in ShipRecords, Works(s, work),
         work.step \in Evicting, evictor' = s, scan' \in ScanRecords,
         \A r \in Shippers \ {s} : ship[r].step \notin Evicting,
         work.step = "pop" => scan'.node \in LogNodes,
         work.step = "scan" => scan' = NoScan
  PROVE  ShipTypes' /\ OneEvictor' /\ PopHasNode' /\ ScanTells' /\ BudgetKept'
<1>1. /\ ship' \in [Shippers -> ShipRecords]
      /\ ship'[s] = work /\ \A r \in Shippers : r # s => ship'[r] = ship[r]
  BY ShipMoves DEF LogInv
<1>2. ShipTypes'
  BY <1>1 DEF ShipTypes
<1>3. OneEvictor'
  BY <1>1 DEF OneEvictor
<1>4. \A r \in Shippers : r # s => ~At(r, "pop")' /\ ~At(r, "scan")'
  BY <1>1 DEF At, Evicting
<1>5. PopHasNode'
  BY <1>1, <1>4 DEF PopHasNode, At
<1>6. ScanTells'
  <2> SUFFICES ASSUME At(s, "scan")'
               PROVE  \A n \in LogNodes : n < scan'.shard => logs'[n] = <<>>
    BY <1>4 DEF ScanTells
  <2>1. scan'.shard = 1
    BY <1>1 DEF At, NoScan
  <2>2. \A n \in LogNodes : ~(n < 1)
    BY LogBounds DEF LogNodes
  <2> QED BY <2>1, <2>2
<1>7. ~At(s, "idle")'
  BY <1>1 DEF At, Evicting
<1> QED BY <1>2, <1>3, <1>5, <1>6, <1>7 DEF BudgetKept

LEMMA LockEvictionKeeps ==
  ASSUME LogInv, NEW s \in Shippers, LockEviction(s) PROVE LogInv'
<1>1. /\ ship[s].step = "lock" /\ evictor = 0 /\ evictor' = s /\ Move(s, "recheck")
      /\ UNCHANGED <<logs, total, nextSequence, scan, forgotten>>
  BY DEF LockEviction, At
<1>2. PICK work \in ShipRecords :
        Works(s, work) /\ work.step = "recheck" /\ work.discount = ship[s].discount
  <2>1. "recheck" \in ShipSteps /\ ShipTypes
    BY DEF ShipSteps, LogInv
  <2> QED BY <1>1, <2>1, StepIs
<1>3. Owes(work) = Owes(ship[s])
  BY <1>1, <1>2 DEF Owes
<1>4. scan' \in ScanRecords /\ \A r \in Shippers \ {s} : ship[r].step \notin Evicting
  BY <1>1, LogBounds DEF LogInv, ShipTypes, OneEvictor
<1>5. ShipTypes' /\ OneEvictor' /\ PopHasNode' /\ ScanTells' /\ BudgetKept'
  BY <1>1, <1>2, <1>4, EvictingKeeps DEF Evicting
<1> QED BY <1>1, <1>2, <1>3, <1>5, SettledCount DEF LogInv

LEMMA NoScanIs == NoScan \in ScanRecords
<1>1. 0 \in 0..MaxSequence /\ 0 \in 0..Shards /\ 1 \in 1..Shards + 1
  BY LogBounds
<1> QED BY <1>1 DEF NoScan, ScanRecords

LEMMA EvictorIs ==
  ASSUME LogInv, NEW s \in Shippers, ship[s].step \in Evicting
  PROVE  evictor = s /\ \A r \in Shippers \ {s} : ship[r].step \notin Evicting
BY DEF LogInv, OneEvictor

LEMMA RecheckBudgetKeeps ==
  ASSUME LogInv, NEW s \in Shippers, RecheckBudget(s) PROVE LogInv'
<1>1. /\ ship[s].step = "recheck" /\ scan' = NoScan
      /\ UNCHANGED <<logs, total, nextSequence, forgotten>>
      /\ IF total > MaxTotal THEN Move(s, "scan") /\ UNCHANGED evictor
         ELSE evictor' = 0 /\ Works(s, Idle)
  BY DEF RecheckBudget, EndEviction, At, Works
<1>2. evictor = s /\ \A r \in Shippers \ {s} : ship[r].step \notin Evicting
  BY <1>1, EvictorIs DEF Evicting
<1>3. CASE total > MaxTotal
  <2>1. PICK work \in ShipRecords :
          Works(s, work) /\ work.step = "scan" /\ work.discount = ship[s].discount
    <3>1. "scan" \in ShipSteps /\ ShipTypes
      BY DEF ShipSteps, LogInv
    <3> QED BY <1>1, <1>3, <3>1, StepIs
  <2>2. Owes(work) = Owes(ship[s])
    BY <1>1, <2>1 DEF Owes
  <2>3. ShipTypes' /\ OneEvictor' /\ PopHasNode' /\ ScanTells' /\ BudgetKept'
    BY <1>1, <1>2, <1>3, <2>1, NoScanIs, EvictingKeeps DEF Evicting
  <2> QED BY <1>1, <2>1, <2>2, <2>3, SettledCount DEF LogInv
<1>4. CASE ~(total > MaxTotal)
  <2>1. Works(s, Idle) /\ Owes(ship[s]) = 0
    BY <1>1, <1>4 DEF Owes
  <2>2. total <= MaxTotal
    BY <1>4, LogFacts, LogBounds DEF LogInv
  <2>3. ShipTypes' /\ OneEvictor' /\ PopHasNode' /\ ScanTells' /\ BudgetKept'
    BY <1>1, <1>2, <1>4, <2>1, <2>2, NoScanIs, IdleKeeps
  <2> QED BY <1>1, <2>1, <2>3, IdleIs, SettledCount DEF LogInv
<1> QED BY <1>3, <1>4

LEMMA ScanShardKeeps ==
  ASSUME LogInv, NEW s \in Shippers, ScanShard(s) PROVE LogInv'
<1> DEFINE n == scan.shard
           older == logs[n] # <<>> /\ (scan.node = 0 \/ Head(logs[n]) < scan.sequence)
<1>1. /\ ship[s].step = "scan" /\ n <= Shards
      /\ scan' = [shard |-> n + 1, node |-> IF older THEN n ELSE scan.node,
                  sequence |-> IF older THEN Head(logs[n]) ELSE scan.sequence]
      /\ UNCHANGED <<logs, total, nextSequence, evictor, ship, forgotten>>
  BY DEF ScanShard, At
<1>2. n \in 1..Shards + 1 /\ scan.node \in 0..Shards /\ scan.sequence \in 0..MaxSequence
  BY DEF LogInv, ShipTypes, ScanRecords
<1>3. n \in LogNodes
  BY <1>1, <1>2, LogBounds DEF LogNodes
<1>4. logs[n] # <<>> => Head(logs[n]) \in 0..MaxSequence
  <2>1. logs[n] \in Seq(0..MaxSequence)
    BY <1>3 DEF LogInv, LogNumbers
  <2> DEFINE S == 0..MaxSequence
  <2> HIDE DEF S
  <2>2. logs[n] \in Seq(S)
    BY <2>1 DEF S
  <2>3. logs[n] # <<>> => Head(logs[n]) \in S
    BY <2>2
  <2> QED BY <2>3 DEF S
<1> DEFINE node == IF older THEN n ELSE scan.node
           sequence == IF older THEN Head(logs[n]) ELSE scan.sequence
<1>5. n + 1 \in 1..Shards + 1 /\ n \in 0..Shards
  BY <1>1, <1>2, LogBounds
<1>6. node \in 0..Shards /\ sequence \in 0..MaxSequence
  BY <1>2, <1>4, <1>5
<1>7. node = 0 => scan.node = 0 /\ logs[n] = <<>>
  <2>1. n # 0
    BY <1>2
  <2> QED BY <2>1
<1>8. scan' \in ScanRecords /\ scan'.shard = n + 1 /\ scan'.node = node
  <2> HIDE DEF older, n
  <2>1. scan' = [shard |-> n + 1, node |-> node, sequence |-> sequence]
    BY <1>1
  <2> HIDE DEF node, sequence
  <2> QED BY <1>5, <1>6, <2>1 DEF ScanRecords
<1> HIDE DEF older, node, sequence
<1>9. ShipTypes' /\ OneEvictor' /\ BudgetKept'
  BY <1>1, <1>8 DEF LogInv, ShipTypes, OneEvictor, BudgetKept, At
<1>10. evictor = s /\ \A r \in Shippers \ {s} : ship[r].step \notin Evicting
  BY <1>1, EvictorIs DEF Evicting
<1>11. PopHasNode'
  BY <1>1, <1>10 DEF PopHasNode, At, Evicting
<1>12. ScanTells'
  <2> SUFFICES ASSUME scan'.node = 0, \A r \in Shippers \ {s} : At(r, "idle"), ~(total <= MaxTotal + forgotten),
                      NEW m \in LogNodes, m < scan'.shard
               PROVE  logs[m] = <<>>
    BY <1>1, <1>10 DEF ScanTells, At, Evicting
  <2>1. scan.node = 0 /\ logs[n] = <<>>
    BY <1>7, <1>8
  <2>2. \A k \in LogNodes : k < n => logs[k] = <<>>
    BY <1>1, <2>1 DEF LogInv, ScanTells, At
  <2>3. m < n \/ m = n
    BY <1>2, <1>8, LogBounds DEF LogNodes
  <2> QED BY <2>1, <2>2, <2>3
<1>13. LogNumbers' /\ Counted'
  BY <1>1, ShipRests, LogsRest DEF LogInv, LogNumbers, Counted
<1> QED BY <1>9, <1>11, <1>12, <1>13 DEF LogInv

LEMMA EndScanKeeps ==
  ASSUME LogInv, NEW s \in Shippers, EndScan(s) PROVE LogInv'
<1>1. /\ ship[s].step = "scan" /\ scan.shard > Shards
      /\ IF scan.node = 0 THEN evictor' = 0 /\ Works(s, Idle)
         ELSE Move(s, "pop") /\ UNCHANGED evictor
      /\ UNCHANGED <<logs, total, nextSequence, scan, forgotten>>
  BY DEF EndScan, EndEviction, At, Works
<1>2. evictor = s /\ \A r \in Shippers \ {s} : ship[r].step \notin Evicting
  BY <1>1, EvictorIs DEF Evicting
<1>3. scan \in ScanRecords /\ scan' \in ScanRecords
  BY <1>1 DEF LogInv, ShipTypes
<1>4. CASE scan.node = 0
  <2>1. Works(s, Idle) /\ Owes(ship[s]) = 0 /\ evictor' = 0
    BY <1>1, <1>4 DEF Owes
  <2>2. ASSUME \A r \in Shippers \ {s} : At(r, "idle") PROVE total <= MaxTotal + forgotten
    <3>1. SUFFICES ASSUME \A n \in LogNodes : n < scan.shard => logs[n] = <<>>
                   PROVE  total <= MaxTotal + forgotten
      BY <1>1, <1>4, <2>2 DEF LogInv, ScanTells, At
    <3>2. \A n \in LogNodes : n < scan.shard
      BY <1>1, <1>3, LogBounds DEF LogNodes, ScanRecords
    <3>3. Entries = 0
      <4>1. Kept \in [LogNodes -> Nat] /\ \A n \in LogNodes : Kept[n] = 0
        BY <3>1, <3>2, LogFacts DEF Kept, LogInv
      <4> QED BY <4>1, LogNodesFinite, EntriesAre, SumNat
    <3>4. Debt = 0
      <4>1. Debts \in [Shippers -> Nat] /\ \A r \in Shippers : Debts[r] = 0
        BY <2>1, <2>2, LogFacts DEF Debts, Owes, At, LogInv
      <4> QED BY <4>1, LogBounds, SumNat DEF Debt
    <3>5. total = forgotten /\ forgotten \in Nat
      BY <3>3, <3>4, LogFacts DEF LogInv, Counted
    <3> QED BY <3>5, LogBounds
  <2>3. ShipTypes' /\ OneEvictor' /\ PopHasNode' /\ ScanTells' /\ BudgetKept'
    BY <1>1, <1>2, <1>3, <2>1, <2>2, IdleKeeps
  <2> QED BY <1>1, <2>1, <2>3, IdleIs, SettledCount DEF LogInv
<1>5. CASE scan.node # 0
  <2>1. PICK work \in ShipRecords :
          Works(s, work) /\ work.step = "pop" /\ work.discount = ship[s].discount
    <3>1. "pop" \in ShipSteps /\ ShipTypes
      BY DEF ShipSteps, LogInv
    <3> QED BY <1>1, <1>5, <3>1, StepIs
  <2>2. Owes(work) = Owes(ship[s])
    BY <1>1, <2>1 DEF Owes
  <2>3. scan.node \in LogNodes
    BY <1>3, <1>5, LogBounds DEF ScanRecords, LogNodes
  <2>4. evictor' = s /\ scan' = scan
    BY <1>1, <1>2, <1>5
  <2>5. ShipTypes' /\ OneEvictor' /\ PopHasNode' /\ ScanTells' /\ BudgetKept'
    BY <1>2, <1>3, <2>1, <2>3, <2>4, EvictingKeeps DEF Evicting
  <2> QED BY <1>1, <2>1, <2>2, <2>5, SettledCount DEF LogInv
<1> QED BY <1>4, <1>5

LEMMA PopOldestKeeps ==
  ASSUME LogInv, NEW s \in Shippers, PopOldest(s) PROVE LogInv'
<1> DEFINE n == scan.node
<1>1. /\ ship[s].step = "pop"
      /\ \/ logs[n] = <<>> /\ Move(s, "recheck") /\ UNCHANGED logs
         \/ logs[n] # <<>> /\ Move(s, "popped") /\ logs' = [logs EXCEPT ![n] = Tail(@)]
      /\ UNCHANGED <<total, nextSequence, evictor, scan, forgotten>>
  BY DEF PopOldest, At
<1>2. evictor = s /\ \A r \in Shippers \ {s} : ship[r].step \notin Evicting
  BY <1>1, EvictorIs DEF Evicting
<1>3. scan' \in ScanRecords /\ n \in LogNodes /\ evictor' = s
  BY <1>1, <1>2 DEF LogInv, ShipTypes, PopHasNode, At
<1> HIDE DEF n
<1>4. CASE logs[n] = <<>> /\ Move(s, "recheck") /\ UNCHANGED logs
  <2>1. PICK work \in ShipRecords :
          Works(s, work) /\ work.step = "recheck" /\ work.discount = ship[s].discount
    <3>1. "recheck" \in ShipSteps /\ ShipTypes
      BY DEF ShipSteps, LogInv
    <3> QED BY <1>4, <3>1, StepIs
  <2>2. Owes(work) = Owes(ship[s])
    BY <1>1, <2>1 DEF Owes
  <2>3. ShipTypes' /\ OneEvictor' /\ PopHasNode' /\ ScanTells' /\ BudgetKept'
    BY <1>2, <1>3, <2>1, EvictingKeeps DEF Evicting
  <2> QED BY <1>1, <1>4, <2>1, <2>2, <2>3, SettledCount DEF LogInv
<1>5. CASE logs[n] # <<>> /\ Move(s, "popped") /\ logs' = [logs EXCEPT ![n] = Tail(@)]
  <2>1. PICK work \in ShipRecords :
          Works(s, work) /\ work.step = "popped" /\ work.discount = ship[s].discount
    <3>1. "popped" \in ShipSteps /\ ShipTypes
      BY DEF ShipSteps, LogInv
    <3> QED BY <1>5, <3>1, StepIs
  <2>2. Owes(work) = 1 /\ Owes(ship[s]) = 0
    BY <1>1, <2>1 DEF Owes
  <2>3. ShipTypes' /\ OneEvictor' /\ PopHasNode' /\ ScanTells' /\ BudgetKept'
    BY <1>2, <1>3, <2>1, EvictingKeeps DEF Evicting
  <2>4. /\ logs[n] \in Seq(0..MaxSequence) /\ Len(logs[n]) <= MaxPerNode
    BY <1>3 DEF LogInv, LogNumbers
  <2> DEFINE tail == Tail(logs[n])
  <2>5. tail \in Seq(0..MaxSequence) /\ Len(tail) = Len(logs[n]) - 1 /\ Len(logs[n]) \in Nat
        /\ Len(logs[n]) > 0
    <3> DEFINE S == 0..MaxSequence
               q == logs[n]
    <3>1. q \in Seq(S) /\ q # <<>>
      BY <1>5, <2>4
    <3> HIDE DEF S, q
    <3>2. Tail(q) \in Seq(S) /\ Len(Tail(q)) = Len(q) - 1 /\ Len(q) \in Nat /\ Len(q) > 0
      BY <3>1
    <3> QED BY <3>2 DEF S, q
  <2>6. Len(tail) <= MaxPerNode /\ logs' = [logs EXCEPT ![n] = tail]
    BY <1>5, <2>4, <2>5, LogBounds
  <2> HIDE DEF tail
  <2>7. /\ logs' \in [LogNodes -> Seq(0..MaxSequence)]
        /\ \A m \in LogNodes : Len(logs'[m]) <= MaxPerNode
        /\ Entries' = Entries + Len(tail) - Len(logs[n])
    BY <1>3, <2>5, <2>6, BufferMoves DEF LogInv
  <2>8. LogNumbers'
    BY <1>1, <2>7 DEF LogInv, LogNumbers
  <2>9. Counted'
    <3>1. Debt' = Debt + 1 - 0
      BY <2>1, <2>2, ShipMoves DEF LogInv
    <3>2. Debt \in Nat /\ Entries \in Nat /\ forgotten \in Nat /\ total \in Nat
      BY LogFacts DEF LogInv
    <3>3. total = Entries + Debt + forgotten
      BY DEF LogInv, Counted
    <3>4. Entries' = Entries - 1
      BY <2>5, <2>7, <3>2
    <3>5. total' = Entries' + Debt' + forgotten'
      BY <1>1, <3>1, <3>2, <3>3, <3>4
    <3> QED BY <3>5 DEF Counted
  <2> QED BY <2>3, <2>8, <2>9 DEF LogInv
<1> QED BY <1>1, <1>4, <1>5

LEMMA DiscountPoppedKeeps ==
  ASSUME LogInv, NEW s \in Shippers, DiscountPopped(s) PROVE LogInv'
<1>1. /\ ship[s].step = "popped" /\ total' = total - 1 /\ Move(s, "recheck")
      /\ UNCHANGED <<logs, nextSequence, evictor, scan, forgotten>>
  BY DEF DiscountPopped, At
<1>2. evictor = s /\ \A r \in Shippers \ {s} : ship[r].step \notin Evicting
  BY <1>1, EvictorIs DEF Evicting
<1>3. PICK work \in ShipRecords :
        Works(s, work) /\ work.step = "recheck" /\ work.discount = ship[s].discount
  <2>1. "recheck" \in ShipSteps /\ ShipTypes
    BY DEF ShipSteps, LogInv
  <2> QED BY <1>1, <2>1, StepIs
<1>4. Owes(work) = 0 /\ Owes(ship[s]) = 1
  BY <1>1, <1>3 DEF Owes
<1>5. scan' \in ScanRecords /\ evictor' = s
  BY <1>1, <1>2 DEF LogInv, ShipTypes
<1>6. ShipTypes' /\ OneEvictor' /\ PopHasNode' /\ ScanTells' /\ BudgetKept'
  BY <1>2, <1>3, <1>5, EvictingKeeps DEF Evicting
<1>7. /\ Debt \in Nat /\ Entries \in Nat /\ forgotten \in Nat /\ total \in Nat
      /\ 1 <= Debt /\ Entries' = Entries
  BY <1>1, <1>4, LogFacts, LogsRest DEF LogInv
<1>8. total = Entries + Debt + forgotten /\ Debt' = Debt + 0 - 1
  BY <1>3, <1>4, ShipMoves DEF LogInv, Counted
<1>9. total' \in Nat /\ total' = Entries' + Debt' + forgotten'
  BY <1>1, <1>7, <1>8
<1>10. LogNumbers'
  BY <1>1, <1>9 DEF LogInv, LogNumbers
<1> QED BY <1>6, <1>9, <1>10 DEF LogInv, Counted

(***************************************************************************)
(* Forgotten nodes.                                                        *)
(***************************************************************************)

LEMMA ForgetNodeKeeps ==
  ASSUME LogInv, NEW n \in LogNodes, ForgetNode(n) PROVE LogInv'
<1>1. /\ forgotten = 0 /\ logs' = [logs EXCEPT ![n] = <<>>] /\ forgotten' = Len(logs[n])
      /\ UNCHANGED <<total, nextSequence, evictor, ship, scan>>
  BY DEF ForgetNode
<1>2. logs[n] \in Seq(0..MaxSequence)
  BY DEF LogInv, LogNumbers
<1>3. Len(logs[n]) \in Nat
  BY <1>2
<1> DEFINE none == <<>>
<1>4. none \in Seq(0..MaxSequence) /\ Len(none) = 0 /\ 0 <= MaxPerNode
  BY LogBounds
<1>5. /\ logs' \in [LogNodes -> Seq(0..MaxSequence)]
      /\ \A m \in LogNodes : Len(logs'[m]) <= MaxPerNode
      /\ logs'[n] = <<>> /\ \A m \in LogNodes : m # n => logs'[m] = logs[m]
      /\ Entries' = Entries + 0 - Len(logs[n])
  <2>1. logs' = [logs EXCEPT ![n] = none] /\ Len(none) <= MaxPerNode
    BY <1>1, <1>4
  <2> HIDE DEF none
  <2>2. /\ logs' \in [LogNodes -> Seq(0..MaxSequence)]
        /\ \A m \in LogNodes : Len(logs'[m]) <= MaxPerNode
        /\ logs'[n] = none /\ \A m \in LogNodes : m # n => logs'[m] = logs[m]
        /\ Entries' = Entries + Len(none) - Len(logs[n])
    BY <1>4, <2>1, BufferMoves DEF LogInv
  <2> QED BY <1>4, <2>2 DEF none
<1>6. LogNumbers'
  BY <1>1, <1>3, <1>5 DEF LogInv, LogNumbers
<1>7. ShipTypes' /\ OneEvictor' /\ PopHasNode'
  BY <1>1 DEF LogInv, ShipTypes, OneEvictor, PopHasNode, At
<1>8. Entries \in Nat /\ Debt \in Nat /\ total \in Nat /\ Debt' = Debt
  BY <1>1, LogFacts, ShipRests DEF LogInv
<1>9. Counted'
  <2>1. total = Entries + Debt + forgotten
    BY DEF LogInv, Counted
  <2>2. total' = Entries' + Debt' + forgotten'
    BY <1>1, <1>3, <1>5, <1>8, <2>1
  <2> QED BY <2>2 DEF Counted
<1>10. total <= MaxTotal + forgotten => total' <= MaxTotal + forgotten'
  BY <1>1, <1>3, <1>8, LogBounds
<1>11. BudgetKept'
  BY <1>1, <1>10 DEF LogInv, BudgetKept, At
<1>12. ScanTells'
  <2> SUFFICES ASSUME NEW s \in Shippers, At(s, "scan"), scan.node = 0,
                      \A r \in Shippers \ {s} : At(r, "idle")
               PROVE  \/ total' <= MaxTotal + forgotten'
                      \/ \A m \in LogNodes : m < scan.shard => logs'[m] = <<>>
    BY <1>1 DEF ScanTells, At
  <2>1. CASE total <= MaxTotal + forgotten
    BY <1>10, <2>1
  <2>2. CASE \A m \in LogNodes : m < scan.shard => logs[m] = <<>>
    BY <1>5, <2>2
  <2> QED BY <2>1, <2>2 DEF LogInv, ScanTells
<1> QED BY <1>6, <1>7, <1>9, <1>11, <1>12 DEF LogInv

LEMMA DiscountForgottenKeeps == LogInv /\ DiscountForgotten => LogInv'
<1> SUFFICES ASSUME LogInv, DiscountForgotten PROVE LogInv'
  OBVIOUS
<1>1. /\ total' = total - forgotten /\ forgotten' = 0
      /\ UNCHANGED <<logs, nextSequence, evictor, ship, scan>>
  BY DEF DiscountForgotten
<1>2. Entries \in Nat /\ Debt \in Nat /\ total \in Nat /\ forgotten \in Nat
      /\ Debt' = Debt /\ Entries' = Entries
  BY <1>1, LogFacts, ShipRests, LogsRest DEF LogInv
<1>3. total = Entries + Debt + forgotten
  BY DEF LogInv, Counted
<1>4. total' \in Nat /\ total' = Entries' + Debt' + forgotten'
  BY <1>1, <1>2, <1>3
<1>5. LogNumbers'
  BY <1>1, <1>4 DEF LogInv, LogNumbers
<1>6. ShipTypes' /\ OneEvictor' /\ PopHasNode'
  BY <1>1 DEF LogInv, ShipTypes, OneEvictor, PopHasNode, At
<1>7. total <= MaxTotal + forgotten => total' <= MaxTotal + forgotten'
  BY <1>1, <1>2, LogBounds
<1>8. BudgetKept' /\ ScanTells'
  BY <1>1, <1>7 DEF LogInv, BudgetKept, ScanTells, At
<1> QED BY <1>4, <1>5, <1>6, <1>8 DEF LogInv, Counted

LEMMA StepLogs == LogInv /\ [LogNext]_logVars => LogInv'
<1> SUFFICES ASSUME LogInv, [LogNext]_logVars PROVE LogInv'
  OBVIOUS
<1>1. ASSUME NEW s \in Shippers,
             \/ BeginBatch(s) \/ CountEntry(s) \/ InsertEntry(s) \/ DiscountEntries(s)
             \/ EndPushes(s) \/ CheckBudget(s)
      PROVE  LogInv'
  BY <1>1, BeginBatchKeeps, CountEntryKeeps, InsertEntryKeeps, DiscountEntriesKeeps,
     EndPushesKeeps, CheckBudgetKeeps
<1>2. ASSUME NEW s \in Shippers,
             \/ LockEviction(s) \/ RecheckBudget(s) \/ ScanShard(s) \/ EndScan(s)
             \/ PopOldest(s) \/ DiscountPopped(s)
      PROVE  LogInv'
  BY <1>2, LockEvictionKeeps, RecheckBudgetKeeps, ScanShardKeeps, EndScanKeeps,
     PopOldestKeeps, DiscountPoppedKeeps
<1>3. ASSUME NEW n \in LogNodes, ForgetNode(n) PROVE LogInv'
  BY <1>3, ForgetNodeKeeps
<1>4. CASE DiscountForgotten
  BY <1>4, DiscountForgottenKeeps
<1>5. CASE UNCHANGED logVars
  <2>1. UNCHANGED <<logs, total, nextSequence, evictor, ship, scan, forgotten>>
    BY <1>5 DEF logVars
  <2>2. Entries' = Entries /\ Debt' = Debt
    BY <2>1, LogsRest, ShipRests
  <2> QED BY <2>1, <2>2 DEF LogInv, LogNumbers, ShipTypes, Counted, OneEvictor, PopHasNode,
                            ScanTells, BudgetKept, At
<1> QED BY <1>1, <1>2, <1>3, <1>4, <1>5 DEF LogNext

LEMMA BudgetHolds == LogInv => LogBudgetHolds
<1> SUFFICES ASSUME LogInv PROVE LogBudgetHolds
  OBVIOUS
<1>1. Entries \in Nat /\ Debt \in Nat /\ total \in Nat /\ forgotten \in Nat
      /\ total = Entries + Debt + forgotten
  BY LogFacts DEF LogInv, Counted
<1>2. Entries <= total
  BY <1>1
<1>3. ASSUME forgotten = 0, \A s \in Shippers : At(s, "idle")
      PROVE  Entries = total /\ total <= MaxTotal
  <2>1. Debt = 0
    <3>1. Debts \in [Shippers -> Nat] /\ \A s \in Shippers : Debts[s] = 0
      BY <1>3, LogFacts DEF Debts, Owes, At, LogInv
    <3> QED BY <3>1, LogBounds, SumNat DEF Debt
  <2>2. total <= MaxTotal + forgotten
    BY <1>3 DEF LogInv, BudgetKept
  <2> QED BY <1>1, <1>3, <2>1, <2>2, LogBounds
<1> QED BY <1>2, <1>3 DEF LogBudgetHolds

LEMMA LogTyped == LogInv => LogTypeOK
<1> SUFFICES ASSUME LogInv PROVE LogTypeOK
  OBVIOUS
<1>1. LogNumbers /\ ShipTypes
  BY DEF LogInv
<1> QED BY <1>1, Zenon DEF LogNumbers, ShipTypes, ShipRecords, ScanRecords, LogTypeOK

(***************************************************************************)
(* Sizes in the audit log.                                                 *)
(***************************************************************************)

Answerable == Askers \cup {0}

AuditSizes ==
  /\ auditTx \in BOOLEAN
  /\ Len(auditQueue) <= AuditCapacity
  /\ IsFiniteSet(auditBatch) /\ Cardinality(auditBatch) < AuditBatchMax
  /\ acking \subseteq Answerable
  /\ auditWriter \in {"receive", "write", "last write", "exited"}
  /\ horizon <= MaxEvents

LEMMA AuditBounds ==
  /\ AuditCapacity \in Nat /\ AuditCapacity > 0
  /\ AuditBatchMax \in Nat /\ AuditBatchMax > 0 /\ MaxEvents \in Nat
BY AuditAssumption

LEMMA InitAuditSizes == AuditInit => AuditSizes
BY AuditBounds, FS_EmptySet DEF AuditInit, AuditSizes

LEMMA BatchFits == IsFiniteSet({}) /\ Cardinality({}) < AuditBatchMax
BY AuditBounds, FS_EmptySet

LEMMA QueueFacts ==
  ASSUME AuditInv
  PROVE  /\ auditQueue \in Seq(Commands) /\ Len(auditQueue) \in Nat
         /\ \A c \in Commands : Len(Append(auditQueue, c)) = Len(auditQueue) + 1
         /\ auditQueue # <<>> =>
              Head(auditQueue) \in Commands /\ Len(Tail(auditQueue)) = Len(auditQueue) - 1
<1>1. auditQueue \in Seq(Commands)
  BY DEF AuditInv, Types
<1> QED BY <1>1

LEMMA CommandIds ==
  \A c \in Commands : c.flush => c.id \in Answerable
BY CommandsDiffer DEF Commands, Event, FlushOf, Orphan, Answerable

LEMMA StepAuditSizes ==
  AuditInv /\ AuditSizes /\ [AuditNext]_auditVars => AuditSizes'
<1> SUFFICES ASSUME AuditInv, AuditSizes, [AuditNext]_auditVars PROVE AuditSizes'
  OBVIOUS
<1>1. ASSUME NEW q \in Askers, BeginQuery(q) \/ ReadEvents(q) PROVE AuditSizes'
  BY <1>1 DEF BeginQuery, ReadEvents, AuditSizes
<1>2. ASSUME NEW c \in Commands, ~Full, auditQueue' = Append(auditQueue, c),
             UNCHANGED <<auditTx, auditBatch, acking, auditWriter, horizon>>
      PROVE  AuditSizes'
  <2>1. Len(auditQueue) <= AuditCapacity /\ Len(auditQueue) # AuditCapacity
    BY <1>2 DEF Full, AuditSizes
  <2>2. Len(auditQueue') = Len(auditQueue) + 1 /\ Len(auditQueue) \in Nat
    BY <1>2, QueueFacts
  <2>3. Len(auditQueue') <= AuditCapacity
    BY <2>1, <2>2, AuditBounds
  <2> QED BY <1>2, <2>3 DEF AuditSizes
<1>3. ASSUME NEW q \in Askers, SendFlush(q) PROVE AuditSizes'
  <2>1. FlushOf(q) \in Commands
    BY DEF Commands
  <2> QED BY <1>2, <1>3, <2>1 DEF SendFlush
<1>4. CASE Record
  <2>1. recorded + 1 \in Events
    BY <1>4, AuditBounds DEF Record, AuditInv, Types, Events
  <2>2. Event(recorded + 1) \in Commands
    BY <2>1 DEF Commands
  <2> QED BY <1>2, <1>4, <2>2 DEF Record
<1>5. ASSUME NEW q \in Askers, AbandonQuery(q) PROVE AuditSizes'
  <2>1. Len(auditQueue') = Len(auditQueue)
    <3>1. auditQueue' = [i \in DOMAIN auditQueue |->
                           IF auditQueue[i] = FlushOf(q) THEN Orphan ELSE auditQueue[i]]
      BY <1>5 DEF AbandonQuery
    <3>2. DOMAIN auditQueue = 1..Len(auditQueue) /\ Len(auditQueue) \in Nat
      BY QueueFacts
    <3>3. \A i \in DOMAIN auditQueue : auditQueue'[i] \in Commands
      BY <3>1, QueueFacts DEF Commands
    <3>4. auditQueue' \in Seq(Commands) /\ DOMAIN auditQueue' = 1..Len(auditQueue)
      <4> DEFINE n == Len(auditQueue)
      <4>1. auditQueue' \in [1..n -> Commands] /\ n \in Nat
        BY <3>1, <3>2, <3>3
      <4> HIDE DEF n
      <4>2. auditQueue' \in Seq(Commands) /\ DOMAIN auditQueue' = 1..n
        BY <4>1, SeqDef
      <4> QED BY <4>2 DEF n
    <3> QED BY <3>2, <3>4, LenProperties
  <2>2. acking' \subseteq acking /\ UNCHANGED <<auditTx, auditBatch, auditWriter, horizon>>
    BY <1>5 DEF AbandonQuery
  <2> QED BY <2>1, <2>2 DEF AuditSizes
<1>6. ASSUME auditQueue # <<>>, auditQueue' = Tail(auditQueue) PROVE Len(auditQueue') <= AuditCapacity
  <2>1. Len(auditQueue) <= AuditCapacity
    BY DEF AuditSizes
  <2>2. Len(auditQueue') = Len(auditQueue) - 1 /\ Len(auditQueue) \in Nat
    BY <1>6, QueueFacts
  <2> QED BY <2>1, <2>2, AuditBounds
<1>7. CASE ReceiveEvent
  <2> DEFINE events == auditBatch \cup {Head(auditQueue).id}
  <2>1. /\ auditQueue # <<>> /\ auditQueue' = Tail(auditQueue)
        /\ \/ StartWrite(events, {}, "write")
           \/ /\ ~(Cardinality(events) >= AuditBatchMax) /\ auditBatch' = events
              /\ UNCHANGED <<acking, auditWriter>>
        /\ UNCHANGED <<auditTx, horizon>>
    BY <1>7 DEF ReceiveEvent
  <2>2. IsFiniteSet(events) /\ Cardinality(events) \in Nat
    <3>1. IsFiniteSet(events)
      BY FS_AddElement DEF AuditSizes
    <3> QED BY <3>1, FS_CardinalityType
  <2> HIDE DEF events
  <2>3. CASE StartWrite(events, {}, "write")
    BY <1>6, <2>1, <2>3, BatchFits DEF StartWrite, AuditSizes
  <2>4. CASE /\ ~(Cardinality(events) >= AuditBatchMax) /\ auditBatch' = events
             /\ UNCHANGED <<acking, auditWriter>>
    <3>1. Cardinality(events) < AuditBatchMax
      BY <2>2, <2>4, AuditBounds
    <3> QED BY <1>6, <2>1, <2>2, <2>4, <3>1 DEF AuditSizes
  <2> QED BY <2>1, <2>3, <2>4
<1>8. CASE ReceiveFlush
  <2>1. /\ auditQueue # <<>> /\ auditQueue' = Tail(auditQueue) /\ Head(auditQueue).flush
        /\ \/ StartWrite(auditBatch, {Head(auditQueue).id}, "write")
           \/ UNCHANGED <<auditBatch, auditWriting, acking, auditWriter>>
        /\ UNCHANGED <<auditTx, horizon>>
    BY <1>8 DEF ReceiveFlush
  <2>2. Head(auditQueue).id \in Answerable
    BY <2>1, QueueFacts, CommandIds
  <2> QED BY <1>6, <2>1, <2>2, BatchFits DEF StartWrite, AuditSizes
<1>9. CASE AuditTimer \/ DrainAudit
  BY <1>9, BatchFits DEF AuditTimer, DrainAudit, StartWrite, AuditSizes
<1>10. ASSUME NEW ok \in BOOLEAN, AuditWriteEnds(ok) PROVE AuditSizes'
  <2>1. /\ UNCHANGED <<auditTx, auditQueue, auditBatch, horizon>> /\ acking' = {}
        /\ auditWriter' = IF auditWriter = "write" THEN "receive" ELSE "exited"
    BY <1>10 DEF AuditWriteEnds
  <2> QED BY <2>1 DEF AuditSizes
<1>11. CASE PruneAudit
  <2>1. horizon' \in Events /\ UNCHANGED <<auditTx, auditQueue, auditBatch, acking, auditWriter>>
    BY <1>11 DEF PruneAudit, AuditInv, Types
  <2>2. horizon' <= MaxEvents
    BY <2>1, AuditBounds DEF Events
  <2> QED BY <2>1, <2>2 DEF AuditSizes
<1>12. CASE DropAuditSender
  BY <1>12 DEF DropAuditSender, AuditSizes
<1>13. CASE UNCHANGED auditVars
  BY <1>13 DEF auditVars, AuditSizes
<1> QED BY <1>1, <1>3, <1>4, <1>5, <1>7, <1>8, <1>9, <1>10, <1>11, <1>12, <1>13
       DEF AuditNext, AuditWriterStep

LEMMA AuditTyped == AuditInv /\ AuditSizes => AuditTypeOK
<1> SUFFICES ASSUME AuditInv, AuditSizes PROVE AuditTypeOK
  OBVIOUS
<1>1. Types /\ QueryIsAhead
  BY DEF AuditInv
<1>2. {auditWriting, auditStored, failed} \subseteq SUBSET Events
  BY <1>1 DEF Types
<1>3. horizon \in 0..MaxEvents /\ recorded \in 0..MaxEvents
  <2>1. horizon \in Nat /\ recorded \in 0..MaxEvents
    BY <1>1 DEF Types
  <2>2. horizon <= MaxEvents
    BY DEF AuditSizes
  <2> QED BY <2>1, <2>2, AuditBounds
<1>4. before \in [Askers -> 0..MaxEvents]
  <2>1. \A q \in Askers : before[q] \in Nat /\ before[q] <= recorded
    BY <1>1 DEF Types, QueryIsAhead
  <2>2. recorded \in Nat /\ recorded <= MaxEvents
    BY <1>3, AuditBounds
  <2>3. \A q \in Askers : before[q] \in 0..MaxEvents
    BY <2>1, <2>2, AuditBounds
  <2> QED BY <1>1, <2>3 DEF Types
<1> QED BY <1>1, <1>2, <1>3, <1>4, Zenon DEF Types, AuditSizes, Answerable, AuditTypeOK

(***************************************************************************)
(* The snapshot file.                                                      *)
(***************************************************************************)

Busy == {"listed", "opened", "written", "renamed"}

\* What is noted, listed and checkpointed is ordered by age.
Ages ==
  /\ checkpoint <= noted /\ noted <= version
  /\ \A s \in Savers : saver[s] \in Busy => listed[s] >= noted /\ listed[s] >= 1

\* The final flush begins after the task, unless the wait for it was cut short.
TakeTurns ==
  /\ phase \in {"running", "cancelled"} => saver["final"] = "idle"
  /\ phase \in {"flushing", "exited"} /\ ~DiskMayStall => saver["task"] = "ended"

\* Only one of task and final flush can be at work.
Orderly == phase \in {"running", "cancelled"} \/ ~DiskMayStall

\* What is behind the two paths when one saver is at work.
FilesMatch ==
  /\ tmp = 0 \/ tmp # target
  /\ target # 0 => content[target] # Partial
  /\ checkpoint > 0 => target # 0 /\ content[target] >= checkpoint
  /\ \A s \in Savers :
       /\ saver[s] \in {"opened", "written"} => tmp # 0 /\ opened[s] = tmp
       /\ saver[s] = "opened" => content[tmp] = Partial
       /\ saver[s] = "written" => content[tmp] = listed[s]
       /\ saver[s] = "renamed" => target # 0 /\ content[target] >= listed[s]

\* The inductive invariant.  That the renamed file is whole needs the temporary file to
\* belong to one saver, which in turn needs the turns they take.
SnapshotInv ==
  /\ SnapshotTypeOK /\ Ages /\ TakeTurns
  /\ Orderly => FilesMatch

LEMMA InitSnapshot == SnapshotInit => SnapshotInv
BY SnapshotAssumption
  DEF SnapshotInit, SnapshotInv, SnapshotTypeOK, Ages, TakeTurns, FilesMatch, Busy, Savers, Partial

LEMMA StepSnapshot == SnapshotInv /\ [SnapshotNext]_snapshotVars => SnapshotInv'
<1> SUFFICES ASSUME SnapshotInv, [SnapshotNext]_snapshotVars PROVE SnapshotInv'
  OBVIOUS
<1> USE SnapshotAssumption
      DEF SnapshotInv, SnapshotTypeOK, Ages, TakeTurns, Busy, Savers, Partial, Go
<1>1. CASE RowsChange
  BY <1>1 DEF RowsChange, Orderly, FilesMatch
<1>2. CASE SaverTick
  BY <1>2 DEF SaverTick, Orderly, FilesMatch
<1>3. CASE CancelTasks \/ TaskEnds
  BY <1>3 DEF CancelTasks, TaskEnds, Orderly, FilesMatch
<1>4. CASE JoinEnds \/ Exit
  BY <1>4 DEF JoinEnds, Exit, Orderly, FilesMatch
<1>5. ASSUME NEW s \in Savers, List(s) PROVE SnapshotInv'
  BY <1>5 DEF List, Orderly, FilesMatch
<1>6. ASSUME NEW s \in Savers, OpenTmp(s) PROVE SnapshotInv'
  BY <1>6 DEF OpenTmp, Orderly, FilesMatch
<1>7. ASSUME NEW s \in Savers, WriteTmp(s) PROVE SnapshotInv'
  <2>1. PICK c \in 0..MaxVersion :
          /\ content' = [content EXCEPT ![opened[s]] = c]
          /\ content[opened[s]] = 0 => c = listed[s]
    <3> DEFINE Left == IF content[opened[s]] = Partial THEN {} ELSE {Partial}
    <3>1. PICK c \in {listed[s]} \cup Left : content' = [content EXCEPT ![opened[s]] = c]
      BY <1>7 DEF WriteTmp
    <3>2. c \in 0..MaxVersion /\ (content[opened[s]] = 0 => c = listed[s])
      OBVIOUS
    <3> QED BY <3>1, <3>2
  <2>2. SnapshotTypeOK'
    BY <1>7, <2>1 DEF WriteTmp
  <2>3. Ages' /\ TakeTurns' /\ (Orderly' => Orderly)
    BY <1>7 DEF WriteTmp, Orderly
  <2>4. ASSUME Orderly PROVE FilesMatch'
    <3>1. /\ FilesMatch /\ saver[s] = "opened" /\ tmp # 0 /\ opened[s] = tmp /\ tmp # target
          /\ \A r \in Savers \ {s} : saver[r] \notin Busy
      BY <1>7, <2>4 DEF WriteTmp, Orderly, FilesMatch
    <3>2. content'[tmp] = listed[s] /\ content'[target] = content[target]
      BY <2>1, <3>1 DEF FilesMatch
    <3> QED BY <1>7, <3>1, <3>2 DEF WriteTmp, FilesMatch
  <2> QED BY <2>2, <2>3, <2>4
<1>8. ASSUME NEW s \in Savers, RenameTmp(s) PROVE SnapshotInv'
  BY <1>8 DEF RenameTmp, Orderly, FilesMatch
<1>9. ASSUME NEW s \in Savers, SaveSucceeds(s) PROVE SnapshotInv'
  BY <1>9 DEF SaveSucceeds, After, Orderly, FilesMatch
<1>10. ASSUME NEW s \in Savers, SaveFails(s) PROVE SnapshotInv'
  BY <1>10 DEF SaveFails, After, Orderly, FilesMatch
<1>11. CASE UNCHANGED snapshotVars
  BY <1>11 DEF snapshotVars, Orderly, FilesMatch
<1> QED BY <1>1, <1>2, <1>3, <1>4, <1>5, <1>6, <1>7, <1>8, <1>9, <1>10, <1>11 DEF SnapshotNext

LEMMA SnapshotInvariant == SnapshotSpec => []SnapshotInv
BY InitSnapshot, StepSnapshot, PTL DEF SnapshotSpec

\* The rows that the checkpoint stands for are on disk when the task skips a write
\* because of it, even if the disk stalls (persist_snapshot_if_changed).
THEOREM CheckpointIsOnDisk == SnapshotSpec => []CheckpointOnDisk
<1>1. SnapshotInv => CheckpointOnDisk
  BY DEF SnapshotInv, Orderly, FilesMatch, CheckpointOnDisk
<1> QED BY <1>1, SnapshotInvariant, PTL

\* A file that a restart finds is complete, if no write outlasts the five seconds that
\* drain_server_shutdown waits for the task.
THEOREM SnapshotWhole == ~DiskMayStall => (SnapshotSpec => []SnapshotIsWhole)
<1> SUFFICES ASSUME ~DiskMayStall PROVE SnapshotSpec => []SnapshotIsWhole
  OBVIOUS
<1>1. SnapshotInv => SnapshotIsWhole
  BY DEF SnapshotInv, Orderly, FilesMatch, SnapshotIsWhole
<1> QED BY <1>1, SnapshotInvariant, PTL

(***************************************************************************)
(* The stores together.                                                    *)
(***************************************************************************)

StorageInv ==
  /\ part \in {"history", "audit", "snapshot", "logs"}
  /\ HistoryInv /\ AuditInv /\ AuditSizes /\ SnapshotInv /\ LogInv

LEMMA StorageInvariant == Spec => []StorageInv
<1>1. Init => StorageInv
  BY InitHistory, InitAudit, InitAuditSizes, InitSnapshot, InitLogs DEF Init, StorageInv
<1>2. StorageInv /\ [Next]_vars => StorageInv'
  <2> SUFFICES ASSUME StorageInv, [Next]_vars PROVE StorageInv'
    OBVIOUS
  <2>1. /\ [HistoryNext]_historyVars /\ [AuditNext]_auditVars
        /\ [SnapshotNext]_snapshotVars /\ [LogNext]_logVars
    BY DEF Next, RunHistory, RunAudit, RunSnapshot, RunLogs, vars
  <2>2. UNCHANGED part
    BY DEF Next, RunHistory, RunAudit, RunSnapshot, RunLogs, vars
  <2> QED BY <2>1, <2>2, StepHistory, StepKeeps, StepAuditSizes, StepSnapshot, StepLogs DEF StorageInv
<1> QED BY <1>1, <1>2, PTL DEF Spec

\* Types of the four stores.
THEOREM StorageTypes == Spec => []TypeOK
<1>1. StorageInv => TypeOK
  <2> SUFFICES ASSUME StorageInv PROVE TypeOK
    OBVIOUS
  <2>1. HistoryTypeOK /\ AuditTypeOK /\ SnapshotTypeOK /\ LogTypeOK
    BY HistoryTyped, AuditTyped, LogTyped DEF StorageInv, SnapshotInv
  <2> QED BY <2>1 DEF StorageInv, TypeOK
<1> QED BY <1>1, StorageInvariant, PTL


\* Two samples of a node that the channel took are at least the write interval apart as
\* long as the registry keeps the node, for any interval, capacity of the channel and
\* number of sessions that record at once (record_status_with_builder, is_throttled).
THEOREM SamplesSpaced == Spec => []SamplesAreSpaced
<1>1. StorageInv => SamplesAreSpaced
  BY DEF StorageInv, HistoryInv
<1> QED BY <1>1, StorageInvariant, PTL

\* The LIMIT of a query leaves out no sample older than the last second of its window,
\* whatever samples the store holds (query_history_between).
THEOREM QueriesAreComplete == Spec => []QueryShowsEverything
<1>1. StorageInv => QueryShowsEverything
  BY QueriesShow DEF StorageInv
<1> QED BY <1>1, StorageInvariant, PTL

\* When the writers have ended, nothing that their channels took is missing from the
\* databases but what a failed transaction or the retention removed
\* (run_history_writer, run_audit_writer).
THEOREM StoresDrain == Spec => []DrainLosesNothing
<1>1. StorageInv => DrainLosesNothing
  BY HistoryDrained, AuditDrained DEF StorageInv, DrainLosesNothing
<1> QED BY <1>1, StorageInvariant, PTL

\* The counter never falls below the entries kept, and whenever no batch and no forgotten
\* node is under way it equals them and is within the budget, for any finite number of
\* connections that ship logs at once (push_entry, enforce_global_budget, forget_missing).
THEOREM LogBudgetKept == Spec => []LogBudgetHolds
<1>1. StorageInv => LogBudgetHolds
  BY BudgetHolds DEF StorageInv
<1> QED BY <1>1, StorageInvariant, PTL

\* The promises proved above of the audit log and of the snapshot file alone hold in every
\* behaviour in which the server's stores run one after the other.
THEOREM StoresKeepPromises ==
  Spec => [](QuerySeesRecorded /\ CheckpointOnDisk /\ (~DiskMayStall => SnapshotIsWhole))
<1>1. StorageInv => QuerySeesRecorded
  BY DEF StorageInv, AuditInv, QueryIsAhead, QuerySeesRecorded
<1>2. SnapshotInv => CheckpointOnDisk /\ (~DiskMayStall => SnapshotIsWhole)
  BY DEF SnapshotInv, Orderly, FilesMatch, CheckpointOnDisk, SnapshotIsWhole
<1>3. StorageInv => SnapshotInv
  BY DEF StorageInv
<1> QED BY <1>1, <1>2, <1>3, StorageInvariant, PTL
================================================================================
