------------------------------- MODULE Alert_proofs ------------------------------
(***************************************************************************)
(* Proofs about AlertRuntime for any set of alerts and every capacity,     *)
(* delay and number of deliveries in flight: all-clears are paid for by    *)
(* alarms, a pending date has its delivery, and the summary of a date is   *)
(* delivered once.                                                         *)
(***************************************************************************)
EXTENDS AlertRuntime, Counting_proofs, SequenceTheorems

\* Results of deliveries: of a trigger that arrived, and of a summary.
Pays(a) == [job |-> Triggered(a), ok |-> TRUE]
ReportSent(d) == [job |-> Inspection(d), ok |-> TRUE]
ReportFailed(d) == [job |-> Inspection(d), ok |-> FALSE]

\* The date that was sent and the pending one are dates that have come.
Calendar ==
  /\ today \in Days
  /\ lastSent <= today /\ pendingDate <= today
  /\ lastSent = today => pendingDate = None

\* A summary that is under way is of a date that has come.
NothingAhead == \A d \in Days : UnderWay(Inspection(d)) => d <= today

\* Every delivered trigger is spent on one Resolved event, held by the entry of its
\* alert, or reported by a result nobody has read.
Paid ==
  \A a \in Alerts :
    clears[a] + Count(results, Pays(a)) + (IF a \in delivered THEN 1 ELSE 0) <= alarms[a]

\* Deliveries of the summary of date d that have not succeeded, and successes nobody
\* has read.
Open(d) ==
  Count(queue, Inspection(d)) + tasks[Inspection(d)] + Count(results, ReportFailed(d))
Told(d) == Count(results, ReportSent(d))

\* As long as nothing disturbed the inspection state: a date has one delivery under way
\* or has been delivered, and what happened to today's is what the state says.
OneDelivery ==
  /\ \A d \in Days :
       /\ summaries[d] + Open(d) <= 1
       /\ Told(d) <= summaries[d]
       /\ d > today => summaries[d] = 0 /\ Open(d) = 0
  /\ Open(today) + Told(today) > 0 => pendingDate = today
  /\ summaries[today] > 0 => lastSent = today \/ Told(today) > 0

\* The inductive invariant.
AlertInv ==
  /\ TypeOK /\ Calendar /\ NothingAhead /\ PendingHasJob /\ Paid
  /\ ~disturbed => OneDelivery

(***************************************************************************)
(* Jobs and results.                                                       *)
(***************************************************************************)

LEMMA JobsAre ==
  /\ \A a \in Alerts : Triggered(a) \in Events /\ Triggered(a) \in Jobs
                       /\ Resolved(a) \in Events /\ Resolved(a) \in Jobs
  /\ \A d \in Days : Inspection(d) \in Jobs
  /\ \A j \in Jobs : \/ j.kind = "triggered" /\ j.of \in Alerts /\ j = Triggered(j.of)
                     \/ j.kind = "resolved" /\ j.of \in Alerts /\ j = Resolved(j.of)
                     \/ j.kind = "inspection" /\ j.of \in Days /\ j = Inspection(j.of)
  /\ \A e \in Events : e.kind \in {"triggered", "resolved"} /\ e.of \in Alerts /\ e \in Jobs
BY DEF Jobs, Events, Triggered, Resolved, Inspection

LEMMA JobsDiffer ==
  /\ \A a : Triggered(a).kind = "triggered" /\ Triggered(a).of = a
  /\ \A a : Resolved(a).kind = "resolved" /\ Resolved(a).of = a
  /\ \A d : Inspection(d).kind = "inspection" /\ Inspection(d).of = d
  /\ \A a : Pays(a).job = Triggered(a) /\ Pays(a).ok = TRUE
  /\ \A d : ReportSent(d).job = Inspection(d) /\ ReportSent(d).ok = TRUE
  /\ \A d : ReportFailed(d).job = Inspection(d) /\ ReportFailed(d).ok = FALSE
BY DEF Triggered, Resolved, Inspection, Pays, ReportSent, ReportFailed

LEMMA DaysAre == Days \subseteq Nat /\ 1 \in Days /\ None \notin Days
BY BoundAssumption DEF Days, None

(***************************************************************************)
(* Types.                                                                  *)
(***************************************************************************)

LEMMA InitTypes == Init => TypeOK
<1> SUFFICES ASSUME Init PROVE TypeOK
  OBVIOUS
<1>1. WorldTypeOK /\ TrackerTypeOK
  BY DEF Init, WorldTypeOK, TrackerTypeOK
<1>2. InspectionTypeOK /\ QueueTypeOK
  <2>1. lastSent = 0 /\ pendingDate = 0 /\ failWait = 0 /\ disturbed = FALSE /\ queue = <<>>
    BY DEF Init, None
  <2>2. InspectionTypeOK
    BY <2>1 DEF InspectionTypeOK
  <2> QED BY <2>1, <2>2, BoundAssumption DEF QueueTypeOK
<1>3. DeliveryTypeOK
  BY DEF Init, DeliveryTypeOK
<1> QED BY <1>1, <1>2, <1>3 DEF TypeOK

LEMMA JobAppended ==
  ASSUME QueueTypeOK, NEW j \in Jobs, HasRoom, queue' = Append(queue, j)
  PROVE  QueueTypeOK'
BY BoundAssumption DEF QueueTypeOK, HasRoom

LEMMA TypeStep == TypeOK /\ today \in Days /\ [Next]_vars => TypeOK'
<1> SUFFICES ASSUME TypeOK, today \in Days, [Next]_vars PROVE TypeOK'
  OBVIOUS
<1> USE DEF TypeOK
<1>w. UNCHANGED worldVars /\ UNCHANGED <<pc, outbox>> => WorldTypeOK'
  BY DEF WorldTypeOK, worldVars
<1>t. UNCHANGED trackerVars => TrackerTypeOK'
  BY DEF TrackerTypeOK, trackerVars
<1>i. UNCHANGED inspectionVars => InspectionTypeOK'
  BY DEF InspectionTypeOK, inspectionVars
<1>q. UNCHANGED queue => QueueTypeOK'
  BY DEF QueueTypeOK
<1>d. UNCHANGED deliveryVars => DeliveryTypeOK'
  BY DEF DeliveryTypeOK, deliveryVars
<1>1. CASE StartTick
  <2>1. WorldTypeOK' /\ TrackerTypeOK'
    BY <1>1 DEF StartTick, Elapse, worldVars, WorldTypeOK, TrackerTypeOK
  <2>2. InspectionTypeOK'
    BY <1>1 DEF StartTick, Elapse, InspectionTypeOK
  <2> QED BY <1>1, <1>q, <1>d, <2>1, <2>2 DEF StartTick
<1>2. CASE HandleResult
  <2> DEFINE r == Head(results)
  <2>1. results # <<>> /\ results' = Tail(results)
        /\ UNCHANGED <<worldVars, pc, outbox, tasks, alarms, summaries>>
    BY <1>2 DEF HandleResult
  <2>2. r \in [job : Jobs, ok : BOOLEAN]
    <3>1. results \in Seq([job : Jobs, ok : BOOLEAN])
      BY DEF DeliveryTypeOK
    <3> QED BY <2>1, <3>1, HeadTailProperties
  <2>3. /\ r.job.kind \in {"triggered", "resolved"} => r.job.of \in Alerts
        /\ r.job.kind = "inspection" => r.job.of \in Days /\ r.job.of \in Nat
        /\ r.ok \in BOOLEAN
    <3> HIDE DEF r
    <3>1. r.job \in Jobs /\ r.ok \in BOOLEAN
      BY <2>2
    <3> QED BY <3>1, JobsAre, DaysAre, Zenon
  <2>4. WorldTypeOK' /\ DeliveryTypeOK'
    BY <2>1 DEF WorldTypeOK, worldVars, DeliveryTypeOK
  <2> HIDE DEF r
  <2>5. ASSUME r.job.kind = "triggered", TriggerDelivered(r.job.of) PROVE TypeOK'
    <3>1. r.job.of \in Alerts /\ Resolved(r.job.of) \in Jobs
      BY <2>3, <2>5, JobsAre
    <3>2. TrackerTypeOK'
      BY <2>5, <3>1 DEF TriggerDelivered, Forget, TrackerTypeOK
    <3>3. QueueTypeOK'
      BY <2>5, <3>1, <1>q, JobAppended DEF TriggerDelivered
    <3> QED BY <1>i, <2>4, <2>5, <3>2, <3>3 DEF TriggerDelivered
  <2>6. ASSUME r.job.kind = "triggered", TriggerFailed(r.job.of) PROVE TypeOK'
    <3>1. TrackerTypeOK'
      BY <2>3, <2>6, DelayAssumption DEF TriggerFailed, TrackerTypeOK
    <3> QED BY <1>i, <1>q, <2>4, <2>6, <3>1 DEF TriggerFailed
  <2>7. ASSUME r.job.kind = "inspection", InspectionEnded(r.job.of, r.ok) PROVE TypeOK'
    <3>1. InspectionTypeOK'
      BY <2>3, <2>7, DelayAssumption DEF InspectionEnded, None, InspectionTypeOK
    <3> QED BY <1>t, <1>q, <2>4, <2>7, <3>1 DEF InspectionEnded
  <2>8. ASSUME UNCHANGED <<trackerVars, inspectionVars, queue>> PROVE TypeOK'
    BY <1>t, <1>i, <1>q, <2>4, <2>8
  <2> QED BY <1>2, <2>5, <2>6, <2>7, <2>8 DEF HandleResult, r
<1>3. CASE ResultsDrained
  <2>1. WorldTypeOK'
    BY <1>3 DEF ResultsDrained, WorldTypeOK, worldVars
  <2> QED BY <1>3, <1>t, <1>i, <1>q, <1>d, <2>1 DEF ResultsDrained
<1>4. CASE ClearAll
  <2>1. WorldTypeOK' /\ TrackerTypeOK' /\ InspectionTypeOK'
    BY <1>4 DEF ClearAll, Forget, None, worldVars, WorldTypeOK, TrackerTypeOK, InspectionTypeOK
  <2> QED BY <1>4, <1>q, <1>d, <2>1 DEF ClearAll
<1>5. CASE Evaluate
  <2> DEFINE due == Fresh \cup Repeated
             cleared == Gone \cap delivered \cap SendResolved
  <2>1. /\ Matching \subseteq Alerts /\ Gone \subseteq active \ Matching
        /\ due \subseteq Alerts /\ cleared \subseteq Alerts
    BY DEF Matching, Gone, Fresh, Repeated, WorldTypeOK, TrackerTypeOK
  <2>2. /\ pc' = "enqueue"
        /\ active' = Matching \cup (Gone \ delivered)
        /\ delivered' = delivered \cap Matching
        /\ resolved' = Gone \ delivered
        /\ wait' = [a \in Alerts |-> IF a \in due THEN Cooldown ELSE wait[a]]
        /\ outbox' = {Triggered(a) : a \in due} \cup {Resolved(a) : a \in cleared}
        /\ clears' = [a \in Alerts |-> IF a \in cleared THEN clears[a] + 1 ELSE clears[a]]
        /\ UNCHANGED <<worldVars, inspectionVars, queue, deliveryVars>>
    BY <1>5 DEF Evaluate
  <2>3. outbox' \subseteq Events
    BY <2>1, <2>2, JobsAre
  <2> HIDE DEF due, cleared
  <2>4. WorldTypeOK'
    BY <2>2, <2>3 DEF worldVars, WorldTypeOK
  <2>5. TrackerTypeOK'
    BY <2>1, <2>2, DelayAssumption DEF TrackerTypeOK
  <2> QED BY <1>i, <1>q, <1>d, <2>2, <2>4, <2>5
<1>6. ASSUME NEW e \in outbox, Enqueue(e) PROVE TypeOK'
  <2>1. e \in Events /\ e \in Jobs /\ e.of \in Alerts
    BY JobsAre DEF WorldTypeOK
  <2>2. WorldTypeOK'
    BY <1>6 DEF Enqueue, worldVars, WorldTypeOK
  <2>3. TrackerTypeOK'
    BY <1>6, <2>1, DelayAssumption DEF Enqueue, TrackerTypeOK
  <2>4. QueueTypeOK'
    BY <1>6, <1>q, <2>1, JobAppended DEF Enqueue
  <2> QED BY <1>6, <1>i, <1>d, <2>2, <2>3, <2>4 DEF Enqueue
<1>7. CASE Inspect
  <2>1. Inspection(today) \in Jobs /\ today \in Nat
    BY JobsAre, DaysAre
  <2>2. WorldTypeOK'
    BY <1>7 DEF Inspect, worldVars, WorldTypeOK
  <2>3. InspectionTypeOK'
    BY <1>7, <2>1, DelayAssumption DEF Inspect, None, InspectionTypeOK
  <2>4. QueueTypeOK'
    BY <1>7, <1>q, <2>1, JobAppended DEF Inspect
  <2> QED BY <1>7, <1>t, <1>d, <2>2, <2>3, <2>4 DEF Inspect
<1>8. CASE Dispatch
  <2>1. QueueTypeOK' /\ Head(queue) \in Jobs
    BY <1>8, BoundAssumption DEF Dispatch, QueueTypeOK
  <2>2. DeliveryTypeOK'
    BY <1>8, <2>1 DEF Dispatch, DeliveryTypeOK
  <2> QED BY <1>8, <1>w, <1>t, <1>i, <2>1, <2>2 DEF Dispatch
<1>9. ASSUME NEW j \in Jobs, NEW ok \in BOOLEAN, Deliver(j, ok) PROVE TypeOK'
  <2>1. results' \in Seq([job : Jobs, ok : BOOLEAN]) /\ tasks' \in [Jobs -> Nat]
    BY <1>9 DEF Deliver, DeliveryTypeOK
  <2>2. alarms' \in [Alerts -> Nat]
    <3>1. j.kind = "triggered" => j.of \in Alerts
      BY JobsAre
    <3>2. CASE ok /\ j.kind = "triggered"
      <4>1. alarms' = [alarms EXCEPT ![j.of] = alarms[j.of] + 1] /\ alarms \in [Alerts -> Nat]
        BY <1>9, <3>2 DEF Deliver, DeliveryTypeOK
      <4> QED BY <3>1, <3>2, <4>1
    <3>3. CASE ~(ok /\ j.kind = "triggered")
      BY <1>9, <3>3 DEF Deliver, DeliveryTypeOK
    <3> QED BY <3>2, <3>3
  <2>3. summaries' \in [Days -> Nat]
    <3>1. j.kind = "inspection" => j.of \in Days
      BY JobsAre
    <3>2. CASE ok /\ j.kind = "inspection"
      BY <1>9, <3>1, <3>2 DEF Deliver, DeliveryTypeOK
    <3>3. CASE ~(ok /\ j.kind = "inspection")
      BY <1>9, <3>3 DEF Deliver, DeliveryTypeOK
    <3> QED BY <3>2, <3>3
  <2>4. DeliveryTypeOK'
    BY <2>1, <2>2, <2>3 DEF DeliveryTypeOK
  <2> QED BY <1>9, <1>w, <1>t, <1>i, <1>q, <2>4 DEF Deliver
<1>10. CASE NodesChange \/ OperatorEdits \/ ClockAdvances
  <2>1. WorldTypeOK'
    <3>1. CASE NodesChange
      BY <3>1 DEF NodesChange, WorldTypeOK
    <3>2. CASE OperatorEdits
      BY <3>2 DEF OperatorEdits, WorldTypeOK
    <3>3. CASE ClockAdvances
      <4>1. today' \in Nat
        BY <3>3, BoundAssumption DEF ClockAdvances, WorldTypeOK
      <4>2. afterTime' \in BOOLEAN
        BY <3>3 DEF ClockAdvances, WorldTypeOK
      <4> QED BY <3>3, <4>1, <4>2 DEF ClockAdvances, WorldTypeOK
    <3> QED BY <1>10, <3>1, <3>2, <3>3
  <2> QED BY <1>10, <1>t, <1>i, <1>q, <1>d, <2>1 DEF NodesChange, OperatorEdits, ClockAdvances
<1>11. CASE UNCHANGED vars
  <2>1. UNCHANGED <<worldVars, pc, outbox, trackerVars, inspectionVars, queue, deliveryVars>>
    BY <1>11 DEF vars, worldVars, trackerVars, inspectionVars, deliveryVars
  <2> QED BY <1>w, <1>t, <1>i, <1>q, <1>d, <2>1
<1> QED BY <1>1, <1>2, <1>3, <1>4, <1>5, <1>6, <1>7, <1>8, <1>9, <1>10, <1>11
        DEF Next, Tick, Delivery

(***************************************************************************)
(* Where a job is under way: in the channel, as a task, or in a result.    *)
(***************************************************************************)

LEMMA UnderWayAppended ==
  ASSUME TypeOK, NEW k \in Jobs, queue' = Append(queue, k), UNCHANGED <<tasks, results>>
  PROVE  \A j \in Jobs : UnderWay(j)' <=> UnderWay(j) \/ j = k
<1> SUFFICES ASSUME NEW j \in Jobs PROVE UnderWay(j)' <=> UnderWay(j) \/ j = k
  OBVIOUS
<1>1. /\ Len(queue) \in Nat /\ Len(queue') = Len(queue) + 1
      /\ \A i \in 1..Len(queue) : queue'[i] = queue[i]
      /\ queue'[Len(queue) + 1] = k
  BY DEF TypeOK, QueueTypeOK
<1>2. (\E i \in 1..Len(queue') : queue'[i] = j) <=> (\E i \in 1..Len(queue) : queue[i] = j) \/ j = k
  BY <1>1
<1> QED BY <1>2 DEF UnderWay

LEMMA UnderWayDispatched == TypeOK /\ Dispatch => \A j \in Jobs : UnderWay(j)' <=> UnderWay(j)
<1> SUFFICES ASSUME TypeOK, Dispatch, NEW j \in Jobs PROVE UnderWay(j)' <=> UnderWay(j)
  OBVIOUS
<1>1. /\ queue \in Seq(Jobs) /\ queue # <<>> /\ queue' = Tail(queue)
      /\ tasks \in [Jobs -> Nat] /\ tasks' = [tasks EXCEPT ![Head(queue)] = @ + 1]
      /\ results' = results
  BY DEF Dispatch, TypeOK, QueueTypeOK, DeliveryTypeOK
<1>2. /\ Len(queue) \in Nat \ {0} /\ Len(queue') = Len(queue) - 1 /\ Head(queue) = queue[1]
      /\ Head(queue) \in Jobs
      /\ \A i \in 1..Len(queue) - 1 : queue'[i] = queue[i + 1]
  BY <1>1
<1>3. tasks'[j] > 0 <=> tasks[j] > 0 \/ j = queue[1]
  BY <1>1, <1>2
<1>4. (\E i \in 1..Len(queue) : queue[i] = j) <=> (\E i \in 1..Len(queue') : queue'[i] = j) \/ queue[1] = j
  <2>1. \A i \in 1..Len(queue) : i = 1 \/ (i - 1 \in 1..Len(queue') /\ queue'[i - 1] = queue[i])
    BY <1>2
  <2>2. \A i \in 1..Len(queue') : i + 1 \in 1..Len(queue) /\ queue'[i] = queue[i + 1]
    BY <1>2
  <2>3. 1 \in 1..Len(queue)
    BY <1>2
  <2> QED BY <2>1, <2>2, <2>3
<1> QED BY <1>1, <1>3, <1>4 DEF UnderWay

LEMMA UnderWayDelivered ==
  ASSUME TypeOK, NEW k \in Jobs, NEW ok \in BOOLEAN, Deliver(k, ok)
  PROVE  \A j \in Jobs : UnderWay(j)' <=> UnderWay(j)
<1> SUFFICES ASSUME NEW j \in Jobs PROVE UnderWay(j)' <=> UnderWay(j)
  OBVIOUS
<1>1. /\ tasks \in [Jobs -> Nat] /\ tasks[k] > 0 /\ tasks' = [tasks EXCEPT ![k] = @ - 1]
      /\ results \in Seq([job : Jobs, ok : BOOLEAN])
      /\ results' = Append(results, [job |-> k, ok |-> ok])
      /\ queue' = queue
  BY DEF Deliver, TypeOK, DeliveryTypeOK
<1>2. /\ Len(results) \in Nat /\ Len(results') = Len(results) + 1
      /\ \A i \in 1..Len(results) : results'[i] = results[i]
      /\ results'[Len(results) + 1].job = k
  BY <1>1
<1>3. (\E i \in 1..Len(results') : results'[i].job = j)
        <=> (\E i \in 1..Len(results) : results[i].job = j) \/ j = k
  BY <1>2
<1>4. (tasks'[j] > 0 => tasks[j] > 0) /\ (tasks[j] > 0 => tasks'[j] > 0 \/ j = k) /\ tasks[k] > 0
  BY <1>1
<1> QED BY <1>1, <1>3, <1>4 DEF UnderWay

\* A result that is read takes its job with it; a Resolved event may follow.
LEMMA UnderWayHandled ==
  ASSUME TypeOK, HandleResult
  PROVE  \A j \in Jobs : j.kind = "inspection" =>
           /\ UnderWay(j) => UnderWay(j)' \/ j = Head(results).job
           /\ UnderWay(j)' => UnderWay(j)
           /\ Head(results).job = j => UnderWay(j)
<1> SUFFICES ASSUME NEW j \in Jobs, j.kind = "inspection"
             PROVE  /\ UnderWay(j) => UnderWay(j)' \/ j = Head(results).job
                    /\ UnderWay(j)' => UnderWay(j)
                    /\ Head(results).job = j => UnderWay(j)
  OBVIOUS
<1>1. /\ results \in Seq([job : Jobs, ok : BOOLEAN]) /\ results # <<>>
      /\ results' = Tail(results) /\ tasks' = tasks
  BY DEF HandleResult, TypeOK, DeliveryTypeOK
<1>2. /\ Len(results) \in Nat \ {0} /\ Len(results') = Len(results) - 1
      /\ Head(results) = results[1]
      /\ \A i \in 1..Len(results) - 1 : results'[i] = results[i + 1]
  BY <1>1
<1>3. (\E i \in 1..Len(results) : results[i].job = j)
        <=> (\E i \in 1..Len(results') : results'[i].job = j) \/ results[1].job = j
  <2>1. \A i \in 1..Len(results) :
          i = 1 \/ (i - 1 \in 1..Len(results') /\ results'[i - 1] = results[i])
    BY <1>2
  <2>2. \A i \in 1..Len(results') : i + 1 \in 1..Len(results) /\ results'[i] = results[i + 1]
    BY <1>2
  <2>3. 1 \in 1..Len(results)
    BY <1>2
  <2> QED BY <2>1, <2>2, <2>3
<1>4. (\E i \in 1..Len(queue') : queue'[i] = j) <=> (\E i \in 1..Len(queue) : queue[i] = j)
  <2>1. \/ queue' = queue
        \/ \E a : queue' = Append(queue, Resolved(a))
    BY DEF HandleResult, TriggerDelivered, TriggerFailed, InspectionEnded
  <2>2. ASSUME NEW a, queue' = Append(queue, Resolved(a))
        PROVE (\E i \in 1..Len(queue') : queue'[i] = j) <=> (\E i \in 1..Len(queue) : queue[i] = j)
    <3>1. /\ Len(queue) \in Nat /\ Len(queue') = Len(queue) + 1
          /\ \A i \in 1..Len(queue) : queue'[i] = queue[i]
          /\ queue'[Len(queue) + 1] = Resolved(a)
      BY <2>2 DEF TypeOK, QueueTypeOK
    <3>2. Resolved(a) # j
      BY JobsDiffer
    <3> QED BY <3>1, <3>2
  <2> QED BY <2>1, <2>2
<1> QED BY <1>1, <1>2, <1>3, <1>4 DEF UnderWay

(***************************************************************************)
(* Dates.                                                                  *)
(***************************************************************************)

\* Steps that leave the jobs and the state of the inspection alone.
LEMMA Elsewhere ==
  ASSUME AlertInv, UNCHANGED <<queue, tasks, results, lastSent, pendingDate>>,
         today' \in Days, today <= today', lastSent < today' \/ today' = today
  PROVE  Calendar' /\ NothingAhead' /\ PendingHasJob'
<1>1. \A j : UnderWay(j)' <=> UnderWay(j)
  BY DEF UnderWay
<1>2. today \in Nat /\ today' \in Nat /\ lastSent \in Nat /\ pendingDate \in Nat
  BY DaysAre DEF AlertInv, TypeOK, WorldTypeOK, InspectionTypeOK
<1>3. Calendar'
  BY <1>2 DEF AlertInv, Calendar
<1>4. NothingAhead'
  BY <1>1, <1>2, DaysAre DEF AlertInv, NothingAhead
<1>5. PendingHasJob'
  BY <1>1 DEF AlertInv, PendingHasJob
<1> QED BY <1>3, <1>4, <1>5

\* Steps that move jobs without adding or ending any.
LEMMA JobsKept ==
  ASSUME AlertInv, UNCHANGED <<today, lastSent, pendingDate>>,
         \A j \in Jobs : j.kind = "inspection" => (UnderWay(j)' <=> UnderWay(j))
  PROVE  Calendar' /\ NothingAhead' /\ PendingHasJob'
<1>1. \A d \in Days : UnderWay(Inspection(d))' <=> UnderWay(Inspection(d))
  BY JobsAre, JobsDiffer
<1>2. pendingDate # None => pendingDate \in Days
  BY BoundAssumption DEF AlertInv, Calendar, TypeOK, InspectionTypeOK, None, Days
<1>3. Calendar'
  BY DEF AlertInv, Calendar
<1>4. NothingAhead'
  BY <1>1 DEF AlertInv, NothingAhead
<1>5. PendingHasJob'
  BY <1>1, <1>2 DEF AlertInv, PendingHasJob
<1> QED BY <1>3, <1>4, <1>5

LEMMA CalendarStep == AlertInv /\ [Next]_vars => Calendar' /\ NothingAhead' /\ PendingHasJob'
<1> SUFFICES ASSUME AlertInv, [Next]_vars PROVE Calendar' /\ NothingAhead' /\ PendingHasJob'
  OBVIOUS
<1>0. /\ TypeOK /\ today \in Days /\ today \in Nat /\ lastSent \in Nat /\ pendingDate \in Nat
      /\ lastSent <= today /\ pendingDate <= today
      /\ pendingDate # None => pendingDate \in Days
  <2>1. TypeOK /\ today \in Days /\ lastSent <= today /\ pendingDate <= today
    BY DEF AlertInv, Calendar
  <2> QED BY <2>1, DaysAre, BoundAssumption
          DEF TypeOK, WorldTypeOK, InspectionTypeOK, None, Days
<1>1. CASE StartTick \/ ResultsDrained \/ Evaluate \/ NodesChange \/ OperatorEdits
  BY <1>0, <1>1, Elsewhere
    DEF StartTick, ResultsDrained, Evaluate, NodesChange, OperatorEdits,
        worldVars, inspectionVars, deliveryVars
<1>2. CASE ClockAdvances
  <2>1. today' \in Days /\ (today' = today \/ today' = today + 1)
    BY <1>0, <1>2, BoundAssumption DEF ClockAdvances, Days
  <2> QED BY <1>0, <1>2, <2>1, Elsewhere DEF ClockAdvances, inspectionVars, deliveryVars
<1>3. CASE HandleResult
  <2> DEFINE r == Head(results)
  <2>1. /\ UNCHANGED today
        /\ \/ UNCHANGED <<lastSent, pendingDate>> /\ r.job.kind # "inspection"
           \/ /\ r.job.kind = "inspection" /\ pendingDate' = None
              /\ lastSent' \in {lastSent, r.job.of}
    BY <1>3 DEF HandleResult, TriggerDelivered, TriggerFailed, InspectionEnded,
                inspectionVars, worldVars
  <2>2. \A j \in Jobs : j.kind = "inspection" =>
          /\ UnderWay(j) => UnderWay(j)' \/ j = r.job
          /\ UnderWay(j)' => UnderWay(j)
          /\ r.job = j => UnderWay(j)
    BY <1>0, <1>3, UnderWayHandled
  <2>3. r.job \in Jobs
    <3>1. results \in Seq([job : Jobs, ok : BOOLEAN]) /\ results # <<>>
      BY <1>0, <1>3 DEF TypeOK, DeliveryTypeOK, HandleResult
    <3>2. r \in [job : Jobs, ok : BOOLEAN]
      BY <3>1, HeadTailProperties
    <3> QED BY <3>2
  <2> HIDE DEF r
  <2>4. CASE UNCHANGED <<lastSent, pendingDate>> /\ r.job.kind # "inspection"
    <3>1. \A j \in Jobs : j.kind = "inspection" => (UnderWay(j)' <=> UnderWay(j))
      BY <2>2, <2>4
    <3> QED BY <2>1, <2>4, <3>1, JobsKept
  <2>5. CASE /\ r.job.kind = "inspection" /\ pendingDate' = None
             /\ lastSent' \in {lastSent, r.job.of}
    <3>1. r.job.of \in Days /\ r.job = Inspection(r.job.of)
      BY <2>3, <2>5, JobsAre
    <3>2. r.job.of <= today
      BY <2>2, <2>3, <2>5, <3>1 DEF AlertInv, NothingAhead
    <3>3. Calendar'
      BY <1>0, <2>1, <2>5, <3>2 DEF AlertInv, Calendar, None
    <3>4. NothingAhead'
      BY <2>1, <2>2, JobsAre, JobsDiffer DEF AlertInv, NothingAhead
    <3>5. PendingHasJob'
      BY <2>5 DEF PendingHasJob
    <3> QED BY <3>3, <3>4, <3>5
  <2> QED BY <2>1, <2>4, <2>5
<1>4. CASE ClearAll
  <2>1. \A j : UnderWay(j)' <=> UnderWay(j)
    BY <1>4 DEF ClearAll, deliveryVars, UnderWay
  <2>2. today' = today /\ lastSent' = 0 /\ pendingDate' = 0
    BY <1>4 DEF ClearAll, worldVars, None
  <2>3. Calendar'
    BY <1>0, <2>2 DEF Calendar, None
  <2>4. NothingAhead'
    BY <2>1, <2>2 DEF AlertInv, NothingAhead
  <2> QED BY <2>2, <2>3, <2>4 DEF PendingHasJob, None
<1>5. ASSUME NEW e \in outbox, Enqueue(e)
      PROVE  Calendar' /\ NothingAhead' /\ PendingHasJob'
  <2>1. e \in Jobs /\ e.kind # "inspection"
    BY <1>0, JobsAre DEF TypeOK, WorldTypeOK
  <2>2. UNCHANGED <<today, lastSent, pendingDate, tasks, results>>
    BY <1>5 DEF Enqueue, worldVars, inspectionVars, deliveryVars
  <2>3. queue' = queue \/ queue' = Append(queue, e)
    BY <1>5 DEF Enqueue
  <2>4. ASSUME queue' = queue PROVE \A j \in Jobs : UnderWay(j)' <=> UnderWay(j)
    BY <2>2, <2>4 DEF UnderWay
  <2>5. ASSUME queue' = Append(queue, e)
        PROVE  \A j \in Jobs : j.kind = "inspection" => (UnderWay(j)' <=> UnderWay(j))
    BY <1>0, <2>1, <2>2, <2>5, UnderWayAppended
  <2> QED BY <2>2, <2>3, <2>4, <2>5, JobsKept
<1>6. CASE Inspect
  <2>1. UNCHANGED <<today, lastSent, tasks, results>>
    BY <1>6 DEF Inspect, worldVars, deliveryVars
  <2>2. CASE ~Due /\ UNCHANGED <<pendingDate, failWait, queue>>
    BY <1>0, <2>1, <2>2, Elsewhere
  <2>3. CASE Due /\ queue' = Append(queue, Inspection(today)) /\ pendingDate' = today
    <3>1. Inspection(today) \in Jobs
      BY <1>0, JobsAre
    <3>2. \A j \in Jobs : UnderWay(j)' <=> UnderWay(j) \/ j = Inspection(today)
      BY <1>0, <2>1, <2>3, <3>1, UnderWayAppended
    <3>3. \A d \in Days : UnderWay(Inspection(d))' <=> UnderWay(Inspection(d)) \/ d = today
      BY <3>2, JobsAre, JobsDiffer
    <3>4. Calendar'
      BY <1>0, <2>1, <2>3 DEF AlertInv, Calendar, Due
    <3>5. NothingAhead'
      BY <1>0, <2>1, <3>3 DEF AlertInv, NothingAhead
    <3>6. PendingHasJob'
      BY <1>0, <2>3, <3>3 DEF PendingHasJob
    <3> QED BY <3>4, <3>5, <3>6
  <2>4. CASE UNCHANGED queue /\ pendingDate' = None
    <3>1. \A j : UnderWay(j)' <=> UnderWay(j)
      BY <2>1, <2>4 DEF UnderWay
    <3>2. Calendar'
      BY <1>0, <2>1, <2>4 DEF AlertInv, Calendar, None
    <3>3. NothingAhead'
      BY <2>1, <3>1 DEF AlertInv, NothingAhead
    <3> QED BY <2>4, <3>2, <3>3 DEF PendingHasJob
  <2> QED BY <1>6, <2>2, <2>3, <2>4 DEF Inspect
<1>7. CASE Dispatch
  BY <1>0, <1>7, UnderWayDispatched, JobsKept DEF Dispatch, worldVars, inspectionVars
<1>8. ASSUME NEW k \in Jobs, NEW ok \in BOOLEAN, Deliver(k, ok)
      PROVE  Calendar' /\ NothingAhead' /\ PendingHasJob'
  BY <1>0, <1>8, UnderWayDelivered, JobsKept DEF Deliver, worldVars, inspectionVars
<1>9. CASE UNCHANGED vars
  BY <1>0, <1>9, Elsewhere DEF vars
<1> QED BY <1>1, <1>2, <1>3, <1>4, <1>5, <1>6, <1>7, <1>8, <1>9 DEF Next, Tick, Delivery

(***************************************************************************)
(* How often a result is in the result channel.                            *)
(***************************************************************************)

LEMMA ResultTaken ==
  ASSUME TypeOK, results # <<>>, results' = Tail(results), NEW x
  PROVE  /\ Count(results, x) \in Nat /\ Count(results', x) \in Nat
         /\ Count(results', x) = IF Head(results) = x THEN Count(results, x) - 1
                                                     ELSE Count(results, x)
<1>1. results \in Seq([job : Jobs, ok : BOOLEAN])
  BY DEF TypeOK, DeliveryTypeOK
<1>2. results' \in Seq([job : Jobs, ok : BOOLEAN])
  BY <1>1
<1> QED BY <1>1, <1>2, CountTail, CountNat

LEMMA ResultSent ==
  ASSUME TypeOK, NEW j \in Jobs, NEW ok \in BOOLEAN,
         results' = Append(results, [job |-> j, ok |-> ok]), NEW x
  PROVE  /\ Count(results, x) \in Nat
         /\ Count(results', x) = IF [job |-> j, ok |-> ok] = x THEN Count(results, x) + 1
                                                               ELSE Count(results, x)
<1>1. results \in Seq([job : Jobs, ok : BOOLEAN])
  BY DEF TypeOK, DeliveryTypeOK
<1> DEFINE S == [job : Jobs, ok : BOOLEAN]
           y == [job |-> j, ok |-> ok]
<1>2. y \in S /\ results \in Seq(S) /\ results' = Append(results, y)
  BY <1>1
<1> HIDE DEF S, y
<1>3. Count(results, x) \in Nat
  BY <1>2, CountNat
<1>4. Count(Append(results, y), x) = IF y = x THEN Count(results, x) + 1 ELSE Count(results, x)
  BY <1>2, CountAppend
<1> QED BY <1>2, <1>3, <1>4 DEF y

LEMMA ResultsCounted == TypeOK => \A x : Count(results, x) \in Nat
<1> SUFFICES ASSUME TypeOK, NEW x PROVE Count(results, x) \in Nat
  OBVIOUS
<1>1. results \in Seq([job : Jobs, ok : BOOLEAN])
  BY DEF TypeOK, DeliveryTypeOK
<1> QED BY <1>1, CountNat

(***************************************************************************)
(* All-clears and alarms.                                                  *)
(***************************************************************************)

LEMMA PaidStep == AlertInv /\ [Next]_vars => Paid'
<1> SUFFICES ASSUME AlertInv, [Next]_vars, NEW a \in Alerts
             PROVE  clears'[a] + Count(results', Pays(a))
                      + (IF a \in delivered' THEN 1 ELSE 0) <= alarms'[a]
  BY DEF Paid
<1> DEFINE due == IF a \in delivered THEN 1 ELSE 0
<1>0. /\ TypeOK
      /\ clears[a] \in Nat /\ alarms[a] \in Nat /\ Count(results, Pays(a)) \in Nat
      /\ clears[a] + Count(results, Pays(a)) + due <= alarms[a]
  BY ResultsCounted DEF AlertInv, Paid, TypeOK, TrackerTypeOK, DeliveryTypeOK
<1>1. ASSUME UNCHANGED <<results, alarms>>, clears'[a] = clears[a], a \in delivered' => a \in delivered
      PROVE  clears'[a] + Count(results', Pays(a))
                      + (IF a \in delivered' THEN 1 ELSE 0) <= alarms'[a]
  BY <1>0, <1>1
<1>2. CASE StartTick \/ ResultsDrained \/ NodesChange \/ OperatorEdits \/ ClockAdvances
  BY <1>1, <1>2
    DEF StartTick, ResultsDrained, NodesChange, OperatorEdits, ClockAdvances,
        trackerVars, deliveryVars
<1>3. CASE HandleResult
  <2> DEFINE r == Head(results)
  <2>1. /\ results # <<>> /\ results' = Tail(results) /\ alarms' = alarms
        /\ r \in [job : Jobs, ok : BOOLEAN]
    <3>1. results \in Seq([job : Jobs, ok : BOOLEAN])
      BY <1>0 DEF TypeOK, DeliveryTypeOK
    <3> QED BY <1>3, <3>1, HeadTailProperties DEF HandleResult
  <2>2. /\ Count(results', Pays(a)) \in Nat
        /\ Count(results', Pays(a)) = IF r = Pays(a) THEN Count(results, Pays(a)) - 1
                                                     ELSE Count(results, Pays(a))
    BY <1>0, <2>1, ResultTaken
  <2> HIDE DEF r
  <2>3. CASE r.job.kind = "triggered" /\ r.ok /\ TriggerDelivered(r.job.of)
    <3>1. r.job.of = a <=> r = Pays(a)
      <4>1. r.job = Triggered(r.job.of)
        BY <2>1, <2>3, JobsAre
      <4>2. r = [job |-> r.job, ok |-> r.ok] /\ r.ok = TRUE
        BY <2>1, <2>3
      <4> QED BY <4>1, <4>2, JobsDiffer DEF Pays
    <3>2. CASE r.job.of = a
      <4>1. CASE a \in resolved
        BY <1>0, <2>1, <2>2, <2>3, <3>1, <3>2, <4>1
          DEF TriggerDelivered, Forget, TypeOK, TrackerTypeOK
      <4>2. CASE a \notin resolved
        <5>1. clears' = clears
          BY <2>3, <3>2, <4>2 DEF TriggerDelivered
        <5> QED BY <1>0, <2>1, <2>2, <3>1, <3>2, <5>1
      <4> QED BY <4>1, <4>2
    <3>3. CASE r.job.of # a
      <4>1. clears'[a] = clears[a] /\ (a \in delivered' => a \in delivered)
        BY <1>0, <2>3, <3>3 DEF TriggerDelivered, Forget, TypeOK, TrackerTypeOK
      <4> QED BY <1>0, <2>1, <2>2, <3>1, <3>3, <4>1
    <3> QED BY <3>2, <3>3
  <2>4. CASE UNCHANGED <<clears, delivered>>
    BY <1>0, <2>1, <2>2, <2>4
  <2> QED BY <1>3, <2>3, <2>4
          DEF HandleResult, TriggerFailed, InspectionEnded, trackerVars, r
<1>4. CASE ClearAll
  BY <1>1, <1>4 DEF ClearAll, Forget, deliveryVars
<1>5. CASE Evaluate
  <2> DEFINE cleared == Gone \cap delivered \cap SendResolved
  <2>1. /\ UNCHANGED <<results, alarms>> /\ delivered' = delivered \cap Matching
        /\ clears'[a] = IF a \in cleared THEN clears[a] + 1 ELSE clears[a]
    BY <1>5 DEF Evaluate, deliveryVars
  <2>2. a \in cleared => a \in delivered /\ a \notin delivered'
    BY <2>1 DEF Gone
  <2> HIDE DEF cleared
  <2> QED BY <1>0, <2>1, <2>2
<1>6. ASSUME NEW e \in outbox, Enqueue(e)
      PROVE  clears'[a] + Count(results', Pays(a))
                      + (IF a \in delivered' THEN 1 ELSE 0) <= alarms'[a]
  BY <1>1, <1>6 DEF Enqueue, deliveryVars
<1>7. CASE Inspect
  BY <1>1, <1>7 DEF Inspect, trackerVars, deliveryVars
<1>8. CASE Dispatch
  BY <1>1, <1>8 DEF Dispatch, trackerVars
<1>9. ASSUME NEW j \in Jobs, NEW ok \in BOOLEAN, Deliver(j, ok)
      PROVE  clears'[a] + Count(results', Pays(a))
                      + (IF a \in delivered' THEN 1 ELSE 0) <= alarms'[a]
  <2>1. results' = Append(results, [job |-> j, ok |-> ok]) /\ UNCHANGED <<clears, delivered>>
    BY <1>9 DEF Deliver, trackerVars
  <2>2. Count(results', Pays(a)) = IF [job |-> j, ok |-> ok] = Pays(a)
                                   THEN Count(results, Pays(a)) + 1 ELSE Count(results, Pays(a))
    BY <1>0, <2>1, ResultSent
  <2>3. [job |-> j, ok |-> ok] = Pays(a) => ok /\ j.kind = "triggered" /\ j.of = a
    BY JobsDiffer DEF Pays
  <2>4. j.kind = "triggered" => j.of \in Alerts
    BY JobsAre
  <2>5. alarms'[a] = IF ok /\ j.kind = "triggered" /\ j.of = a THEN alarms[a] + 1 ELSE alarms[a]
    BY <1>0, <1>9, <2>4 DEF Deliver, TypeOK, DeliveryTypeOK
  <2> QED BY <1>0, <2>1, <2>2, <2>3, <2>5
<1>10. CASE UNCHANGED vars
  BY <1>1, <1>10 DEF vars
<1> QED BY <1>2, <1>3, <1>4, <1>5, <1>6, <1>7, <1>8, <1>9, <1>10 DEF Next, Tick, Delivery

(***************************************************************************)
(* One delivery per date.                                                  *)
(***************************************************************************)

LEMMA QueueCounted ==
  ASSUME TypeOK, NEW x
  PROVE  /\ Count(queue, x) \in Nat
         /\ \A j \in Jobs : queue' = Append(queue, j) =>
              Count(queue', x) = IF j = x THEN Count(queue, x) + 1 ELSE Count(queue, x)
         /\ queue # <<>> /\ queue' = Tail(queue) =>
              Count(queue', x) = IF Head(queue) = x THEN Count(queue, x) - 1
                                                    ELSE Count(queue, x)
<1>1. queue \in Seq(Jobs)
  BY DEF TypeOK, QueueTypeOK
<1>2. Count(queue, x) \in Nat
  BY <1>1, CountNat
<1>3. \A j \in Jobs : Count(Append(queue, j), x) = IF j = x THEN Count(queue, x) + 1
                                                            ELSE Count(queue, x)
  BY <1>1, CountAppend
<1>4. queue # <<>> => Count(Tail(queue), x) = IF Head(queue) = x THEN Count(queue, x) - 1
                                                                 ELSE Count(queue, x)
  BY <1>1, CountTail
<1> QED BY <1>2, <1>3, <1>4

LEMMA DeliveriesCounted ==
  TypeOK => \A d \in Days : /\ summaries[d] \in Nat /\ tasks[Inspection(d)] \in Nat
                            /\ Count(queue, Inspection(d)) \in Nat
                            /\ Count(results, ReportFailed(d)) \in Nat
                            /\ Open(d) \in Nat /\ Told(d) \in Nat
<1> SUFFICES ASSUME TypeOK, NEW d \in Days
             PROVE  /\ summaries[d] \in Nat /\ tasks[Inspection(d)] \in Nat
                    /\ Count(queue, Inspection(d)) \in Nat
                    /\ Count(results, ReportFailed(d)) \in Nat
                    /\ Open(d) \in Nat /\ Told(d) \in Nat
  OBVIOUS
<1>1. summaries[d] \in Nat /\ tasks[Inspection(d)] \in Nat
  BY JobsAre DEF TypeOK, DeliveryTypeOK
<1>2. Count(queue, Inspection(d)) \in Nat
  BY QueueCounted
<1>3. Count(results, ReportFailed(d)) \in Nat /\ Count(results, ReportSent(d)) \in Nat
  BY ResultsCounted
<1> QED BY <1>1, <1>2, <1>3 DEF Open, Told

\* Steps that only move jobs about.
LEMMA OneDeliveryKept ==
  ASSUME AlertInv, ~disturbed, UNCHANGED <<today, lastSent, pendingDate, summaries>>,
         \A d \in Days : Open(d)' = Open(d) /\ Told(d)' = Told(d)
  PROVE  OneDelivery'
<1>1. OneDelivery /\ today \in Days
  BY DEF AlertInv, Calendar
<1> QED BY <1>1 DEF OneDelivery

LEMMA OneDeliveryStep == AlertInv /\ [Next]_vars => (~disturbed' => OneDelivery')
<1> SUFFICES ASSUME AlertInv, [Next]_vars, ~disturbed' PROVE OneDelivery'
  OBVIOUS
<1>0. TypeOK /\ today \in Days /\ today \in Nat
  BY DaysAre DEF AlertInv, Calendar
<1>d. \A d \in Days : /\ summaries[d] \in Nat /\ tasks[Inspection(d)] \in Nat
                      /\ Count(queue, Inspection(d)) \in Nat
                      /\ Count(results, ReportFailed(d)) \in Nat
                      /\ Open(d) \in Nat /\ Told(d) \in Nat
  BY <1>0, DeliveriesCounted
<1>u. UNCHANGED <<queue, tasks, results>> => \A d \in Days : Open(d)' = Open(d) /\ Told(d)' = Told(d)
  BY DEF Open, Told
<1>1. CASE StartTick \/ ResultsDrained \/ Evaluate \/ NodesChange \/ OperatorEdits
  <2>1. UNCHANGED <<disturbed, today, lastSent, pendingDate, queue, tasks, results, summaries>>
    BY <1>1 DEF StartTick, ResultsDrained, Evaluate, NodesChange, OperatorEdits,
                worldVars, inspectionVars, deliveryVars
  <2> QED BY <1>u, <2>1, OneDeliveryKept
<1>2. CASE ClockAdvances
  <2>1. /\ UNCHANGED <<disturbed, lastSent, pendingDate, queue, tasks, results, summaries>>
        /\ today' = today \/ (today' = today + 1 /\ today' \in Days)
    BY <1>0, <1>2, BoundAssumption DEF ClockAdvances, Days, inspectionVars, deliveryVars
  <2>2. CASE today' = today
    BY <1>u, <2>1, <2>2, OneDeliveryKept
  <2>3. CASE today' = today + 1 /\ today' \in Days
    <3>1. OneDelivery
      BY <2>1 DEF AlertInv
    <3>2. \A d \in Days : d \in Nat /\ (d > today' => d > today)
      BY <1>0, <2>3, DaysAre
    <3>3. summaries[today'] = 0 /\ Open(today') = 0 /\ Told(today') = 0
      BY <1>0, <1>d, <2>3, <3>1 DEF OneDelivery
    <3>4. \A d \in Days : Open(d)' = Open(d) /\ Told(d)' = Told(d)
      BY <1>u, <2>1
    <3>5. Open(today)' = 0 /\ Told(today)' = 0
      BY <2>3, <3>3, <2>1 DEF Open, Told
    <3> QED BY <2>1, <2>3, <3>1, <3>2, <3>3, <3>4, <3>5 DEF OneDelivery
  <2> QED BY <2>1, <2>2, <2>3
<1>3. CASE HandleResult
  <2> DEFINE r == Head(results)
  <2>1. /\ results # <<>> /\ results' = Tail(results) /\ UNCHANGED <<today, tasks, summaries>>
        /\ r \in [job : Jobs, ok : BOOLEAN]
    <3>1. results \in Seq([job : Jobs, ok : BOOLEAN])
      BY <1>0 DEF TypeOK, DeliveryTypeOK
    <3> QED BY <1>3, <3>1, HeadTailProperties DEF HandleResult, worldVars
  <2>2. \A x : /\ Count(results', x) \in Nat
               /\ Count(results', x) = IF r = x THEN Count(results, x) - 1 ELSE Count(results, x)
    BY <1>0, <2>1, ResultTaken
  <2>3. \/ /\ r.job.kind # "inspection" /\ UNCHANGED inspectionVars
           /\ queue' = queue \/ \E a \in Alerts : queue' = Append(queue, Resolved(a))
        \/ r.job.kind = "inspection" /\ InspectionEnded(r.job.of, r.ok)
    <3>1. r.job.kind = "triggered" => r.job.of \in Alerts
      BY <2>1, JobsAre
    <3> QED BY <1>3, <3>1 DEF HandleResult, TriggerDelivered, TriggerFailed, inspectionVars
  <2> HIDE DEF r
  <2>4. CASE /\ r.job.kind # "inspection" /\ UNCHANGED inspectionVars
             /\ queue' = queue \/ \E a \in Alerts : queue' = Append(queue, Resolved(a))
    <3>1. \A d \in Days : Count(queue', Inspection(d)) = Count(queue, Inspection(d))
      BY <1>0, <2>4, JobsAre, JobsDiffer, QueueCounted
    <3>2. \A d \in Days : /\ Count(results', ReportSent(d)) = Count(results, ReportSent(d))
                          /\ Count(results', ReportFailed(d)) = Count(results, ReportFailed(d))
      BY <2>2, <2>4, JobsDiffer
    <3>3. \A d \in Days : Open(d)' = Open(d) /\ Told(d)' = Told(d)
      BY <2>1, <3>1, <3>2 DEF Open, Told
    <3> QED BY <2>1, <2>4, <3>3, OneDeliveryKept DEF inspectionVars
  <2>5. CASE r.job.kind = "inspection" /\ InspectionEnded(r.job.of, r.ok)
    <3> DEFINE d == r.job.of
    <3>1. d \in Days /\ d \in Nat /\ r.ok \in BOOLEAN
          /\ r = [job |-> Inspection(d), ok |-> r.ok]
      <4>1. r.job \in Jobs /\ r.ok \in BOOLEAN /\ r = [job |-> r.job, ok |-> r.ok]
        BY <2>1
      <4>2. d \in Days /\ r.job = Inspection(d)
        BY <2>5, <4>1, JobsAre
      <4> QED BY <4>1, <4>2, DaysAre
    <3>2. /\ pendingDate = d /\ ~disturbed /\ queue' = queue
          /\ pendingDate' = None /\ lastSent' = IF r.ok THEN d ELSE lastSent
      BY <2>5 DEF InspectionEnded
    <3>3. OneDelivery
      BY <3>2 DEF AlertInv
    <3> HIDE DEF d
    <3>4. \A e \in Days : /\ r = ReportSent(e) <=> e = d /\ r.ok
                          /\ r = ReportFailed(e) <=> e = d /\ ~r.ok
      <4>1. CASE r.ok
        BY <3>1, <4>1, JobsDiffer DEF ReportSent, ReportFailed
      <4>2. CASE ~r.ok
        BY <3>1, <4>2, JobsDiffer DEF ReportSent, ReportFailed
      <4> QED BY <4>1, <4>2
    <3>5. \A e \in Days :
            /\ Told(e)' \in Nat /\ Open(e)' \in Nat
            /\ Told(e)' = IF e = d /\ r.ok THEN Told(e) - 1 ELSE Told(e)
            /\ Open(e)' = IF e = d /\ ~r.ok THEN Open(e) - 1 ELSE Open(e)
      <4> SUFFICES ASSUME NEW e \in Days
                   PROVE  /\ Told(e)' \in Nat /\ Open(e)' \in Nat
                          /\ Told(e)' = IF e = d /\ r.ok THEN Told(e) - 1 ELSE Told(e)
                          /\ Open(e)' = IF e = d /\ ~r.ok THEN Open(e) - 1 ELSE Open(e)
        OBVIOUS
      <4>1. /\ Count(results', ReportSent(e)) \in Nat /\ Count(results', ReportFailed(e)) \in Nat
            /\ Count(results', ReportSent(e)) = IF e = d /\ r.ok
                 THEN Count(results, ReportSent(e)) - 1 ELSE Count(results, ReportSent(e))
            /\ Count(results', ReportFailed(e)) = IF e = d /\ ~r.ok
                 THEN Count(results, ReportFailed(e)) - 1 ELSE Count(results, ReportFailed(e))
        BY <2>2, <3>1, <3>4
      <4>2. /\ Count(queue', Inspection(e)) = Count(queue, Inspection(e))
            /\ tasks'[Inspection(e)] = tasks[Inspection(e)]
        BY <2>1, <3>2
      <4> QED BY <1>d, <4>1, <4>2 DEF Open, Told
    <3>6. \A e \in Days : /\ summaries'[e] + Open(e)' <= 1 /\ Told(e)' <= summaries'[e]
                          /\ e > today => summaries'[e] = 0 /\ Open(e)' = 0
      BY <1>d, <2>1, <3>3, <3>5 DEF OneDelivery
    <3>7. \A e \in Days : e = today => Open(e)' = 0 /\ Told(e)' = 0
      <4> SUFFICES ASSUME NEW e \in Days, e = today PROVE Open(e)' = 0 /\ Told(e)' = 0
        OBVIOUS
      <4>1. CASE e = d
        <5>1. Open(e) + Told(e) <= 1
          BY <1>0, <1>d, <3>3 DEF OneDelivery
        <5> QED BY <1>d, <3>1, <3>5, <4>1, <5>1
      <4>2. CASE e # d
        <5>1. Open(e) + Told(e) = 0
          BY <1>0, <1>d, <3>2, <3>3, <4>2 DEF OneDelivery
        <5> QED BY <1>d, <3>5, <4>2, <5>1
      <4> QED BY <4>1, <4>2
    <3>8. Open(today)' = 0 /\ Told(today)' = 0
      BY <1>0, <2>1, <3>7 DEF Open, Told
    <3>9. summaries'[today] > 0 => lastSent' = today
      <4> SUFFICES ASSUME summaries[today] > 0 PROVE lastSent' = today
        BY <2>1
      <4>1. lastSent # today
        BY <3>1, <3>2, DaysAre DEF AlertInv, Calendar
      <4>2. Told(today) > 0
        BY <3>3, <4>1 DEF OneDelivery
      <4>3. d = today /\ Open(today) = 0
        BY <1>0, <1>d, <3>2, <3>3, <4>2 DEF OneDelivery
      <4>4. r.ok
        BY <1>0, <3>1, <3>5, <4>3
      <4> QED BY <3>2, <4>3, <4>4
    <3> QED BY <2>1, <3>6, <3>8, <3>9 DEF OneDelivery
  <2> QED BY <2>3, <2>4, <2>5
<1>4. CASE ClearAll
  <2>1. /\ lastSent = None /\ pendingDate = None /\ ~disturbed
        /\ lastSent' = None /\ pendingDate' = None
        /\ UNCHANGED <<today, queue, tasks, results, summaries>>
    BY <1>4 DEF ClearAll, worldVars, deliveryVars
  <2> QED BY <1>u, <2>1, OneDeliveryKept
<1>5. ASSUME NEW e \in outbox, Enqueue(e) PROVE OneDelivery'
  <2>1. e \in Jobs /\ e.kind # "inspection"
    BY <1>0, JobsAre DEF TypeOK, WorldTypeOK
  <2>2. /\ UNCHANGED <<disturbed, today, lastSent, pendingDate, tasks, results, summaries>>
        /\ queue' = queue \/ queue' = Append(queue, e)
    BY <1>5 DEF Enqueue, worldVars, inspectionVars, deliveryVars
  <2>3. \A d \in Days : Count(queue', Inspection(d)) = Count(queue, Inspection(d))
    BY <1>0, <2>1, <2>2, JobsDiffer, QueueCounted
  <2>4. \A d \in Days : Open(d)' = Open(d) /\ Told(d)' = Told(d)
    BY <2>2, <2>3 DEF Open, Told
  <2> QED BY <2>2, <2>4, OneDeliveryKept
<1>6. CASE Inspect
  <2>1. UNCHANGED <<disturbed, today, lastSent, tasks, results, summaries>> /\ ~disturbed
    BY <1>6 DEF Inspect, worldVars, deliveryVars
  <2>2. OneDelivery
    BY <2>1 DEF AlertInv
  <2>3. CASE ~Due /\ UNCHANGED <<pendingDate, failWait, queue>>
    BY <1>u, <2>1, <2>3, OneDeliveryKept
  <2>i. Due => today # lastSent /\ today # pendingDate
    BY DEF Due
  <2>4. Due => Open(today) = 0 /\ Told(today) = 0 /\ summaries[today] = 0
    BY <1>0, <1>d, <2>2, <2>i DEF OneDelivery
  <2>5. CASE Due /\ queue' = Append(queue, Inspection(today)) /\ pendingDate' = today
    <3>1. \A d \in Days : Open(d)' = IF d = today THEN 1 ELSE Open(d)
      <4> SUFFICES ASSUME NEW d \in Days PROVE Open(d)' = IF d = today THEN 1 ELSE Open(d)
        OBVIOUS
      <4>1. Count(queue', Inspection(d)) = IF d = today THEN Count(queue, Inspection(d)) + 1
                                                        ELSE Count(queue, Inspection(d))
        <5>1. Inspection(today) \in Jobs /\ (Inspection(today) = Inspection(d) <=> d = today)
          BY <1>0, JobsAre, JobsDiffer
        <5> QED BY <1>0, <2>5, <5>1, QueueCounted
      <4>2. tasks' = tasks /\ results' = results
        BY <2>1
      <4>3. d = today => Open(d) = 0
        BY <2>4, <2>5
      <4> QED BY <1>d, <4>1, <4>2, <4>3 DEF Open
    <3>2. \A d \in Days : Told(d)' = Told(d)
      BY <2>1 DEF Told
    <3>3. \A d \in Days : /\ summaries'[d] + Open(d)' <= 1 /\ Told(d)' <= summaries'[d]
                          /\ d > today => summaries'[d] = 0 /\ Open(d)' = 0
      <4> SUFFICES ASSUME NEW d \in Days
                   PROVE  /\ summaries'[d] + Open(d)' <= 1 /\ Told(d)' <= summaries'[d]
                          /\ d > today => summaries'[d] = 0 /\ Open(d)' = 0
        OBVIOUS
      <4>1. CASE d = today
        BY <1>0, <1>d, <2>1, <2>4, <2>5, <3>1, <3>2, <4>1
      <4>2. CASE d # today
        BY <1>d, <2>1, <2>2, <3>1, <3>2, <4>2 DEF OneDelivery
      <4> QED BY <4>1, <4>2
    <3>4. summaries'[today'] = 0 /\ pendingDate' = today'
      BY <1>0, <2>1, <2>4, <2>5
    <3> QED BY <2>1, <3>3, <3>4 DEF OneDelivery
  <2>6. CASE Due /\ UNCHANGED queue
    <3>1. \A d \in Days : Open(d)' = Open(d) /\ Told(d)' = Told(d)
      BY <1>u, <2>1, <2>6
    <3>2. Open(today)' = 0 /\ Told(today)' = 0
      BY <1>0, <2>1, <2>4, <2>6 DEF Open, Told
    <3> QED BY <1>0, <2>1, <2>2, <2>4, <2>6, <3>1, <3>2 DEF OneDelivery
  <2> QED BY <1>6, <2>3, <2>5, <2>6 DEF Inspect
<1>7. CASE Dispatch
  <2>1. /\ UNCHANGED <<disturbed, today, lastSent, pendingDate, results, summaries>>
        /\ queue # <<>> /\ queue' = Tail(queue) /\ Head(queue) \in Jobs
        /\ tasks' = [tasks EXCEPT ![Head(queue)] = @ + 1]
    BY <1>0, <1>7 DEF Dispatch, worldVars, inspectionVars, TypeOK, QueueTypeOK
  <2>2. \A d \in Days : Open(d)' = Open(d) /\ Told(d)' = Told(d)
    <3> SUFFICES ASSUME NEW d \in Days PROVE Open(d)' = Open(d) /\ Told(d)' = Told(d)
      OBVIOUS
    <3>1. Count(queue', Inspection(d)) = IF Head(queue) = Inspection(d)
                                           THEN Count(queue, Inspection(d)) - 1
                                           ELSE Count(queue, Inspection(d))
      BY <1>0, <2>1, QueueCounted
    <3>2. tasks'[Inspection(d)] = IF Head(queue) = Inspection(d) THEN tasks[Inspection(d)] + 1
                                                                ELSE tasks[Inspection(d)]
      <4>1. Inspection(d) \in Jobs
        BY JobsAre
      <4> QED BY <1>0, <2>1, <4>1 DEF TypeOK, DeliveryTypeOK
    <3>3. results' = results
      BY <2>1
    <3> QED BY <1>d, <3>1, <3>2, <3>3 DEF Open, Told
  <2> QED BY <2>1, <2>2, OneDeliveryKept
<1>8. ASSUME NEW j \in Jobs, NEW ok \in BOOLEAN, Deliver(j, ok) PROVE OneDelivery'
  <2>1. /\ UNCHANGED <<disturbed, today, lastSent, pendingDate, queue>> /\ ~disturbed
        /\ results' = Append(results, [job |-> j, ok |-> ok])
        /\ tasks[j] > 0 /\ tasks' = [tasks EXCEPT ![j] = @ - 1]
    BY <1>8 DEF Deliver, worldVars, inspectionVars
  <2>2. OneDelivery
    BY <2>1 DEF AlertInv
  <2>3. \A d \in Days : /\ [job |-> j, ok |-> ok] = ReportSent(d) <=> j = Inspection(d) /\ ok
                        /\ [job |-> j, ok |-> ok] = ReportFailed(d) <=> j = Inspection(d) /\ ~ok
    <3>1. CASE ok
      BY <3>1 DEF ReportSent, ReportFailed
    <3>2. CASE ~ok
      BY <3>2 DEF ReportSent, ReportFailed
    <3> QED BY <3>1, <3>2
  <2>4. \A d \in Days : j = Inspection(d) <=> j.kind = "inspection" /\ j.of = d
    BY JobsAre, JobsDiffer
  <2>5. \A d \in Days : summaries'[d] = IF ok /\ j = Inspection(d) THEN summaries[d] + 1 ELSE summaries[d]
    <3>1. j.kind = "inspection" => j.of \in Days
      BY JobsAre
    <3>2. CASE ok /\ j.kind = "inspection"
      BY <1>0, <1>8, <2>4, <3>1, <3>2 DEF Deliver, TypeOK, DeliveryTypeOK
    <3>3. CASE ~(ok /\ j.kind = "inspection")
      BY <1>8, <2>4, <3>3 DEF Deliver
    <3> QED BY <3>2, <3>3
  <2>6. \A d \in Days :
          /\ Told(d)' = IF j = Inspection(d) /\ ok THEN Told(d) + 1 ELSE Told(d)
          /\ Open(d)' = IF j = Inspection(d) /\ ok THEN Open(d) - 1 ELSE Open(d)
          /\ j = Inspection(d) => Open(d) > 0
    <3> SUFFICES ASSUME NEW d \in Days
                 PROVE  /\ Told(d)' = IF j = Inspection(d) /\ ok THEN Told(d) + 1 ELSE Told(d)
                        /\ Open(d)' = IF j = Inspection(d) /\ ok THEN Open(d) - 1 ELSE Open(d)
                        /\ j = Inspection(d) => Open(d) > 0
      OBVIOUS
    <3>1. /\ Count(results', ReportSent(d)) = IF j = Inspection(d) /\ ok
               THEN Count(results, ReportSent(d)) + 1 ELSE Count(results, ReportSent(d))
          /\ Count(results', ReportFailed(d)) = IF j = Inspection(d) /\ ~ok
               THEN Count(results, ReportFailed(d)) + 1 ELSE Count(results, ReportFailed(d))
      BY <1>0, <2>1, <2>3, ResultSent
    <3>2. tasks'[Inspection(d)] = IF j = Inspection(d) THEN tasks[Inspection(d)] - 1 ELSE tasks[Inspection(d)]
      <4>1. Inspection(d) \in Jobs
        BY JobsAre
      <4> QED BY <1>0, <2>1, <4>1 DEF TypeOK, DeliveryTypeOK
    <3>3. j = Inspection(d) => tasks[Inspection(d)] > 0
      BY <2>1
    <3>4. queue' = queue
      BY <2>1
    <3> QED BY <1>d, <3>1, <3>2, <3>3, <3>4 DEF Open, Told
  <2>7. \A d \in Days : /\ summaries'[d] + Open(d)' <= 1 /\ Told(d)' <= summaries'[d]
                        /\ d > today => summaries'[d] = 0 /\ Open(d)' = 0
    BY <1>d, <2>2, <2>5, <2>6 DEF OneDelivery
  <2>8. \A d \in Days : d = today =>
          /\ Open(d)' + Told(d)' > 0 => pendingDate' = today
          /\ summaries'[d] > 0 => lastSent' = today \/ Told(d)' > 0
    BY <1>0, <1>d, <2>1, <2>2, <2>5, <2>6 DEF OneDelivery
  <2>9. /\ Open(today)' + Told(today)' > 0 => pendingDate' = today'
        /\ summaries'[today'] > 0 => lastSent' = today' \/ Told(today)' > 0
    BY <1>0, <2>1, <2>8 DEF Open, Told
  <2> QED BY <2>1, <2>7, <2>9 DEF OneDelivery
<1>9. CASE UNCHANGED vars
  BY <1>u, <1>9, OneDeliveryKept DEF vars
<1> QED BY <1>1, <1>2, <1>3, <1>4, <1>5, <1>6, <1>7, <1>8, <1>9 DEF Next, Tick, Delivery

(***************************************************************************)
(* The theorems.                                                           *)
(***************************************************************************)

LEMMA InitAlert == Init => AlertInv
<1> SUFFICES ASSUME Init PROVE AlertInv
  OBVIOUS
<1>1. TypeOK
  BY InitTypes
<1>2. /\ today = 1 /\ lastSent = None /\ pendingDate = None
      /\ queue = <<>> /\ results = <<>> /\ delivered = {}
      /\ tasks = [j \in Jobs |-> 0] /\ summaries = [d \in Days |-> 0]
      /\ alarms = [a \in Alerts |-> 0] /\ clears = [a \in Alerts |-> 0]
  BY DEF Init
<1>3. Calendar
  BY <1>2, DaysAre DEF Calendar, None
<1>4. PendingHasJob
  BY <1>2 DEF PendingHasJob
<1>5. NothingAhead
  <2>1. \A d \in Days : tasks[Inspection(d)] = 0
    BY <1>2, JobsAre
  <2>2. Len(queue) = 0 /\ Len(results) = 0
    BY <1>2
  <2> QED BY <2>1, <2>2 DEF NothingAhead, UnderWay
<1>6. Paid
  <2>1. \A a \in Alerts : Count(results, Pays(a)) = 0 /\ clears[a] = 0 /\ alarms[a] = 0
    BY <1>2, CountEmpty
  <2> QED BY <1>2, <2>1 DEF Paid
<1>7. OneDelivery
  <2>1. \A d \in Days : summaries[d] = 0 /\ tasks[Inspection(d)] = 0
    BY <1>2, JobsAre
  <2>2. \A x : Count(queue, x) = 0 /\ Count(results, x) = 0
    BY <1>2, CountEmpty
  <2>3. \A d \in Days : summaries[d] = 0 /\ Open(d) = 0 /\ Told(d) = 0
    BY <2>1, <2>2 DEF Open, Told
  <2> QED BY <1>2, <2>3, DaysAre DEF OneDelivery
<1> QED BY <1>1, <1>3, <1>4, <1>5, <1>6, <1>7 DEF AlertInv

LEMMA StepAlert == AlertInv /\ [Next]_vars => AlertInv'
<1> SUFFICES ASSUME AlertInv, [Next]_vars PROVE AlertInv'
  OBVIOUS
<1>1. TypeOK'
  BY TypeStep DEF AlertInv, Calendar
<1>2. Calendar' /\ NothingAhead' /\ PendingHasJob'
  BY CalendarStep
<1>3. Paid'
  BY PaidStep
<1>4. ~disturbed' => OneDelivery'
  BY OneDeliveryStep
<1> QED BY <1>1, <1>2, <1>3, <1>4 DEF AlertInv

LEMMA AlertInvariant == Spec => []AlertInv
BY InitAlert, StepAlert, PTL DEF Spec

\* The variables of the alert runtime keep their types, and the channel its capacity.
THEOREM AlertTypes == Spec => []TypeOK
<1>1. AlertInv => TypeOK
  BY DEF AlertInv
<1> QED BY <1>1, AlertInvariant, PTL

\* However late results arrive and whatever rules are switched off and on, for each
\* alert no more Resolved events are emitted than triggers were delivered
\* (alerts/tracker.rs).
THEOREM AlarmsComeFirst == Spec => []AllClearsNeedAlarms
<1>1. AlertInv => AllClearsNeedAlarms
  <2> SUFFICES ASSUME AlertInv, NEW a \in Alerts PROVE clears[a] <= alarms[a]
    BY DEF AllClearsNeedAlarms
  <2>1. clears[a] \in Nat /\ alarms[a] \in Nat /\ Count(results, Pays(a)) \in Nat
    BY ResultsCounted DEF AlertInv, TypeOK, TrackerTypeOK, DeliveryTypeOK
  <2>2. clears[a] + Count(results, Pays(a)) + (IF a \in delivered THEN 1 ELSE 0) <= alarms[a]
    BY DEF AlertInv, Paid
  <2> QED BY <2>1, <2>2
<1> QED BY <1>1, AlertInvariant, PTL

\* A date that is pending has its delivery in the channel, running, or in a result
\* nobody has read, so the summary of that date is not lost (alerts/runtime.rs).
THEOREM PendingDatesAreServed == Spec => []PendingHasJob
<1>1. AlertInv => PendingHasJob
  BY DEF AlertInv
<1> QED BY <1>1, AlertInvariant, PTL

\* The summary of a date is delivered at most once, unless alerting is switched off in
\* between or the delivery of one date ends when another date is pending.
THEOREM OneSummaryPerDate == Spec => []SummaryOncePerDate
<1>1. AlertInv => SummaryOncePerDate
  <2> SUFFICES ASSUME AlertInv, ~disturbed, NEW d \in Days PROVE summaries[d] <= 1
    BY DEF SummaryOncePerDate
  <2>1. summaries[d] \in Nat /\ Open(d) \in Nat
    BY DeliveriesCounted DEF AlertInv
  <2>2. summaries[d] + Open(d) <= 1
    BY DEF AlertInv, OneDelivery
  <2> QED BY <2>1, <2>2
<1> QED BY <1>1, AlertInvariant, PTL
================================================================================
