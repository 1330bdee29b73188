---------------------------- MODULE AlertRuntime -----------------------------
(***************************************************************************)
(* The alert runtime of the server: the evaluation tick (alerts/runtime.rs)*)
(* with its tracker of active alerts (alerts/tracker.rs) and its daily     *)
(* inspection summary, the bounded delivery queue, the dispatcher that     *)
(* starts one task per job, and the results those tasks send back.         *)
(*                                                                         *)
(* An alert is a pair of a rule and a node.  Which alerts match is decided *)
(* by the environment; the arithmetic of rules and thresholds is left out. *)
(* Time is counted in ticks: `wait` is what is left of the cooldown or of  *)
(* the retry delay.  The semaphore of the dispatcher is left out: tasks    *)
(* take its permits in any order, so it restricts no order of deliveries.  *)
(* A disabled inspection is one whose time has not come.                   *)
(*                                                                         *)
(* An operator whose name says what was forgotten or done wrong, such as   *)
(* DueWhilePending, is a faulty variant of the definition after it; no     *)
(* action uses it, and a run refutes each (README).                        *)
(***************************************************************************)
EXTENDS Naturals, Sequences, FiniteSets

CONSTANTS
  Alerts,           \* pairs of a rule and a node
  SendResolved,     \* alerts whose rule has send_resolved
  Cooldown,         \* cooldown_minutes of every rule, in ticks
  RetryDelay,       \* DELIVERY_FAILURE_RETRY_DELAY_MINUTES, in ticks
  InspectionRetry,  \* INSPECTION_RETRY_INTERVAL_SECS, in ticks
  QueueCapacity,    \* DELIVERY_QUEUE_CAPACITY
  MaxDay,           \* bound of the model: local dates
  MaxInFlight,      \* bound of the model: tasks and unread results
  MaxAlarms,        \* bound of the model: successful deliveries per alert
  MaxSummaries      \* bound of the model: successful deliveries per date

ASSUME AlertAssumption == SendResolved \subseteq Alerts
ASSUME DelayAssumption ==
  /\ Cooldown \in Nat \ {0}
  /\ RetryDelay \in Nat \ {0}
  /\ InspectionRetry \in Nat \ {0}
ASSUME BoundAssumption ==
  /\ QueueCapacity \in Nat \ {0}
  /\ MaxDay \in Nat \ {0} /\ MaxInFlight \in Nat
  /\ MaxAlarms \in Nat /\ MaxSummaries \in Nat

VARIABLES
  firing,       \* alerts whose condition holds now
  enabled,      \* alerting is switched on
  rules,        \* alerts whose rule is switched on
  today,        \* the local date
  afterTime,    \* the inspection is switched on and its time has passed
  pc,           \* where the runtime is in its tick
  outbox,       \* events of this tick still to be enqueued
  active,       \* alerts that have an entry in the tracker
  delivered,    \* entries whose trigger has been delivered
  resolved,     \* entries with resolved_at
  wait,         \* ticks until an active alert is repeated
  lastSent,     \* last_sent_date; 0 is None
  pendingDate,  \* pending_date; 0 is None
  failWait,     \* ticks until a failed inspection is tried again
  queue,        \* the delivery channel
  tasks,        \* number of running deliveries per job
  results,      \* the result channel
  alarms,       \* history: triggers delivered, per alert
  clears,       \* history: Resolved events emitted, per alert
  summaries,    \* history: summaries delivered, per date
  disturbed     \* history: the inspection state was cleared, or overwritten
                \* by the result of another date

worldVars == <<firing, enabled, rules, today, afterTime>>
trackerVars == <<active, delivered, resolved, wait, clears>>
inspectionVars == <<lastSent, pendingDate, failWait, disturbed>>
deliveryVars == <<tasks, results, alarms, summaries>>
vars == <<firing, enabled, rules, today, afterTime, pc, outbox, active,
          delivered, resolved, wait, lastSent, pendingDate, failWait, queue,
          tasks, results, alarms, clears, summaries, disturbed>>

Days == 1..MaxDay
None == 0
Events == [kind : {"triggered", "resolved"}, of : Alerts]
Jobs == Events \cup [kind : {"inspection"}, of : Days]
Triggered(a) == [kind |-> "triggered", of |-> a]
Resolved(a) == [kind |-> "resolved", of |-> a]
Inspection(d) == [kind |-> "inspection", of |-> d]

WorldTypeOK ==
  /\ firing \subseteq Alerts /\ rules \subseteq Alerts
  /\ enabled \in BOOLEAN /\ afterTime \in BOOLEAN
  /\ today \in Nat
  /\ pc \in {"waiting", "results", "evaluate", "enqueue"}
  /\ outbox \subseteq Events
TrackerTypeOK ==
  /\ active \subseteq Alerts
  /\ delivered \subseteq active /\ resolved \subseteq active \ delivered
  /\ wait \in [Alerts -> Nat] /\ clears \in [Alerts -> Nat]
InspectionTypeOK ==
  /\ lastSent \in Nat /\ pendingDate \in Nat /\ failWait \in Nat
  /\ disturbed \in BOOLEAN
QueueTypeOK == queue \in Seq(Jobs) /\ Len(queue) <= QueueCapacity
DeliveryTypeOK ==
  /\ tasks \in [Jobs -> Nat]
  /\ results \in Seq([job : Jobs, ok : BOOLEAN])
  /\ alarms \in [Alerts -> Nat] /\ summaries \in [Days -> Nat]

TypeOK ==
  /\ WorldTypeOK /\ TrackerTypeOK /\ InspectionTypeOK
  /\ QueueTypeOK /\ DeliveryTypeOK

Init ==
  /\ firing = {} /\ rules = Alerts
  /\ enabled = TRUE
  /\ today = 1 /\ afterTime \in BOOLEAN
  /\ pc = "waiting"
  /\ outbox = {}
  /\ active = {} /\ delivered = {} /\ resolved = {}
  /\ wait = [a \in Alerts |-> 0]
  /\ lastSent = None /\ pendingDate = None /\ failWait = 0
  /\ queue = <<>>
  /\ tasks = [j \in Jobs |-> 0]
  /\ results = <<>>
  /\ alarms = [a \in Alerts |-> 0] /\ clears = [a \in Alerts |-> 0]
  /\ summaries = [d \in Days |-> 0]
  /\ disturbed = FALSE

Elapse(n) == IF n = 0 THEN 0 ELSE n - 1

\* The entries of the alerts in A leave the tracker.
Forget(A) ==
  /\ active' = active \ A
  /\ delivered' = delivered \ A
  /\ resolved' = resolved \ A

HasRoom == Len(queue) < QueueCapacity

------------------------------------------------------------------------------
(* The beginning of a tick: process_delivery_results.                      *)

StartTick ==
  /\ pc = "waiting"
  /\ pc' = "results"
  /\ wait' = [a \in Alerts |-> Elapse(wait[a])]
  /\ failWait' = Elapse(failWait)
  /\ UNCHANGED <<worldVars, outbox, active, delivered, resolved, clears,
                 lastSent, pendingDate, disturbed, queue, deliveryVars>>

\* record_delivery_success: the trigger of an alert that is gone by now makes
\* its Resolved event due at once.  A full queue drops that event for good.
TriggerDelivered(a) ==
  /\ IF a \in resolved
       THEN /\ Forget({a})
            /\ clears' = [clears EXCEPT ![a] = @ + (IF a \in SendResolved THEN 1 ELSE 0)]
            /\ queue' = IF a \in SendResolved /\ HasRoom THEN Append(queue, Resolved(a))
                                                         ELSE queue
       ELSE /\ delivered' = delivered \cup ({a} \cap active)
            /\ UNCHANGED <<active, resolved, clears, queue>>
  /\ UNCHANGED <<wait, inspectionVars>>

\* record_delivery_failure: the alert is repeated after the retry delay.
TriggerFailed(a) ==
  /\ wait' = IF a \in active THEN [wait EXCEPT ![a] = RetryDelay] ELSE wait
  /\ UNCHANGED <<active, delivered, resolved, clears, inspectionVars, queue>>

\* mark_sent or mark_failed, whatever date is pending.
InspectionEnded(d, ok) ==
  /\ lastSent' = IF ok THEN d ELSE lastSent
  /\ pendingDate' = None
  /\ failWait' = IF ok THEN 0 ELSE InspectionRetry
  /\ disturbed' = (disturbed \/ pendingDate # d)
  /\ UNCHANGED <<trackerVars, queue>>

HandleResult ==
  LET r == Head(results) IN
  /\ pc = "results"
  /\ results # <<>>
  /\ results' = Tail(results)
  /\ \/ r.job.kind = "triggered" /\ r.ok /\ TriggerDelivered(r.job.of)
     \/ r.job.kind = "triggered" /\ ~r.ok /\ TriggerFailed(r.job.of)
     \/ r.job.kind = "resolved" /\ UNCHANGED <<trackerVars, inspectionVars, queue>>
     \/ r.job.kind = "inspection" /\ InspectionEnded(r.job.of, r.ok)
  /\ UNCHANGED <<worldVars, pc, outbox, tasks, alarms, summaries>>

ResultsDrained ==
  /\ pc = "results"
  /\ results = <<>>
  /\ pc' = "evaluate"
  /\ UNCHANGED <<worldVars, outbox, trackerVars, inspectionVars, queue, deliveryVars>>

------------------------------------------------------------------------------
(* The evaluation: AlertStateTracker::update.                              *)

Matching == firing \cap rules
Fresh == Matching \ active
Repeated == {a \in Matching \cap active : wait[a] = 0}

\* Entries that do not match any more; those of a disabled rule just vanish.
Gone == (active \ Matching) \cap rules

\* With alerting off everything is forgotten.
ClearAll ==
  /\ pc = "evaluate"
  /\ ~enabled
  /\ pc' = "waiting"
  /\ Forget(active)
  /\ lastSent' = None /\ pendingDate' = None /\ failWait' = 0
  /\ disturbed' = (disturbed \/ lastSent # None \/ pendingDate # None)
  /\ UNCHANGED <<worldVars, outbox, wait, clears, queue, deliveryVars>>

\* Faulty variant: an alert whose trigger never arrived is resolved as well.
EvaluateResolvingAll ==
  /\ pc = "evaluate"
  /\ enabled
  /\ pc' = "enqueue"
  /\ active' = Matching
  /\ delivered' = delivered \cap Matching
  /\ resolved' = {}
  /\ wait' = [a \in Alerts |-> IF a \in Fresh \cup Repeated THEN Cooldown ELSE wait[a]]
  /\ outbox' = {Triggered(a) : a \in Fresh \cup Repeated}
                 \cup {Resolved(a) : a \in Gone \cap SendResolved}
  /\ clears' = [a \in Alerts |-> IF a \in Gone \cap SendResolved THEN clears[a] + 1
                                                                ELSE clears[a]]
  /\ UNCHANGED <<worldVars, inspectionVars, queue, deliveryVars>>

\* Faulty variant: an alert is repeated only once its trigger was delivered.
EvaluateRepeatingDelivered ==
  LET repeated == Repeated \cap delivered
      cleared == Gone \cap delivered \cap SendResolved IN
  /\ pc = "evaluate"
  /\ enabled
  /\ pc' = "enqueue"
  /\ active' = Matching \cup (Gone \ delivered)
  /\ delivered' = delivered \cap Matching
  /\ resolved' = Gone \ delivered
  /\ wait' = [a \in Alerts |-> IF a \in Fresh \cup repeated THEN Cooldown ELSE wait[a]]
  /\ outbox' = {Triggered(a) : a \in Fresh \cup repeated} \cup {Resolved(a) : a \in cleared}
  /\ clears' = [a \in Alerts |-> IF a \in cleared THEN clears[a] + 1 ELSE clears[a]]
  /\ UNCHANGED <<worldVars, inspectionVars, queue, deliveryVars>>

\* A match triggers when it is new or when its wait is over.  An entry that no
\* longer matches is resolved; until its trigger is delivered it stays, so that
\* record_delivery_success can resolve it.
Evaluate ==
  LET cleared == Gone \cap delivered \cap SendResolved IN
  /\ pc = "evaluate"
  /\ enabled
  /\ pc' = "enqueue"
  /\ active' = Matching \cup (Gone \ delivered)
  /\ delivered' = delivered \cap Matching
  /\ resolved' = Gone \ delivered
  /\ wait' = [a \in Alerts |-> IF a \in Fresh \cup Repeated THEN Cooldown ELSE wait[a]]
  /\ outbox' = {Triggered(a) : a \in Fresh \cup Repeated} \cup {Resolved(a) : a \in cleared}
  /\ clears' = [a \in Alerts |-> IF a \in cleared THEN clears[a] + 1 ELSE clears[a]]
  /\ UNCHANGED <<worldVars, inspectionVars, queue, deliveryVars>>

\* Faulty variant: the capacity of the channel is not respected.
EnqueueWithoutLimit(e) ==
  /\ pc = "enqueue"
  /\ e \in outbox
  /\ outbox' = outbox \ {e}
  /\ queue' = Append(queue, e)
  /\ UNCHANGED <<worldVars, pc, trackerVars, inspectionVars, deliveryVars>>

\* enqueue_alert_delivery, triggers first.  A full queue counts as a failed
\* delivery, which only a trigger has a retry for.
Enqueue(e) ==
  /\ pc = "enqueue"
  /\ e \in outbox
  /\ e.kind = "resolved" => \A f \in outbox : f.kind = "resolved"
  /\ outbox' = outbox \ {e}
  /\ IF HasRoom
       THEN queue' = Append(queue, e) /\ UNCHANGED wait
       ELSE /\ wait' = IF e.kind = "triggered" THEN [wait EXCEPT ![e.of] = RetryDelay]
                                               ELSE wait
            /\ UNCHANGED queue
  /\ UNCHANGED <<worldVars, pc, active, delivered, resolved, clears,
                 inspectionVars, deliveryVars>>

------------------------------------------------------------------------------
(* The daily inspection summary: InspectionDispatchState.                  *)

\* Faulty variant: a pending summary does not count.
DueWhilePending == afterTime /\ lastSent # today /\ failWait = 0

Due == afterTime /\ today \notin {lastSent, pendingDate} /\ failWait = 0

\* Faulty variant: the date is pending even if the queue was full.
InspectBeforeSending ==
  /\ pc = "enqueue" /\ outbox = {}
  /\ pc' = "waiting"
  /\ IF Due
       THEN /\ pendingDate' = today
            /\ queue' = IF HasRoom THEN Append(queue, Inspection(today)) ELSE queue
       ELSE UNCHANGED <<pendingDate, queue>>
  /\ UNCHANGED <<worldVars, outbox, trackerVars, lastSent, failWait, disturbed, deliveryVars>>

\* The end of a tick: enqueue_inspection_delivery, if the summary is due.
Inspect ==
  /\ pc = "enqueue" /\ outbox = {}
  /\ pc' = "waiting"
  /\ \/ ~Due /\ UNCHANGED <<pendingDate, failWait, queue>>
     \/ /\ Due /\ HasRoom
        /\ queue' = Append(queue, Inspection(today))
        /\ pendingDate' = today
        /\ UNCHANGED failWait
     \/ /\ Due /\ ~HasRoom
        /\ pendingDate' = None
        /\ failWait' = InspectionRetry
        /\ UNCHANGED queue
  /\ UNCHANGED <<worldVars, outbox, trackerVars, lastSent, disturbed, deliveryVars>>

------------------------------------------------------------------------------
(* The dispatcher and its delivery tasks.                                  *)

Dispatch ==
  /\ queue # <<>>
  /\ tasks[Head(queue)] < MaxInFlight
  /\ queue' = Tail(queue)
  /\ tasks' = [tasks EXCEPT ![Head(queue)] = @ + 1]
  /\ UNCHANGED <<worldVars, pc, outbox, trackerVars, inspectionVars, results,
                 alarms, summaries>>

\* A delivery ends, after its own retries, and sends its result.
Deliver(j, ok) ==
  /\ tasks[j] > 0
  /\ Len(results) < MaxInFlight
  /\ tasks' = [tasks EXCEPT ![j] = @ - 1]
  /\ results' = Append(results, [job |-> j, ok |-> ok])
  /\ IF ok /\ j.kind = "triggered"
       THEN alarms[j.of] < MaxAlarms /\ alarms' = [alarms EXCEPT ![j.of] = @ + 1]
       ELSE UNCHANGED alarms
  /\ IF ok /\ j.kind = "inspection"
       THEN /\ summaries[j.of] < MaxSummaries
            /\ summaries' = [summaries EXCEPT ![j.of] = @ + 1]
       ELSE UNCHANGED summaries
  /\ UNCHANGED <<worldVars, pc, outbox, trackerVars, inspectionVars, queue>>

------------------------------------------------------------------------------
(* The world: nodes, operators and the clock.                              *)

NodesChange ==
  /\ \E F \in SUBSET Alerts : F # firing /\ firing' = F
  /\ UNCHANGED <<enabled, rules, today, afterTime, pc, outbox, trackerVars,
                 inspectionVars, queue, deliveryVars>>

\* Alerting, rules, and the inspection with its time are settings.
OperatorEdits ==
  /\ \/ enabled' = ~enabled /\ UNCHANGED <<rules, afterTime>>
     \/ \E R \in SUBSET Alerts : R # rules /\ rules' = R /\ UNCHANGED <<enabled, afterTime>>
     \/ afterTime /\ afterTime' = FALSE /\ UNCHANGED <<enabled, rules>>
  /\ UNCHANGED <<firing, today, pc, outbox, trackerVars, inspectionVars, queue,
                 deliveryVars>>

\* The inspection time passes, or midnight does.
ClockAdvances ==
  /\ \/ ~afterTime /\ afterTime' = TRUE /\ UNCHANGED today
     \/ today < MaxDay /\ today' = today + 1 /\ afterTime' \in BOOLEAN
  /\ UNCHANGED <<firing, enabled, rules, pc, outbox, trackerVars, inspectionVars,
                 queue, deliveryVars>>

Tick ==
  \/ StartTick \/ HandleResult \/ ResultsDrained \/ ClearAll \/ Evaluate
  \/ \E e \in outbox : Enqueue(e)
  \/ Inspect

Delivery == Dispatch \/ \E j \in Jobs, ok \in BOOLEAN : Deliver(j, ok)

Next ==
  \/ Tick
  \/ Delivery
  \/ NodesChange \/ OperatorEdits \/ ClockAdvances

Spec == Init /\ [][Next]_vars

(***************************************************************************)
(* Fairness.  The interval fires every 30 seconds and the task that serves *)
(* it runs, so does the dispatcher, and a delivery ends: its three         *)
(* attempts have timeouts.  Nothing is assumed of nodes, operators, the    *)
(* mail server or the webhook, which may fail every time.                  *)
(***************************************************************************)
Fairness ==
  /\ WF_vars(Tick)
  /\ WF_vars(Dispatch)
  /\ \A j \in Jobs : WF_vars(\E ok \in BOOLEAN : Deliver(j, ok))

FairSpec == Spec /\ Fairness

------------------------------------------------------------------------------
(* Properties.                                                             *)

\* Nobody gets more all-clears than alarms: however late results arrive, and
\* whatever rules are switched off and on meanwhile, each Resolved event is
\* paid for by a trigger that was really delivered (alerts/tracker.rs, the
\* test update_skips_resolved_until_trigger_delivery_succeeds).
AllClearsNeedAlarms == \A a \in Alerts : clears[a] <= alarms[a]

\* A date is pending only while a delivery for it is under way: otherwise the
\* summary of that date would never be sent (alerts/runtime.rs, due_date_for).
UnderWay(j) ==
  \/ \E i \in 1..Len(queue) : queue[i] = j
  \/ tasks[j] > 0
  \/ \E i \in 1..Len(results) : results[i].job = j
PendingHasJob == pendingDate # None => UnderWay(Inspection(pendingDate))

\* The summary of a date is delivered once, unless alerting is switched off in
\* between or the delivery of one date ends when another date is pending.
SummaryOncePerDate == ~disturbed => \A d \in Days : summaries[d] <= 1

\* While an alert matches, attempts to deliver its trigger never cease, however
\* many of them fail and however often the queue is full when the trigger is due
\* (alerts/tracker.rs, should_repeat_alert).  This takes a dispatcher that from
\* some moment on starts all the jobs of a tick before the next one.
Attempted(a) == \E ok \in BOOLEAN : Deliver(Triggered(a), ok)
DispatcherKeepsUp == <>[][StartTick => queue = <<>>]_vars
FiringKeepsNotifying ==
  \A a \in Alerts :
    (<>[](enabled /\ a \in firing \cap rules) /\ DispatcherKeepsUp)
      => []<><<Attempted(a)>>_vars
==============================================================================
