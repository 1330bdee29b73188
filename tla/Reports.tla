--------------------------------- MODULE Reports ---------------------------------
(***************************************************************************)
(* The way of a report from the collector of an agent (collect_disks and   *)
(* parse_memory_usage) into the rows of the server: sanitize_snapshot      *)
(* repairs what cannot be, and a session whose reports need repair too     *)
(* often within a window is closed (handle_metrics_message).               *)
(*                                                                         *)
(* Sizes, counts and times are small numbers; a mount that cannot be       *)
(* examined is one of size 0, which collectors pass over in the same way.  *)
(* A device or a mount point is a number: 0 is blank, 3k is a name without *)
(* blanks around it, 3k + 1 the same name with some, and 3k - 1 a name     *)
(* over MAX_SANITIZED_STRING_BYTES that begins with 3k.  The file system   *)
(* of a mount has a name that is neither blank nor too long.               *)
(*                                                                         *)
(* Definitions whose comment says "faulty" are variants that no action     *)
(* uses (README).                                                          *)
(***************************************************************************)
EXTENDS Integers, Sequences, FiniteSets, SequencesExt

CONSTANTS
  MaxDisks,       \* MAX_SANITIZED_DISKS
  AnomalyLimit,   \* METRIC_ANOMALY_SESSION_LIMIT
  AnomalyWindow,  \* METRIC_ANOMALY_WINDOW_SECS
  MaxMounts,      \* bounds of the model: mounts of a host, the clock
  MaxReportTime

ASSUME ReportsAssumption ==
  {MaxDisks, AnomalyLimit, AnomalyWindow, MaxMounts, MaxReportTime} \subseteq Nat \ {0}

VARIABLES
  host,      \* an agent for Linux or macOS, or one that reports anything
  reporting, \* whether its session is open
  window,    \* metric_anomaly_window of the session
  kept,      \* the report in the row of the node
  sent,      \* history: the last report, if it was an ordinary one of Linux
  repaired,  \* history: when reports of the session were repaired
  instant    \* Instant::now

reportVars == <<host, reporting, window, kept, sent, repaired, instant>>

Hosts == {"linux", "macos", "any"}
Sizes == {0, 1, 3}
Memories == [total : {2}, used : Sizes, available : Sizes, swap : {1}, swapUsed : {1, 2}]

\* Disks of faulty agents: of impossible numbers, and of strange names.
WrongDisks ==
  [device : {3, 6}, point : {3}, total : {2}, available : Sizes, used : Sizes, hidden : {FALSE}]
OddDisks ==
  [device : {1, 2, 4}, point : {0, 2, 3}, total : {2}, available : {1}, used : {1},
   hidden : BOOLEAN]

\* What a kernel says of its memory; available may exceed the total.
Kernels == [total : {2}, available : 0..3, swap : {1}, swapFree : 0..2]

\* The mounts of a host.  Collectors ignore some file systems, and the server hides
\* those that its operator has listed.
Mounts ==
  [device : {2, 3, 6}, point : {2, 3, 6}, total : {2}, available : {1}, kind : {"shown", "hidden"}]
    \cup [device : {1, 4}, point : {3}, total : {2}, available : {1, 3},
          kind : {"shown", "ignored"}]
    \cup [device : {6}, point : {3}, total : {0}, available : {0}, kind : {"shown"}]
Tables == UNION {[1..n -> Mounts] : n \in 0..MaxMounts}

Least(a, b) == IF a < b THEN a ELSE b

\* saturating_sub
Less(a, b) == IF b < a THEN a - b ELSE 0

\* parse_memory_usage of Linux; collect_memory_usage of macOS never finds more available
\* than there is, and is told the used part of the swap.
MemoryRead(system, kernel) ==
  LET available == IF system = "macos" THEN Least(kernel.available, kernel.total)
                   ELSE kernel.available
  IN [total |-> kernel.total, available |-> available, used |-> Less(kernel.total, available),
      swap |-> kernel.swap, swapUsed |-> Less(kernel.swap, kernel.swapFree)]

\* The first mount of each mount point counts if it has a size; this is all that the
\* collector of macOS asks of a disk.
FirstMounts(table) ==
  {i \in DOMAIN table :
     /\ table[i].kind # "ignored" /\ table[i].total > 0
     /\ \A j \in 1..i - 1 : table[j].kind = "ignored" \/ table[j].point # table[i].point}

\* collect_disks, in the order of mount points; on Linux only the first of each device and
\* size is a disk.
CollectDisks(system, table) ==
  LET same(i, j) == table[i].device = table[j].device /\ table[i].total = table[j].total
      taken == {i \in FirstMounts(table) :
                  system = "linux" => \A j \in FirstMounts(table) : j < i => ~same(i, j)}
      place(i) == Cardinality({j \in taken : table[j].point <= table[i].point})
      disk(i) == [device |-> table[i].device, point |-> table[i].point,
                  total |-> table[i].total, available |-> table[i].available,
                  used |-> Less(table[i].total, table[i].available),
                  hidden |-> table[i].kind = "hidden"]
  IN [k \in 1..Cardinality(taken) |-> disk(CHOOSE i \in taken : place(i) = k)]

UsualMemory == MemoryRead("linux", [total |-> 2, available |-> 1, swap |-> 1, swapFree |-> 0])

\* What each host may report; "any" stands for faulty agents.  A report is strange that
\* has a load, a rate or a percentage out of its range, as the load of a kernel or the
\* rate after a change of interfaces may be.
Reportable ==
  [h \in Hosts |->
     LET memories == IF h = "any" THEN Memories ELSE {MemoryRead(h, k) : k \in Kernels}
         tables == IF h = "any"
                   THEN UNION {[1..n -> WrongDisks] \cup [1..n -> OddDisks] : n \in 1..2}
                   ELSE {CollectDisks(h, t) : t \in Tables}
     IN [memory : memories, disks : {<<>>}, strange : BOOLEAN]
          \cup [memory : {UsualMemory}, disks : tables, strange : {FALSE}]]

Once(condition) == IF condition THEN 1 ELSE 0

\* sanitize_memory_usage: used bytes prevail.
SanitizeMemory(m) ==
  LET used == Least(m.used, m.total)
      available == Least(m.available, m.total)
  IN [m EXCEPT !.used = used, !.swapUsed = Least(@, m.swap),
               !.available = IF used + available > m.total THEN m.total - used ELSE available]

Trimmed(name) == IF name % 3 = 1 THEN name - 1 ELSE name
TooLong(name) == name % 3 = 2
Cut(name) == IF TooLong(name) THEN name + 1 ELSE name
Blank(d) == Trimmed(d.device) = 0 \/ Trimmed(d.point) = 0

\* Faulty: contradicting numbers are not reconciled.
SanitizeDiskBounds(d) ==
  [d EXCEPT !.device = Cut(Trimmed(@)), !.point = Cut(Trimmed(@)),
            !.available = Least(@, d.total), !.used = Least(@, d.total)]

\* sanitize_disk_usage of a disk that is not blank: available bytes prevail.
SanitizeDisk(d) ==
  LET used == Least(d.used, d.total)
      available == Least(d.available, d.total)
  IN [d EXCEPT !.device = Cut(Trimmed(@)), !.point = Cut(Trimmed(@)), !.available = available,
               !.used = IF used + available > d.total THEN d.total - available ELSE used]

\* Its anomalies: truncated_strings and clamped_disk_bytes.  Trimming is none.
Repairs(d) ==
  LET disk == SanitizeDisk(d)
  IN Once(TooLong(d.device) \/ TooLong(d.point))
       + Once(disk.used # d.used \/ disk.available # d.available)

\* sanitize_snapshot for one more disk: one of a hidden file system is passed over, a
\* blank one dropped, a repeated and a surplus one after they have been repaired.
AddDisk(done, d) ==
  LET disk == SanitizeDisk(d)
      identity == <<disk.device, disk.total>>
  IN IF d.hidden THEN done
     ELSE IF Blank(d) THEN [done EXCEPT !.anomalies = @ + 1]
     ELSE IF identity \in done.seen \/ Len(done.disks) >= MaxDisks
     THEN [done EXCEPT !.anomalies = @ + 1 + Repairs(d), !.seen = @ \cup {identity}]
     ELSE [done EXCEPT !.anomalies = @ + Repairs(d), !.seen = @ \cup {identity},
                       !.disks = Append(@, disk)]

\* sanitize_snapshot, with the total of its SanitizationReport, in which all that is
\* strange counts as one.
Sanitized(report) ==
  LET memory == SanitizeMemory(report.memory)
      done == FoldLeft(AddDisk, [disks |-> <<>>, seen |-> {}, anomalies |-> 0], report.disks)
  IN [report |-> [memory |-> memory, disks |-> done.disks, strange |-> FALSE],
      anomalies |-> done.anomalies + Once(memory # report.memory) + Once(report.strange)]

\* A report of which the server should keep everything: no figure is out of range, no
\* disk is one too many, and no name has blanks around it or is too long.
Ordinary(report) ==
  /\ ~report.strange /\ report.memory.available <= report.memory.total
  /\ Len(report.disks) <= MaxDisks
  /\ \A i \in DOMAIN report.disks :
       LET d == report.disks[i]
       IN d.available <= d.total /\ \A name \in {d.device, d.point} : name # 0 /\ name % 3 = 0

NoReport ==
  [memory |-> [total |-> 0, available |-> 0, used |-> 0, swap |-> 0, swapUsed |-> 0],
   disks |-> <<>>, strange |-> FALSE]

ReportsTypeOK ==
  /\ host \in Hosts /\ reporting \in BOOLEAN /\ instant \in 0..MaxReportTime
  /\ window \in Seq(0..MaxReportTime) /\ Len(window) <= AnomalyLimit
  /\ Len(kept.disks) <= IF host = "any" THEN MaxDisks ELSE MaxMounts
  /\ Len(sent.disks) <= MaxMounts /\ repaired \in Seq(0..MaxReportTime)

ReportsInit ==
  /\ host \in Hosts /\ reporting = TRUE /\ window = <<>> /\ instant = 0
  /\ kept = NoReport /\ sent = NoReport /\ repaired = <<>>

\* Faulty: what is too old stays in the window.
WindowWithAll(now) == Append(window, now)

\* update_metric_anomaly_window, for a report that was repaired: what is too old leaves at
\* the front.
WindowWith(now) ==
  LET old == {n \in 0..Len(window) : \A i \in 1..n : now - window[i] > AnomalyWindow}
  IN Append(SubSeq(window, Max(old) + 1, Len(window)), now)

\* handle_metrics_message, for a session whose token is current and that owns its node.
\* A report that closes the session is not kept.
TakeReport(report) ==
  LET sanitized == Sanitized(report)
  IN /\ reporting
     /\ window' = IF sanitized.anomalies > 0 THEN WindowWith(instant) ELSE window
     /\ reporting' = ~(sanitized.anomalies > 0 /\ Len(window') >= AnomalyLimit)
     /\ kept' = IF reporting' THEN sanitized.report ELSE kept
     /\ sent' = IF host = "linux" /\ Ordinary(report) THEN report ELSE NoReport
     /\ repaired' = IF sanitized.anomalies > 0 THEN Append(repaired, instant) ELSE repaired
     /\ UNCHANGED <<host, instant>>

\* The agent connects again, and its new session starts with an empty window.
Reconnects ==
  /\ ~reporting
  /\ reporting' = TRUE /\ window' = <<>> /\ repaired' = <<>>
  /\ UNCHANGED <<host, kept, sent, instant>>

InstantPasses ==
  /\ instant < MaxReportTime
  /\ instant' = instant + 1
  /\ UNCHANGED <<host, reporting, window, kept, sent, repaired>>

ReportsNext ==
  \/ \E report \in Reportable[host] : TakeReport(report)
  \/ Reconnects
  \/ InstantPasses

--------------------------------------------------------------------------------
\* Whatever an agent reports, the numbers of a row agree with each other, its names are
\* neither blank nor too long, and no disk counts twice in the totals of the overview.
KeptIsConsistent ==
  LET fits(n) == n.used + n.available <= n.total
  IN /\ fits(kept.memory) /\ kept.memory.swapUsed <= kept.memory.swap /\ ~kept.strange
     /\ Len(kept.disks) <= MaxDisks
     /\ \A i \in DOMAIN kept.disks :
          /\ fits(kept.disks[i]) /\ ~kept.disks[i].hidden
          /\ \A name \in {kept.disks[i].device, kept.disks[i].point} : name # 0 /\ ~TooLong(name)
     /\ \A i, j \in DOMAIN kept.disks :
          kept.disks[i].device = kept.disks[j].device
            /\ kept.disks[i].total = kept.disks[j].total => i = j

\* The collector of Linux and the sanitising of the server agree about what a disk is:
\* an ordinary report of a Linux host is kept as it was sent, but for disks of file
\* systems that the server hides, and does not close the session whatever came before.
OrdinaryReportsPass ==
  sent # NoReport =>
    /\ reporting /\ kept.memory = sent.memory
    /\ ToSet(kept.disks) = {d \in ToSet(sent.disks) : ~d.hidden}

\* A session is cut off by as many repaired reports as the limit allows within one
\* window, and by no fewer: repairs that are rare never add up, however long the session
\* lasts (update_metric_anomaly_window, should_disconnect_for_metric_anomalies).
CutOffsAreEarned ==
  LET n == Len(repaired)
      frequent == n >= AnomalyLimit /\ repaired[n] - repaired[n - AnomalyLimit + 1] <= AnomalyWindow
  IN reporting <=> ~frequent

\* Reports are treated as they deserve (sanitize.rs): what is kept is consistent, what is
\* ordinary passes, and only what is wrong too often ends a session.
RowsCanBeTrusted == KeptIsConsistent /\ OrdinaryReportsPass /\ CutOffsAreEarned
================================================================================
