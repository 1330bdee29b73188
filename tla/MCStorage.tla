-------------------------------- MODULE MCStorage -------------------------------
(***************************************************************************)
(* What the server keeps beside the node rows: history, audit log,         *)
(* snapshot file and agent logs.  They share no state, and the shutdown    *)
(* stops them one after the other, so the model checker lets one of them   *)
(* run in a behaviour.                                                     *)
(***************************************************************************)
EXTENDS HistoryStore, AuditLog, SnapshotFile, AgentLogStore

VARIABLE part   \* the part that runs

vars == <<historyVars, auditVars, snapshotVars, logVars, part>>

TypeOK ==
  CASE part = "history" -> HistoryTypeOK
    [] part = "audit" -> AuditTypeOK
    [] part = "snapshot" -> SnapshotTypeOK
    [] part = "logs" -> LogTypeOK

\* A part that does not run has one initial state.
Init ==
  /\ HistoryInit /\ AuditInit /\ SnapshotInit /\ LogInit
  /\ part \in {"history", "audit", "snapshot", "logs"}
  /\ part # "snapshot" => target = 0 /\ tmp = 0

RunHistory ==
  part = "history" /\ HistoryNext /\ UNCHANGED <<auditVars, snapshotVars, logVars, part>>
RunAudit ==
  part = "audit" /\ AuditNext /\ UNCHANGED <<historyVars, snapshotVars, logVars, part>>
RunSnapshot ==
  part = "snapshot" /\ SnapshotNext /\ UNCHANGED <<historyVars, auditVars, logVars, part>>
RunLogs ==
  part = "logs" /\ LogNext /\ UNCHANGED <<historyVars, auditVars, snapshotVars, part>>

Next == RunHistory \/ RunAudit \/ RunSnapshot \/ RunLogs

Spec == Init /\ [][Next]_vars

\* A record call does not wait for I/O and ends; the writer task of the history is
\* run, and its transactions end, well or badly.
FairSpec ==
  /\ Spec
  /\ \A r \in Recorders :
       WF_vars(Offer(r) /\ UNCHANGED <<auditVars, snapshotVars, logVars, part>>)
  /\ WF_vars(WriterStep /\ UNCHANGED <<auditVars, snapshotVars, logVars, part>>)

\* When the writer tasks have exited, which the shutdown waits for, everything that
\* their channels took is in the databases, unless its transaction failed or it has
\* expired (HistoryStore::shutdown, AuditLog::shutdown).
DrainLosesNothing == HistoryDrainLosesNothing /\ AuditDrainLosesNothing
================================================================================
