------------------------------ MODULE NodeViews --------------------------------
(***************************************************************************)
(* What the runtime registry shows to its readers: the rows of the nodes,  *)
(* one revision per cached view, and the broadcast of "dirty" signals to   *)
(* browsers (state.rs, state/registry.rs).  Who owns a node is the subject *)
(* of SessionRegistry; here a node is absent, offline or online, and its   *)
(* snapshot and latency are one counter `data`.                            *)
(*                                                                         *)
(* A writer changes rows and raises revisions under one write lock, so a   *)
(* change is one action: readers of rows wait for the lock, and a revision *)
(* read in between is one read before the change.                          *)
(***************************************************************************)
EXTENDS Naturals, FiniteSets, FiniteSetsExt

CONSTANTS
  Nodes,       \* node ids
  MaxChanges   \* bound of the model: changes of the rows

ASSUME ChangesAssumption == MaxChanges \in Nat /\ IsFiniteSet(Nodes)

VARIABLES
  rows,      \* Registry.nodes, as the views show them
  revision,  \* nodes_revision, overview_revision, metrics_revision
  signals,   \* number of signals sent to browser_view_dirty_tx
  changes    \* bound: number of changes so far

viewVars == <<rows, revision, signals, changes>>

Kinds == {"nodes", "overview", "metrics"}
Absent == [known |-> FALSE, online |-> FALSE, data |-> 0]
Row == [known : BOOLEAN, online : BOOLEAN, data : Nat]

ViewsTypeOK ==
  /\ rows \in [Nodes -> Row]
  /\ revision \in [Kinds -> Nat \ {0}]
  /\ signals \in Nat
  /\ changes \in Nat

\* A start restores some nodes from the snapshot file, all of them offline.
ViewsInit ==
  /\ rows \in [Nodes -> {Absent, [known |-> TRUE, online |-> FALSE, data |-> 1]}]
  /\ revision = [k \in Kinds |-> 1]
  /\ signals = 0
  /\ changes = 0

\* The part of the rows that only a structural change alters.
Structure(R) == [n \in Nodes |-> [known |-> R[n].known, online |-> R[n].online]]

\* build_overview_from_iter: totals over all rows.
Overview(R) ==
  LET known == {n \in Nodes : R[n].known}
      online == {n \in known : R[n].online}
  IN [total |-> Cardinality(known),
      online |-> Cardinality(online),
      offline |-> Cardinality(known) - Cardinality(online),
      bytes |-> MapThenSumSet(LAMBDA n : R[n].data, known)]

Change ==
  /\ changes < MaxChanges
  /\ changes' = changes + 1

\* bump_view_revision: all views are outdated.
BumpAll ==
  /\ revision' = [k \in Kinds |-> revision[k] + 1]
  /\ signals' = signals + 1

\* bump_nodes_revision_only.
BumpNodes ==
  /\ revision' = [revision EXCEPT !["nodes"] = @ + 1]
  /\ signals' = signals + 1

\* register_node; the node may be online already when its agent reconnects.
Register(n) ==
  /\ Change
  /\ rows' = [rows EXCEPT ![n] = [known |-> TRUE, online |-> TRUE, data |-> @.data]]
  /\ BumpAll

\* update_snapshot and update_latency of the current session.
Update(n) ==
  /\ rows[n].online
  /\ Change
  /\ rows' = [rows EXCEPT ![n].data = @ + 1]
  /\ BumpNodes

\* mark_disconnected takes one node offline, mark_stale any number of them.
GoOffline(S) ==
  /\ S # {} /\ \A n \in S : rows[n].online
  /\ Change
  /\ rows' = [n \in Nodes |-> IF n \in S THEN [rows[n] EXCEPT !.online = FALSE]
                                         ELSE rows[n]]
  /\ BumpAll

\* A change of some of the nodes N.
ChangeRows(N) ==
  \/ \E n \in N : Register(n) \/ Update(n)
  \/ \E S \in SUBSET N : GoOffline(S)
================================================================================
