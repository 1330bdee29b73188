---------------------------- MODULE NodeOwnership ----------------------------
(***************************************************************************)
(* What the runtime registry of the server promises about sessions, with   *)
(* none of its mechanism: a node is owned by at most one agent session at  *)
(* a time, a session owns its node during one uninterrupted period, and    *)
(* the data shown for a node is only ever written by its owner.            *)
(***************************************************************************)
CONSTANTS
  Nodes,    \* node ids
  Conns,    \* agent connections, each of which is one session
  NoConn    \* no session

VARIABLES
  owner,    \* the session that owns a node, or NoConn
  spent,    \* the sessions that have owned a node, now or in the past
  shown     \* the session that wrote the data shown for a node, or NoConn

ownerVars == <<owner, spent, shown>>

OwnershipInit ==
  /\ owner = [n \in Nodes |-> NoConn]
  /\ spent = {}
  /\ shown = [n \in Nodes |-> NoConn]

\* A session that never owned a node becomes the owner, whoever owned it.
Take(n, c) ==
  /\ c \notin spent
  /\ owner' = [owner EXCEPT ![n] = c]
  /\ spent' = spent \cup {c}
  /\ UNCHANGED shown

\* The owner publishes data.
Show(n) ==
  /\ owner[n] # NoConn
  /\ shown' = [shown EXCEPT ![n] = owner[n]]
  /\ UNCHANGED <<owner, spent>>

\* Some nodes lose their owner: a disconnect, or a sweep of silent nodes.
Release(S) ==
  /\ owner' = [n \in Nodes |-> IF n \in S THEN NoConn ELSE owner[n]]
  /\ UNCHANGED <<spent, shown>>

OwnershipNext ==
  \/ \E n \in Nodes, c \in Conns : Take(n, c)
  \/ \E n \in Nodes : Show(n)
  \/ \E S \in SUBSET Nodes : Release(S)

OwnershipSpec == OwnershipInit /\ [][OwnershipNext]_ownerVars
==============================================================================
