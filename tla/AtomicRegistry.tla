--------------------------- MODULE AtomicRegistry ----------------------------
(***************************************************************************)
(* What the node registry file promises to the server and to the operator  *)
(* CLI that write it concurrently: every operation is one atomic change of *)
(* the latest file, and an install token is handed out at most once.       *)
(***************************************************************************)
EXTENDS Naturals

CONSTANT Nodes    \* node ids

VARIABLES
  gen,        \* token generation of a node; 0 while it is not registered
  install,    \* generation of the token a pending install session holds; 0: none
  handed      \* generations of the tokens handed out by install sessions

registryVars == <<gen, install, handed>>

AtomicInit ==
  /\ gen = [n \in Nodes |-> 0]
  /\ install = [n \in Nodes |-> 0]
  /\ handed = [n \in Nodes |-> {}]

\* Install sessions run out.
Without(S, sessions) == [n \in Nodes |-> IF n \in S THEN 0 ELSE sessions[n]]

\* A live session's token is replaced by the next generation.
Rotate(n) ==
  /\ gen' = [gen EXCEPT ![n] = @ + 1]
  /\ UNCHANGED <<install, handed>>

\* The operator issues the next generation, with an install session for it.
Issue(n, S) ==
  /\ gen' = [gen EXCEPT ![n] = @ + 1]
  /\ install' = [Without(S, install) EXCEPT ![n] = gen[n] + 1]
  /\ UNCHANGED handed

\* An install session is consumed: its token leaves the registry.
Consume(n, S) ==
  /\ install[n] # 0
  /\ n \notin S
  /\ install[n] \notin handed[n]
  /\ install' = [Without(S, install) EXCEPT ![n] = 0]
  /\ handed' = [handed EXCEPT ![n] = @ \cup {install[n]}]
  /\ UNCHANGED gen

\* Expired install sessions are removed.
Prune(S) ==
  /\ install' = Without(S, install)
  /\ UNCHANGED <<gen, handed>>

AtomicNext ==
  \/ \E n \in Nodes : Rotate(n)
  \/ \E n \in Nodes, S \in SUBSET Nodes : Issue(n, S) \/ Consume(n, S)
  \/ \E S \in SUBSET Nodes : Prune(S)

AtomicSpec == AtomicInit /\ [][AtomicNext]_registryVars
==============================================================================
