-------------------------------- MODULE Admission --------------------------------
(***************************************************************************)
(* Admission of websocket connections (WsAdmissionController): every       *)
(* connection holds a permit from the upgrade to the end of its socket,    *)
(* permits are limited in all and per client, and failures of the          *)
(* handshake of an agent (ws/handshake.rs) block the client.  Each step    *)
(* is one critical section of the controller.                              *)
(***************************************************************************)
EXTENDS AuthFailures, FiniteSetsExt

CONSTANTS
  Sockets,
  Proxies,         \* trusted_proxies and the loopback addresses
  MaxTotalSockets, \* max_total_connections
  MaxPerClient,    \* max_connections_per_ip
  MaxAdmissionTime \* bound of the model: the clock

ASSUME AdmissionAssumption ==
  /\ IsFiniteSet(Sockets) /\ IsFiniteSet(Clients)
  /\ Proxies \cap Clients = {} /\ Proxies \subseteq Nat \ {0}
  /\ {MaxTotalSockets, MaxPerClient, MaxAdmissionTime} \subseteq Nat \ {0}

VARIABLES
  time,         \* Instant::now
  active,       \* active_by_ip, 0 where the map has no entry
  totalActive,  \* total_active_connections
  failures,     \* auth_failures
  socket        \* where each socket is, and its client

admissionVars == <<time, active, totalActive, failures, socket>>

NoSocket == [step |-> "none", client |-> 0]
SocketSteps == {"none", "hello", "open", "ending"}

AdmissionTypeOK ==
  /\ time \in 0..MaxAdmissionTime
  /\ active \in [Clients -> 0..MaxPerClient] /\ totalActive \in 0..MaxTotalSockets
  /\ IsTable(failures)
  /\ socket \in [Sockets -> [step : SocketSteps, client : Clients \cup {0}]]

AdmissionInit ==
  /\ time = 0 /\ active = [c \in Clients |-> 0] /\ totalActive = 0
  /\ failures = EmptyTable /\ socket = [s \in Sockets |-> NoSocket]

\* resolve_client_ip: only a trusted proxy is believed.  The headers are a list of
\* forwarded addresses, in which 0 is a segment that does not parse and makes the
\* header void, and the address of x-real-ip, 0 for none.
ResolveClient(peer, forwarded, real) ==
  LET outer == SelectSeq(forwarded, LAMBDA a : a \notin Proxies)
  IN IF peer \notin Proxies THEN peer
     ELSE IF 0 \notin Range(forwarded) /\ outer # <<>> THEN Last(outer)
     ELSE IF real \notin {0, peer} THEN real
     ELSE peer

Forwarded == UNION {[1..n -> Clients \cup Proxies \cup {0}] : n \in 0..2}
Arrivals == {ResolveClient(peer, forwarded, real) :
               peer \in Clients \cup Proxies, forwarded \in Forwarded,
               real \in Clients \cup {0}} \cap Clients

\* try_acquire, at the upgrade of a request.  A refusal leaves a pruned entry.
TryAcquire(s, c) ==
  LET refused == BlockedAt(failures, c, time) \/ totalActive >= MaxTotalSockets
                   \/ active[c] >= MaxPerClient
  IN /\ socket[s] = NoSocket
     /\ failures' = Checked(failures, c, time)
     /\ IF refused THEN UNCHANGED <<active, totalActive, socket>>
        ELSE /\ totalActive' = totalActive + 1
             /\ active' = [active EXCEPT ![c] = @ + 1]
             /\ socket' = [socket EXCEPT ![s] = [step |-> "hello", client |-> c]]
     /\ UNCHANGED time

\* No hello in time, a malformed one, an unknown protocol version, a wrong or expired
\* token: record_auth_failure, and then the notice to the agent.
HelloFails(s) ==
  /\ socket[s].step = "hello"
  /\ failures' = WithFailure(failures, socket[s].client, time)
  /\ socket' = [socket EXCEPT ![s].step = "ending"]
  /\ UNCHANGED <<time, active, totalActive>>

\* The server stops while it waits: nobody failed.
HelloCancelled(s) ==
  /\ socket[s].step = "hello"
  /\ socket' = [socket EXCEPT ![s].step = "ending"]
  /\ UNCHANGED <<time, active, totalActive, failures>>

\* authorize_hello accepts: clear_auth_failures for the client.
HelloAuthorized(s) ==
  /\ socket[s].step = "hello"
  /\ failures' = Cleared(failures, socket[s].client)
  /\ socket' = [socket EXCEPT ![s].step = "open"]
  /\ UNCHANGED <<time, active, totalActive>>

\* Faulty: the count of the client is forgotten with its first socket.
ReleaseForgets(s) ==
  /\ socket[s].step \in {"open", "ending"}
  /\ totalActive' = totalActive - 1
  /\ active' = [active EXCEPT ![socket[s].client] = 0]
  /\ socket' = [socket EXCEPT ![s] = NoSocket]
  /\ UNCHANGED <<time, failures>>

\* The socket ends and WsConnectionPermit::drop gives the permit back.
Release(s) ==
  LET minus(n) == IF n > 0 THEN n - 1 ELSE 0
  IN /\ socket[s].step \in {"open", "ending"}
     /\ totalActive' = minus(totalActive)
     /\ active' = [active EXCEPT ![socket[s].client] = minus(@)]
     /\ socket' = [socket EXCEPT ![s] = NoSocket]
     /\ UNCHANGED <<time, failures>>

TimePasses ==
  /\ time < MaxAdmissionTime
  /\ time' = time + 1
  /\ UNCHANGED <<active, totalActive, failures, socket>>

AdmissionNext ==
  \/ \E s \in Sockets :
       \/ \E c \in Arrivals : TryAcquire(s, c)
       \/ HelloFails(s) \/ HelloCancelled(s) \/ HelloAuthorized(s) \/ Release(s)
  \/ TimePasses

--------------------------------------------------------------------------------
\* The counters are the permits that are out, in all and for each client: no way to
\* end a socket loses a permit or returns it twice (WsConnectionPermit::drop).
PermitsMatchSockets ==
  LET holders(c) == {s \in Sockets : socket[s].client = c}
  IN /\ \A c \in Clients : active[c] = Cardinality(holders(c))
     /\ totalActive = MapThenSumSet(LAMBDA c : active[c], Clients)

\* A block lasts to its end whatever the other clients do, unless an agent of the same
\* client is authorised, or the table is full of entries that outlast it
\* (sweep_expired_auth_failures, enforce_auth_failure_hard_cap).
BlockLasts ==
  [][\A c \in Clients :
       LET authorized == \E s \in Sockets : socket[s].client = c
                            /\ socket[s].step = "hello" /\ socket'[s].step = "open"
       IN BlockKept(failures, failures', c, time', authorized)]_admissionVars
================================================================================
