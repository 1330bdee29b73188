------------------------------ MODULE WebClient --------------------------------
(***************************************************************************)
(* The WebSocket of the web page (web/src/ws/client.ts): connecting,       *)
(* reconnecting after a delay, giving up after three failed handshakes,    *)
(* the ping with its pong timeout, and what hiding and showing the tab do. *)
(* App.vue connects when the page is loaded and keeps the client over all  *)
(* routes, until the page itself goes.                                     *)
(*                                                                         *)
(* `socket` is this.ws as the browser drives it; the client learns of its  *)
(* end by onclose only, also after it has called close() itself.  A tab    *)
(* that is hidden and shown before that finds `state` still open.  An      *)
(* error event of a handshake and the close event after it are one task.   *)
(*                                                                         *)
(* Left out: delays, and the probe of a failed handshake, which looks for  *)
(* an expired login and then leaves the page.                              *)
(*                                                                         *)
(* PongWithoutRestart and HideAtOnce are faulty variants of the definition *)
(* after them, which no action uses (README).                              *)
(***************************************************************************)
EXTENDS Naturals

VARIABLES
  state,      \* the kind of this.state
  socket,     \* this.ws: none, connecting, open, closing
  alive,      \* external: the other end of the socket still answers
  heart,      \* which timer of the heartbeat runs: off, ping, pong
  failures,   \* handshakeFailures
  hidden,     \* document.hidden
  reachable   \* external: the server accepts connections of this page

clientVars == <<state, socket, alive, heart, failures, hidden, reachable>>

HandshakeLimit == 3

\* There is never a second socket: connect is reached only when the last one
\* has ended, or its late close event would drop the new one.
OneSocket ==
  /\ state \in {"idle", "reconnecting", "failed"} <=> socket = "none"
  /\ state = "connecting" <=> socket = "connecting"
  /\ heart # "off" => socket \in {"open", "closing"}

ClientTypeOK ==
  /\ state \in {"idle", "connecting", "open", "reconnecting", "failed"}
  /\ socket \in {"none", "connecting", "open", "closing"}
  /\ alive \in BOOLEAN
  /\ heart \in {"off", "ping", "pong"}
  /\ failures \in 0..HandshakeLimit
  /\ hidden \in BOOLEAN
  /\ reachable \in BOOLEAN
  /\ OneSocket

ClientInit ==
  /\ state = "connecting" /\ socket = "connecting"
  /\ alive = FALSE
  /\ heart = "off"
  /\ failures = 0
  /\ hidden \in BOOLEAN
  /\ reachable \in BOOLEAN

StartConnecting == state' = "connecting" /\ socket' = "connecting"

\* onOpen.
SocketOpens ==
  /\ socket = "connecting" /\ reachable
  /\ state' = "open" /\ socket' = "open"
  /\ alive' = TRUE
  /\ failures' = 0
  /\ heart' = "ping"
  /\ UNCHANGED <<hidden, reachable>>

\* onClose after a number of failed handshakes.
SocketIsGone(failed) ==
  /\ socket' = "none"
  /\ alive' = FALSE
  /\ heart' = "off"
  /\ failures' = failed
  /\ state' = IF failed >= HandshakeLimit THEN "failed"
              ELSE IF hidden THEN "idle" ELSE "reconnecting"

\* onError while connecting, then onClose.
HandshakeFails ==
  /\ socket = "connecting" /\ ~reachable
  /\ SocketIsGone(failures + 1)
  /\ UNCHANGED <<hidden, reachable>>

\* The browser ends the socket that was closed, after a while even if the
\* other end is silent.
CloseCompletes ==
  /\ socket = "closing"
  /\ SocketIsGone(failures)
  /\ UNCHANGED <<hidden, reachable>>

\* The server or the network ends an open connection.
ConnectionBreaks ==
  /\ socket = "open" /\ (~reachable \/ ~alive)
  /\ SocketIsGone(failures)
  /\ UNCHANGED <<hidden, reachable>>

\* The connection is lost and neither end has noticed.
GoesSilent ==
  /\ socket \in {"open", "closing"} /\ ~reachable
  /\ alive' = FALSE
  /\ UNCHANGED <<state, socket, heart, failures, hidden, reachable>>

\* The timer of scheduleReconnect.
RetryTimer ==
  /\ state = "reconnecting"
  /\ StartConnecting
  /\ UNCHANGED <<alive, heart, failures, hidden, reachable>>

\* The first timer of startHeartbeat; it pings an open socket only.
PingTimer ==
  /\ heart = "ping"
  /\ heart' = IF socket = "open" THEN "pong" ELSE "off"
  /\ UNCHANGED <<state, socket, alive, failures, hidden, reachable>>

\* clearPongTimer does not start the next ping.
PongWithoutRestart ==
  /\ alive /\ heart = "pong"
  /\ heart' = "off"
  /\ UNCHANGED <<state, socket, alive, failures, hidden, reachable>>

\* A pong clears its timer and starts the next ping; it may be late, when the
\* socket is closing.
PongArrives ==
  /\ alive /\ heart # "ping"
  /\ heart' = "ping"
  /\ UNCHANGED <<state, socket, alive, failures, hidden, reachable>>

\* The second timer closes the socket.  A live server answers in ten seconds.
PongTimeout ==
  /\ heart = "pong" /\ ~alive
  /\ heart' = "off"
  /\ socket' = "closing"
  /\ UNCHANGED <<state, alive, failures, hidden, reachable>>

\* The client counts as idle at once, not when the socket has ended.
HideAtOnce ==
  /\ ~hidden /\ hidden' = TRUE
  /\ socket' = IF socket = "open" THEN "closing" ELSE socket
  /\ state' = IF socket = "open" THEN "idle" ELSE state
  /\ UNCHANGED <<alive, heart, failures, reachable>>

\* handleVisibilityChange.
Hide ==
  /\ ~hidden /\ hidden' = TRUE
  /\ socket' = IF socket = "open" THEN "closing" ELSE socket
  /\ UNCHANGED <<state, alive, heart, failures, reachable>>

Show ==
  /\ hidden /\ hidden' = FALSE
  /\ IF state \in {"failed", "idle", "reconnecting"}
     THEN StartConnecting /\ failures' = 0
     ELSE UNCHANGED <<state, socket, failures>>
  /\ UNCHANGED <<alive, heart, reachable>>

\* The server stops, restarts, or is cut off, any number of times.
NetworkChanges ==
  /\ reachable' = ~reachable
  /\ UNCHANGED <<state, socket, alive, heart, failures, hidden>>
================================================================================
