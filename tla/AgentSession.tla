------------------------------- MODULE AgentSession -------------------------------
(***************************************************************************)
(* One agent (nodelite-agent/src/session.rs, config_io.rs): it connects,   *)
(* says hello with the token in its memory, ships its buffered log lines,  *)
(* takes over refreshed tokens - first in memory, then in its file - and   *)
(* starts over after a backoff, whatever ended the session.  The server is *)
(* reduced to what the agent meets: the handshake, the rotation of its     *)
(* token and the close of the session; it notices a broken connection      *)
(* late, and rotates the token of an agent that is gone.                   *)
(*                                                                         *)
(* A token is its generation, a log line its number.                       *)
(***************************************************************************)
EXTENDS Integers, Sequences, FiniteSets, SequencesExt

CONSTANTS
  BufferCapacity,  \* MAX_PENDING_AGENT_LOGS
  BatchSize,       \* MAX_AGENT_LOG_BATCH
  ShortRetries,    \* number of TOKEN_EXPIRED_SHORT_RETRY_DELAYS
  MaxBackoff,      \* reconnect_delay grows up to this attempt
  MaxTokens,       \* bounds of the model: generations of the token,
  MaxConnects      \* connections and restarts begun

ASSUME AgentAssumption ==
  /\ {BufferCapacity, BatchSize, ShortRetries, MaxBackoff} \subseteq Nat \ {0}
  /\ MaxTokens \in Nat /\ MaxConnects \in Nat

VARIABLES
  agent,       \* the step of the agent, whether it is authenticated, the counters
               \* reconnect_attempt and token_expired_attempt, the class of its delay
  memoryToken, diskToken,
  buffer, nextLine,
  link,        \* the connection of the agent carries messages
  attached,    \* the session on the server is the one of this connection
  toAgent, toServer,
  registryToken, tokenExpired,
  serverStep,  \* the session on the server: "none", "open", or "rotated" while the
               \* answer with the new token is not sent
  delivered,   \* history: the last log line the server took, and how many it took
  gone,        \* history: log lines dropped by the full buffer, lost in a broken
               \* connection or with the process
  tokenLost,   \* history: the way of a new token to the file of the agent was cut
  connects     \* counts the connections and restarts

logLines == <<buffer, nextLine, delivered, gone>>
wires == <<link, attached, toAgent, toServer>>
tokens == <<memoryToken, diskToken, registryToken, tokenExpired, tokenLost>>
agentVars == <<agent, logLines, wires, tokens, serverStep, connects>>

AgentSteps == {"idle", "session", "persist", "flush", "backoff", "down"}
Fresh == [step |-> "idle", authed |-> FALSE, reconnect |-> 0, expired |-> 0, delay |-> "none"]
Token(n) == [kind |-> "token", value |-> n]
Notice(kind) == [kind |-> kind, value |-> 0]
\* The log lines on their way: all that is there but a hello, which comes first.
InFlight == IF toServer # <<>> /\ Head(toServer).kind = "hello" THEN Tail(toServer) ELSE toServer

AgentTypeOK ==
  /\ agent \in [step : AgentSteps, authed : BOOLEAN, reconnect : 0..MaxBackoff,
                expired : 0..ShortRetries, delay : {"none", "growing", "short", "long"}]
  /\ {memoryToken, diskToken, registryToken} \subseteq 0..MaxTokens
  /\ Len(buffer) <= BufferCapacity /\ nextLine \in Nat /\ gone \in Nat
  /\ link \in BOOLEAN /\ attached \in BOOLEAN /\ tokenExpired \in BOOLEAN /\ tokenLost \in BOOLEAN
  /\ serverStep \in {"none", "open", "rotated"}
  /\ connects \in 0..MaxConnects

AgentInit ==
  /\ agent = Fresh /\ memoryToken = 0 /\ diskToken = 0
  /\ buffer = <<0>> /\ nextLine = 1          \* "agent configuration loaded"
  /\ link = FALSE /\ attached = FALSE /\ toAgent = <<>> /\ toServer = <<>>
  /\ registryToken = 0 /\ tokenExpired = FALSE /\ serverStep = "none"
  /\ delivered = [last |-> -1, count |-> 0] /\ gone = 0 /\ tokenLost = FALSE
  /\ connects = 0

AgentAt(step) == agent.step = step

\* AgentLogBuffer::push k times, with k lines lost with the buffer that was before.
Pushes(k) ==
  LET all == buffer \o [i \in 1..k |-> nextLine + i - 1]
      overflow == IF Len(all) > BufferCapacity THEN Len(all) - BufferCapacity ELSE 0
  IN /\ buffer' = SubSeq(all, overflow + 1, Len(all))
     /\ gone' = gone + overflow
     /\ nextLine' = nextLine + k
     /\ UNCHANGED delivered

\* run_forever with the error of a session: which counter goes back to 0, and how long
\* it sleeps.  The counter in use grows when the sleep is over.
SessionEnds(established, expired) ==
  LET back == IF established THEN [agent EXCEPT !.reconnect = 0, !.expired = 0] ELSE agent
  IN agent' = IF expired
              THEN [back EXCEPT !.step = "backoff", !.authed = FALSE, !.reconnect = 0,
                      !.delay = IF back.expired < ShortRetries THEN "short" ELSE "long"]
              ELSE [back EXCEPT !.step = "backoff", !.authed = FALSE, !.expired = 0,
                      !.delay = "growing"]

\* What the agent sent, or was sent, and is not taken is lost with the connection.
CutLink == /\ link' = FALSE /\ attached' = FALSE
           /\ toAgent' = <<>> /\ toServer' = <<>>
TokenInFlight == \E i \in DOMAIN toAgent : toAgent[i].kind = "token"

BackoffEnds ==
  /\ AgentAt("backoff")
  /\ LET up(n, top) == IF n < top THEN n + 1 ELSE top
     IN agent' = IF agent.delay = "growing"
                 THEN [agent EXCEPT !.step = "idle", !.delay = "none",
                                    !.reconnect = up(@, MaxBackoff)]
                 ELSE [agent EXCEPT !.step = "idle", !.delay = "none",
                                    !.expired = up(@, ShortRetries)]
  /\ UNCHANGED <<logLines, wires, tokens, serverStep, connects>>

\* "connecting to ..." is logged; the connection is refused or times out,
ConnectFails ==
  /\ AgentAt("idle") /\ connects < MaxConnects
  /\ connects' = connects + 1
  /\ Pushes(2)
  /\ SessionEnds(FALSE, FALSE)
  /\ UNCHANGED <<wires, tokens, serverStep>>

\* or the hello goes out with the token in memory.
ConnectAndHello ==
  /\ AgentAt("idle") /\ connects < MaxConnects
  /\ connects' = connects + 1
  /\ Pushes(1)
  /\ agent' = [agent EXCEPT !.step = "session"]
  /\ link' = TRUE /\ attached' = FALSE /\ toAgent' = <<>>
  /\ toServer' = <<[kind |-> "hello", value |-> memoryToken]>>
  /\ UNCHANGED <<tokens, serverStep>>

Incoming(kind) == AgentAt("session") /\ toAgent # <<>> /\ Head(toAgent).kind = kind
TakeIncoming == toAgent' = Tail(toAgent) /\ UNCHANGED <<link, attached, toServer>>

Authenticated ==
  /\ Incoming("authenticated")
  /\ Pushes(1)
  /\ agent' = [agent EXCEPT !.step = "flush", !.authed = TRUE]
  /\ TakeIncoming
  /\ UNCHANGED <<tokens, serverStep, connects>>

\* The server closes after a refusal, and the agent hangs up.  Only "token expired" is
\* told from other errors.
Refused ==
  /\ Incoming("expired") \/ Incoming("unauthorized")
  /\ Pushes(2)
  /\ SessionEnds(FALSE, Head(toAgent).kind = "expired")
  /\ CutLink
  /\ UNCHANGED <<tokens, serverStep, connects>>

\* Faulty: the memory follows when the file is written.
TokenArrivesForDisk ==
  /\ Incoming("token")
  /\ Pushes(1)
  /\ agent' = [agent EXCEPT !.step = "persist"]
  /\ TakeIncoming
  /\ UNCHANGED <<tokens, serverStep, connects>>

TokenArrives ==
  /\ Incoming("token")
  /\ memoryToken' = Head(toAgent).value
  /\ Pushes(1)
  /\ agent' = [agent EXCEPT !.step = "persist"]
  /\ TakeIncoming
  /\ UNCHANGED <<diskToken, registryToken, tokenExpired, tokenLost, serverStep, connects>>

\* update_token_in_config replaces the file as a whole, or fails and is only logged.
PersistToken ==
  /\ AgentAt("persist")
  /\ diskToken' \in {diskToken, memoryToken}
  /\ Pushes(1)
  /\ agent' = [agent EXCEPT !.step = "flush"]
  /\ UNCHANGED <<wires, memoryToken, registryToken, tokenExpired, tokenLost, serverStep,
                 connects>>

\* Faulty: the batch leaves the buffer before it is sent.
FlushThenLose ==
  /\ AgentAt("flush") /\ buffer # <<>>
  /\ LET n == IF Len(buffer) < BatchSize THEN Len(buffer) ELSE BatchSize
     IN /\ toServer' = IF link THEN toServer \o [i \in 1..n |-> [kind |-> "log", value |-> buffer[i]]]
                       ELSE toServer
        /\ buffer' = SubSeq(buffer, n + 1, Len(buffer))
  /\ UNCHANGED <<agent, nextLine, delivered, gone, link, attached, toAgent, tokens, serverStep,
                 connects>>

\* flush_agent_logs: the first entries are sent, and then discarded,
FlushBatch ==
  /\ AgentAt("flush") /\ buffer # <<>> /\ link
  /\ LET n == IF Len(buffer) < BatchSize THEN Len(buffer) ELSE BatchSize
     IN /\ toServer' = toServer \o [i \in 1..n |-> [kind |-> "log", value |-> buffer[i]]]
        /\ buffer' = SubSeq(buffer, n + 1, Len(buffer))
  /\ UNCHANGED <<agent, nextLine, delivered, gone, link, attached, toAgent, tokens, serverStep,
                 connects>>

\* until the buffer is empty.
FlushEnds ==
  /\ AgentAt("flush") /\ buffer = <<>>
  /\ agent' = [agent EXCEPT !.step = "session"]
  /\ UNCHANGED <<logLines, wires, tokens, serverStep, connects>>

\* A send or a receive fails, or the close of the server arrives.
LinkErrorSeen ==
  /\ agent.step \in {"session", "flush"} /\ ~link
  /\ Pushes(1)
  /\ SessionEnds(agent.authed, FALSE)
  /\ UNCHANGED <<wires, tokens, serverStep, connects>>

LinkBreaks ==
  /\ link
  /\ CutLink
  /\ tokenLost' = (tokenLost \/ TokenInFlight)
  /\ gone' = gone + Len(InFlight)
  /\ UNCHANGED <<agent, buffer, nextLine, delivered, memoryToken, diskToken, registryToken,
                 tokenExpired, serverStep, connects>>

\* The agent is killed or told to stop.  Its buffer and an unsaved token are lost.
AgentStops ==
  /\ ~AgentAt("down")
  /\ agent' = [Fresh EXCEPT !.step = "down"]
  /\ CutLink /\ buffer' = <<>>
  /\ gone' = gone + Len(buffer) + Len(InFlight)
  /\ tokenLost' = (tokenLost \/ memoryToken # diskToken \/ TokenInFlight)
  /\ UNCHANGED <<nextLine, delivered, memoryToken, diskToken, registryToken, tokenExpired,
                 serverStep, connects>>

AgentStarts ==
  /\ AgentAt("down") /\ connects < MaxConnects
  /\ agent' = Fresh
  /\ memoryToken' = diskToken
  /\ connects' = connects + 1
  /\ Pushes(1)
  /\ UNCHANGED <<wires, diskToken, registryToken, tokenExpired, tokenLost, serverStep>>

\* authorize_hello and the notice that follows.
ServerTakesHello ==
  /\ toServer # <<>> /\ Head(toServer).kind = "hello"
  /\ toServer' = Tail(toServer)
  /\ LET current == Head(toServer).value = registryToken
     IN /\ toAgent' = Append(toAgent, Notice(IF ~current THEN "unauthorized"
                                             ELSE IF tokenExpired THEN "expired"
                                             ELSE "authenticated"))
        /\ serverStep' = IF current /\ ~tokenExpired THEN "open" ELSE serverStep
        /\ attached' = (current /\ ~tokenExpired)
  /\ UNCHANGED <<agent, logLines, link, tokens, connects>>

ServerTakesLog ==
  /\ toServer # <<>> /\ Head(toServer).kind = "log" /\ serverStep = "open" /\ attached
  /\ toServer' = Tail(toServer)
  /\ delivered' = [last |-> Head(toServer).value, count |-> delivered.count + 1]
  /\ UNCHANGED <<agent, buffer, nextLine, gone, link, attached, toAgent, tokens, serverStep,
                 connects>>

\* refresh_session_token: the registry has the new token,
ServerRotates ==
  /\ serverStep = "open" /\ registryToken < MaxTokens
  /\ registryToken' = registryToken + 1 /\ tokenExpired' = FALSE
  /\ serverStep' = "rotated"
  /\ UNCHANGED <<agent, logLines, wires, memoryToken, diskToken, tokenLost, connects>>

\* and then it is sent, possibly into a connection that is broken by now.
ServerSendsToken ==
  /\ serverStep = "rotated"
  /\ serverStep' = "open"
  /\ toAgent' = IF attached THEN Append(toAgent, Token(registryToken)) ELSE toAgent
  /\ tokenLost' = (tokenLost \/ ~attached)
  /\ UNCHANGED <<agent, logLines, link, attached, toServer, memoryToken, diskToken, registryToken,
                 tokenExpired, connects>>

\* The session ends on the server, which may be in the middle of a rotation.
ServerEnds ==
  /\ serverStep # "none"
  /\ serverStep' = "none"
  /\ tokenLost' = (tokenLost \/ serverStep = "rotated" \/ (attached /\ TokenInFlight))
  /\ IF attached THEN CutLink /\ gone' = gone + Len(InFlight) ELSE UNCHANGED <<wires, gone>>
  /\ UNCHANGED <<agent, buffer, nextLine, delivered, memoryToken, diskToken, registryToken,
                 tokenExpired, connects>>

TokenExpires ==
  /\ ~tokenExpired
  /\ tokenExpired' = TRUE
  /\ UNCHANGED <<agent, logLines, wires, memoryToken, diskToken, registryToken, tokenLost,
                 serverStep, connects>>

\* The operator rotates the token and installs the agent again with it.
Reinstall ==
  /\ AgentAt("down") /\ registryToken < MaxTokens /\ serverStep # "rotated"
  /\ registryToken' = registryToken + 1 /\ tokenExpired' = FALSE /\ tokenLost' = FALSE
  /\ diskToken' = registryToken'
  /\ UNCHANGED <<agent, logLines, wires, memoryToken, serverStep, connects>>

AgentNext ==
  \/ BackoffEnds \/ ConnectFails \/ ConnectAndHello \/ Authenticated \/ Refused
  \/ TokenArrives \/ PersistToken \/ FlushBatch \/ FlushEnds \/ LinkErrorSeen \/ LinkBreaks
  \/ AgentStops \/ AgentStarts \/ ServerTakesHello \/ ServerTakesLog \/ ServerRotates
  \/ ServerSendsToken \/ ServerEnds \/ TokenExpires \/ Reinstall

--------------------------------------------------------------------------------
\* The agent can always say hello with the token of the registry, or the token is on
\* its way, unless a rotation was cut off: a new token that reached the agent is in its
\* memory whether or not its file could be written (run_session, update_token_in_config).
TokenReachesAgent ==
  \/ tokenLost
  \/ registryToken = IF AgentAt("down") THEN diskToken ELSE memoryToken
  \/ serverStep = "rotated"
  \/ Token(registryToken) \in Range(toAgent)

\* Log lines reach the server in their order and at most once, and none is missing but
\* those that the full buffer, a broken connection or the end of the process took
\* (AgentLogBuffer, flush_agent_logs).
LinesHandedOverOnce ==
  LET lines == <<delivered.last>> \o [i \in DOMAIN InFlight |-> InFlight[i].value] \o buffer
  IN /\ \A i \in 1..Len(lines) - 1 : lines[i] < lines[i + 1]
     /\ nextLine = delivered.count + Len(InFlight) + Len(buffer) + gone
================================================================================
