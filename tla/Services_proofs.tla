------------------------------ MODULE Services_proofs ----------------------------
(***************************************************************************)
(* Proofs about the services around the core, for any bounds and any set   *)
(* of interfaces: the session loop of an agent, one delivery of an alert,  *)
(* the collector of network rates, and the rows and repairs of reports.    *)
(***************************************************************************)
EXTENDS Access_proofs

\* The parts run one at a time.
LEMMA AgentSteps1 == [Next]_vars => AgentNext \/ UNCHANGED agentVars
BY DEF Next, vars, hostVars, RunAdmission, RunInstall, RunLogin, RunSettings, RunAgent,
       RunCollector, RunReports, RunDelivery

LEMMA DeliverySteps == [Next]_vars => DeliveryNext \/ UNCHANGED deliveryVars
BY DEF Next, vars, RunAdmission, RunInstall, RunLogin, RunSettings, RunAgent,
       RunCollector, RunReports, RunDelivery

(***************************************************************************)
(* The session loop of an agent.                                           *)
(***************************************************************************)

FromServer == [kind : {"authenticated", "expired", "unauthorized", "token"}, value : Nat]
FromAgent == [kind : {"hello", "log"}, value : Nat]

AgentRecords == [step : AgentSteps, authed : BOOLEAN, reconnect : 0..MaxBackoff,
                 expired : 0..ShortRetries, delay : {"none", "growing", "short", "long"}]

LEMMA AgentBounds ==
  /\ BufferCapacity \in Nat \ {0} /\ BatchSize \in Nat \ {0}
  /\ ShortRetries \in Nat \ {0} /\ MaxBackoff \in Nat \ {0}
BY AgentAssumption

LEMMA CountersStart == 0 \in 0..MaxBackoff /\ 0 \in 0..ShortRetries
BY AgentBounds

SessionTypes ==
  /\ agent \in AgentRecords
  /\ memoryToken \in Nat /\ diskToken \in Nat /\ registryToken \in Nat
  /\ toAgent \in Seq(FromServer) /\ toServer \in Seq(FromAgent)
  /\ link \in BOOLEAN /\ attached \in BOOLEAN

\* Nothing travels without a connection, and an agent that is not in a session has none.
CutIsEmpty ==
  /\ ~link => toAgent = <<>> /\ toServer = <<>> /\ ~attached
  /\ agent.step \in {"idle", "backoff", "down"} => ~link

\* A hello is alone in its connection, and says what the agent knows.
HelloComesFirst ==
  \A i \in 1..Len(toServer) : toServer[i].kind = "hello" =>
    /\ i = 1 /\ Len(toServer) = 1 /\ toServer[i].value = memoryToken
    /\ toAgent = <<>> /\ ~attached /\ agent.step = "session"

\* Tokens come only from the session of this connection, refusals only without one.
NoticesMatch ==
  \A i \in 1..Len(toAgent) :
    /\ toAgent[i].kind = "token" => attached
    /\ toAgent[i].kind \in {"expired", "unauthorized"} => ~attached

\* Tokens in flight are newer than the one in memory, and arrive in their order.
TokensRise ==
  /\ memoryToken <= registryToken /\ diskToken <= registryToken
  /\ \A i \in 1..Len(toAgent) : toAgent[i].kind = "token" =>
       /\ memoryToken < toAgent[i].value /\ toAgent[i].value <= registryToken
       /\ \A j \in 1..Len(toAgent) : i < j /\ toAgent[j].kind = "token" =>
            toAgent[i].value < toAgent[j].value

\* Nobody but the server has the token that it is about to send.
RotatedIsAhead ==
  serverStep = "rotated" =>
    /\ memoryToken < registryToken /\ diskToken < registryToken
    /\ \A i \in 1..Len(toAgent) : toAgent[i].kind = "token" => toAgent[i].value < registryToken

\* TokenReachesAgent, with the token in flight named by its place.
TokenOnItsWay ==
  \/ tokenLost
  \/ registryToken = IF agent.step = "down" THEN diskToken ELSE memoryToken
  \/ serverStep = "rotated"
  \/ \E i \in 1..Len(toAgent) : toAgent[i] = Token(registryToken)

\* The inductive invariant of the tokens.
TokenInv ==
  /\ SessionTypes /\ CutIsEmpty /\ HelloComesFirst /\ NoticesMatch
  /\ TokensRise /\ RotatedIsAhead /\ TokenOnItsWay

LEMMA MessagesAre ==
  ASSUME SessionTypes
  PROVE  /\ \A i \in 1..Len(toAgent) : toAgent[i] \in FromServer /\ toAgent[i].value \in Nat
         /\ \A i \in 1..Len(toServer) : toServer[i] \in FromAgent /\ toServer[i].value \in Nat
                                        /\ toServer[i].kind \in {"hello", "log"}
         /\ Len(toAgent) \in Nat /\ Len(toServer) \in Nat
         /\ toAgent # <<>> => 1 \in 1..Len(toAgent) /\ Head(toAgent) = toAgent[1]
         /\ toServer # <<>> => 1 \in 1..Len(toServer) /\ Head(toServer) = toServer[1]
<1>1. \A m \in FromServer : m.value \in Nat
  BY DEF FromServer
<1>2. \A m \in FromAgent : m.value \in Nat /\ m.kind \in {"hello", "log"}
  BY DEF FromAgent
<1>3. \A i \in 1..Len(toAgent) : toAgent[i] \in FromServer
  BY DEF SessionTypes
<1>4. \A i \in 1..Len(toServer) : toServer[i] \in FromAgent
  BY DEF SessionTypes
<1>5. Len(toAgent) \in Nat /\ Len(toServer) \in Nat
  BY DEF SessionTypes
<1>6. toAgent # <<>> => 1 \in 1..Len(toAgent) /\ Head(toAgent) = toAgent[1]
  BY DEF SessionTypes
<1>7. toServer # <<>> => 1 \in 1..Len(toServer) /\ Head(toServer) = toServer[1]
  BY DEF SessionTypes
<1> QED BY <1>1, <1>2, <1>3, <1>4, <1>5, <1>6, <1>7

LEMMA InitTokens == Init => TokenInv
<1> SUFFICES ASSUME Init PROVE TokenInv
  OBVIOUS
<1>1. /\ agent = Fresh /\ memoryToken = 0 /\ diskToken = 0 /\ registryToken = 0
      /\ link = FALSE /\ attached = FALSE /\ toAgent = <<>> /\ toServer = <<>>
      /\ serverStep = "none"
  BY DEF Init, AgentInit
<1>2. SessionTypes
  <2>1. Fresh \in AgentRecords
    BY CountersStart DEF Fresh, AgentRecords, AgentSteps
  <2>2. link \in BOOLEAN /\ attached \in BOOLEAN
    BY <1>1
  <2> QED BY <1>1, <2>1, <2>2 DEF SessionTypes
<1>3. CutIsEmpty
  BY <1>1 DEF CutIsEmpty
<1> QED BY <1>1, <1>2, <1>3 DEF TokenInv, Fresh, HelloComesFirst, NoticesMatch, TokensRise,
                          RotatedIsAhead, TokenOnItsWay

\* What a step of the agent does to its own step.
LEMMA SessionEndsIs ==
  ASSUME SessionTypes, NEW established \in BOOLEAN, NEW expired \in BOOLEAN,
         SessionEnds(established, expired)
  PROVE  agent' \in AgentRecords /\ agent'.step = "backoff"
<1> DEFINE back == IF established THEN [agent EXCEPT !.reconnect = 0, !.expired = 0] ELSE agent
<1>1. back \in AgentRecords
  BY CountersStart DEF SessionTypes, AgentRecords
<1>2. agent' = IF expired
               THEN [back EXCEPT !.step = "backoff", !.authed = FALSE, !.reconnect = 0,
                       !.delay = IF back.expired < ShortRetries THEN "short" ELSE "long"]
               ELSE [back EXCEPT !.step = "backoff", !.authed = FALSE, !.expired = 0,
                       !.delay = "growing"]
  BY DEF SessionEnds
<1> HIDE DEF back
<1>3. CASE expired
  <2> DEFINE delay == IF back.expired < ShortRetries THEN "short" ELSE "long"
  <2>1. agent' = [back EXCEPT !.step = "backoff", !.authed = FALSE, !.reconnect = 0, !.delay = delay]
    BY <1>2, <1>3
  <2>2. delay \in {"short", "long"}
    OBVIOUS
  <2> HIDE DEF delay
  <2> QED BY <1>1, <2>1, <2>2, CountersStart DEF AgentRecords, AgentSteps
<1>4. CASE ~expired
  BY <1>1, <1>2, <1>4, CountersStart DEF AgentRecords, AgentSteps
<1> QED BY <1>3, <1>4

LEMMA BackoffEndsIs ==
  ASSUME SessionTypes, BackoffEnds
  PROVE  agent.step = "backoff" /\ agent' \in AgentRecords /\ agent'.step = "idle"
<1> DEFINE up(n, top) == IF n < top THEN n + 1 ELSE top
<1>1. agent' = IF agent.delay = "growing"
               THEN [agent EXCEPT !.step = "idle", !.delay = "none",
                                  !.reconnect = up(@, MaxBackoff)]
               ELSE [agent EXCEPT !.step = "idle", !.delay = "none",
                                  !.expired = up(@, ShortRetries)]
  BY DEF BackoffEnds
<1>2. /\ up(agent.reconnect, MaxBackoff) \in 0..MaxBackoff
      /\ up(agent.expired, ShortRetries) \in 0..ShortRetries
  BY AgentBounds DEF SessionTypes, AgentRecords
<1> HIDE DEF up
<1> QED BY <1>1, <1>2 DEF SessionTypes, AgentRecords, AgentSteps, BackoffEnds, AgentAt

LEMMA StepIs ==
  ASSUME SessionTypes, NEW to \in AgentSteps, agent' = [agent EXCEPT !.step = to]
  PROVE  agent' \in AgentRecords /\ agent'.step = to
BY DEF SessionTypes, AgentRecords

LEMMA FreshIs == Fresh \in AgentRecords /\ Fresh.step = "idle"
                 /\ [Fresh EXCEPT !.step = "down"] \in AgentRecords
                 /\ [Fresh EXCEPT !.step = "down"].step = "down"
BY CountersStart DEF Fresh, AgentRecords, AgentSteps

\* The lines that an agent keeps.
LineTypes ==
  /\ buffer \in Seq(Nat) /\ Len(buffer) <= BufferCapacity
  /\ nextLine \in Nat /\ gone \in Nat
  /\ delivered \in [last : Int, count : Nat]

\* The buffer after k lines more: the youngest of all, at most BufferCapacity of them.
LEMMA PushesIs ==
  ASSUME LineTypes, NEW k \in Nat \ {0}, Pushes(k)
  PROVE  /\ LineTypes' /\ nextLine' = nextLine + k /\ delivered' = delivered
         /\ Len(buffer') + gone' = Len(buffer) + gone + k
         /\ \E drop \in Nat :
              /\ drop + Len(buffer') = Len(buffer) + k
              /\ \A i \in 1..Len(buffer') :
                   buffer'[i] = IF drop + i <= Len(buffer) THEN buffer[drop + i]
                                ELSE nextLine + (drop + i - Len(buffer)) - 1
<1> DEFINE new == [i \in 1..k |-> nextLine + i - 1]
           all == buffer \o new
           overflow == IF Len(all) > BufferCapacity THEN Len(all) - BufferCapacity ELSE 0
<1>1. /\ buffer' = SubSeq(all, overflow + 1, Len(all)) /\ gone' = gone + overflow
      /\ nextLine' = nextLine + k /\ delivered' = delivered
  BY DEF Pushes
<1>2. new \in Seq(Nat) /\ Len(new) = k /\ \A i \in 1..k : new[i] = nextLine + i - 1
  BY DEF LineTypes
<1> HIDE DEF new
<1>3. /\ all \in Seq(Nat) /\ Len(all) = Len(buffer) + k /\ Len(all) \in Nat
      /\ \A i \in 1..Len(all) : all[i] = IF i <= Len(buffer) THEN buffer[i]
                                         ELSE nextLine + (i - Len(buffer)) - 1
  <2>1. /\ all \in Seq(Nat) /\ Len(all) = Len(buffer) + Len(new) /\ Len(buffer) \in Nat
        /\ \A i \in 1..Len(all) : all[i] = IF i <= Len(buffer) THEN buffer[i]
                                           ELSE new[i - Len(buffer)]
    <3>1. buffer \in Seq(Nat) /\ Len(buffer) \in Nat
      BY DEF LineTypes
    <3>2. all \in Seq(Nat) /\ Len(all) = Len(buffer) + Len(new)
      BY <1>2, <3>1, ConcatProperties
    <3>3. \A i \in 1..Len(buffer) + Len(new) :
             all[i] = IF i <= Len(buffer) THEN buffer[i] ELSE new[i - Len(buffer)]
      BY <1>2, <3>1, ConcatProperties
    <3> HIDE DEF all
    <3> QED BY <3>1, <3>2, <3>3
  <2> HIDE DEF all
  <2>2. ASSUME NEW i \in 1..Len(all), ~(i <= Len(buffer))
        PROVE  new[i - Len(buffer)] = nextLine + (i - Len(buffer)) - 1
    <3>1. i - Len(buffer) \in 1..k
      BY <1>2, <2>1, <2>2
    <3> QED BY <1>2, <3>1
  <2>3. Len(all) = Len(buffer) + k /\ Len(all) \in Nat
    BY <1>2, <2>1
  <2> QED BY <2>1, <2>2, <2>3
<1> HIDE DEF all
<1>4. overflow \in 0..Len(all) /\ Len(all) - overflow <= BufferCapacity
  BY <1>3, AgentBounds
<1> HIDE DEF overflow
<1>5. /\ buffer' \in Seq(Nat) /\ Len(buffer') = Len(all) - overflow
      /\ \A i \in 1..Len(buffer') : buffer'[i] = all[overflow + i]
  <2> DEFINE m == overflow + 1
             n == Len(all)
  <2>1. m \in Int /\ n \in Int /\ \A i \in m..n : all[i] \in Nat
    <3>1. \A i \in m..n : i \in 1..Len(all)
      BY <1>3, <1>4
    <3> QED BY <1>3, <1>4, <3>1, ElementOfSeq
  <2>2. buffer' = SubSeq(all, m, n)
    BY <1>1
  <2> HIDE DEF m, n
  <2>3. /\ buffer' \in Seq(Nat) /\ Len(buffer') = IF m <= n THEN n - m + 1 ELSE 0
        /\ \A i \in 1..n - m + 1 : buffer'[i] = all[m + i - 1]
    BY <2>1, <2>2, SubSeqProperties
  <2>4. m = overflow + 1 /\ n = Len(all) /\ overflow \in 0..Len(all) /\ Len(all) \in Nat
    BY <1>3, <1>4 DEF m, n
  <2>5. Len(buffer') = Len(all) - overflow
    BY <2>3, <2>4
  <2>6. \A i \in 1..Len(buffer') : buffer'[i] = all[overflow + i]
    <3> SUFFICES ASSUME NEW i \in 1..Len(buffer') PROVE buffer'[i] = all[overflow + i]
      OBVIOUS
    <3>1. i \in 1..n - m + 1 /\ m + i - 1 = overflow + i
      BY <2>4, <2>5
    <3> QED BY <2>3, <3>1
  <2> QED BY <2>3, <2>5, <2>6
<1>6. /\ nextLine \in Nat /\ gone \in Nat /\ Len(buffer) \in Nat
      /\ delivered \in [last : Int, count : Nat]
  BY DEF LineTypes
<1>7. LineTypes'
  <2>1. nextLine' \in Nat /\ gone' \in Nat
    BY <1>1, <1>3, <1>4, <1>6
  <2>2. Len(buffer') <= BufferCapacity
    BY <1>4, <1>5
  <2> QED BY <1>1, <1>5, <1>6, <2>1, <2>2 DEF LineTypes
<1>8. Len(buffer') + gone' = Len(buffer) + gone + k
  <2>1. /\ gone' = gone + overflow /\ Len(buffer') = Len(all) - overflow
        /\ Len(all) = Len(buffer) + k /\ overflow \in Nat
    BY <1>1, <1>3, <1>4, <1>5
  <2> QED BY <1>6, <2>1
<1>9. overflow \in Nat /\ \A i \in 1..Len(buffer') : overflow + i \in 1..Len(all)
  BY <1>3, <1>4, <1>5
<1>10. \A i \in 1..Len(buffer') :
          buffer'[i] = IF overflow + i <= Len(buffer) THEN buffer[overflow + i]
                       ELSE nextLine + (overflow + i - Len(buffer)) - 1
  <2> SUFFICES ASSUME NEW i \in 1..Len(buffer')
               PROVE  buffer'[i] = IF overflow + i <= Len(buffer) THEN buffer[overflow + i]
                                   ELSE nextLine + (overflow + i - Len(buffer)) - 1
    OBVIOUS
  <2>1. overflow + i \in 1..Len(all) /\ buffer'[i] = all[overflow + i]
    BY <1>5, <1>9
  <2> DEFINE j == overflow + i
  <2>2. j \in 1..Len(all) /\ buffer'[i] = all[j]
    BY <2>1
  <2> HIDE DEF j
  <2>3. all[j] = IF j <= Len(buffer) THEN buffer[j] ELSE nextLine + (j - Len(buffer)) - 1
    BY <1>3, <2>2
  <2>4. buffer'[i] = IF j <= Len(buffer) THEN buffer[j] ELSE nextLine + (j - Len(buffer)) - 1
    BY <2>2, <2>3
  <2>5. j = overflow + i /\ j - Len(buffer) = overflow + i - Len(buffer)
    BY <1>6, <1>9 DEF j
  <2> QED BY <2>4, <2>5
<1>11. overflow + Len(buffer') = Len(buffer) + k
  BY <1>3, <1>5, <1>6, <1>9
<1> QED BY <1>1, <1>7, <1>8, <1>9, <1>10, <1>11

LEMMA TokenStep == TokenInv /\ LineTypes /\ AgentNext => TokenInv'
<1> SUFFICES ASSUME TokenInv, LineTypes, AgentNext PROVE TokenInv'
  OBVIOUS
<1>0. /\ SessionTypes /\ CutIsEmpty /\ HelloComesFirst /\ NoticesMatch
      /\ TokensRise /\ RotatedIsAhead /\ TokenOnItsWay
  BY DEF TokenInv
\* A step of the agent beside its connection.
<1>1. ASSUME UNCHANGED <<wires, memoryToken, registryToken, serverStep, tokenLost>>,
             diskToken' \in {diskToken, memoryToken}, agent' \in AgentRecords,
             agent.step # "down", agent'.step # "down",
             ~link \/ (agent.step # "session" /\ agent'.step \notin {"idle", "backoff"})
      PROVE  TokenInv'
  <2>0. UNCHANGED <<link, attached, toAgent, toServer>>
    BY <1>1 DEF wires
  <2>1. SessionTypes'
    BY <1>0, <1>1, <2>0 DEF SessionTypes
  <2>2. CutIsEmpty'
    BY <1>0, <1>1, <2>0 DEF CutIsEmpty
  <2>3. HelloComesFirst'
    BY <1>0, <1>1, <2>0 DEF CutIsEmpty, HelloComesFirst
  <2>4. NoticesMatch'
    BY <1>0, <2>0 DEF NoticesMatch
  <2>5. TokensRise' /\ RotatedIsAhead'
    BY <1>0, <1>1, <2>0 DEF TokensRise, RotatedIsAhead
  <2>6. TokenOnItsWay'
    BY <1>0, <1>1, <2>0 DEF TokenOnItsWay, Token
  <2> QED BY <2>1, <2>2, <2>3, <2>4, <2>5, <2>6 DEF TokenInv
\* A step that cuts the connection.
<1>2. ASSUME CutLink, UNCHANGED <<memoryToken, diskToken, registryToken>>,
             serverStep' \in {"none", serverStep}, agent' \in AgentRecords, TokenOnItsWay'
      PROVE  TokenInv'
  <2>0. link' = FALSE /\ attached' = FALSE /\ toAgent' = <<>> /\ toServer' = <<>>
    BY <1>2 DEF CutLink
  <2>1. SessionTypes'
    <3>1. link' \in BOOLEAN /\ attached' \in BOOLEAN
      BY <2>0
    <3> QED BY <1>0, <1>2, <2>0, <3>1 DEF SessionTypes
  <2>2. CutIsEmpty' /\ HelloComesFirst' /\ NoticesMatch'
    BY <2>0 DEF CutIsEmpty, HelloComesFirst, NoticesMatch
  <2>3. TokensRise' /\ RotatedIsAhead'
    BY <1>0, <1>2, <2>0 DEF TokensRise, RotatedIsAhead
  <2> QED BY <1>2, <2>1, <2>2, <2>3 DEF TokenInv
\* The first notice is taken.
<1>3. ASSUME toAgent # <<>>, toAgent' = Tail(toAgent),
             UNCHANGED <<link, attached, toServer, diskToken, registryToken, serverStep, tokenLost>>,
             agent.step = "session", agent' \in AgentRecords, agent'.step \in {"flush", "persist"},
             IF Head(toAgent).kind = "token" THEN memoryToken' = Head(toAgent).value
                                             ELSE UNCHANGED memoryToken
      PROVE  TokenInv'
  <2>0. /\ Len(toAgent) \in Nat \ {0} /\ Len(toAgent') = Len(toAgent) - 1
        /\ Head(toAgent) = toAgent[1] /\ toAgent[1] \in FromServer
        /\ toAgent' \in Seq(FromServer)
        /\ \A i \in 1..Len(toAgent') : toAgent'[i] = toAgent[i + 1] /\ i + 1 \in 1..Len(toAgent)
    BY <1>0, <1>3 DEF SessionTypes
  <2>1. SessionTypes'
    BY <1>0, <1>3, <2>0 DEF SessionTypes, FromServer
  <2>2. CutIsEmpty'
    BY <1>0, <1>3, <2>0 DEF CutIsEmpty
  <2>3. HelloComesFirst'
    BY <1>0, <1>3 DEF HelloComesFirst
  <2>4. NoticesMatch'
    BY <1>0, <1>3, <2>0 DEF NoticesMatch
  <2>5. TokensRise' /\ RotatedIsAhead'
    <3>1. memoryToken' <= registryToken
      BY <1>0, <1>3, <2>0 DEF TokensRise
    <3>2. \A i \in 1..Len(toAgent') : toAgent'[i].kind = "token" => memoryToken' < toAgent'[i].value
      BY <1>0, <1>3, <2>0 DEF TokensRise
    <3>3. serverStep = "rotated" => memoryToken' < registryToken
      BY <1>0, <1>3, <2>0 DEF RotatedIsAhead
    <3> QED BY <1>0, <1>3, <2>0, <3>1, <3>2, <3>3 DEF TokensRise, RotatedIsAhead
  <2>6. TokenOnItsWay'
    <3>1. CASE tokenLost \/ serverStep = "rotated"
      BY <1>3, <3>1 DEF TokenOnItsWay
    <3>2. CASE registryToken = memoryToken
      <4>1. toAgent[1].kind # "token"
        BY <1>0, <1>3, <3>2, MessagesAre DEF TokensRise, SessionTypes
      <4> QED BY <1>3, <2>0, <3>2, <4>1 DEF TokenOnItsWay
    <3>3. ASSUME NEW i \in 1..Len(toAgent), toAgent[i] = Token(registryToken)
          PROVE  TokenOnItsWay'
      <4>1. CASE i = 1
        BY <1>3, <2>0, <3>3, <4>1 DEF TokenOnItsWay, Token
      <4>2. CASE i # 1
        <5>1. i - 1 \in 1..Len(toAgent') /\ toAgent'[i - 1] = toAgent[i]
          BY <2>0, <3>3, <4>2
        <5> QED BY <1>3, <3>3, <5>1 DEF TokenOnItsWay, Token
      <4> QED BY <4>1, <4>2
    <3> QED BY <1>0, <1>3, <3>1, <3>2, <3>3 DEF TokenOnItsWay
  <2> QED BY <2>1, <2>2, <2>3, <2>4, <2>5, <2>6 DEF TokenInv
\* Messages of the agent leave or arrive.
<1>4. ASSUME toServer' \in Seq(FromAgent), \A i \in 1..Len(toServer') : toServer'[i].kind = "log",
             link \/ toServer' = <<>>,
             UNCHANGED <<link, attached, toAgent, memoryToken, diskToken, registryToken, serverStep,
                         tokenLost, agent>>
      PROVE  TokenInv'
  <2>1. SessionTypes'
    BY <1>0, <1>4 DEF SessionTypes
  <2>2. CutIsEmpty' /\ HelloComesFirst'
    BY <1>0, <1>4 DEF CutIsEmpty, HelloComesFirst
  <2>3. NoticesMatch' /\ TokensRise' /\ RotatedIsAhead'
    BY <1>0, <1>4 DEF NoticesMatch, TokensRise, RotatedIsAhead
  <2>4. TokenOnItsWay'
    BY <1>0, <1>4 DEF TokenOnItsWay, Token
  <2> QED BY <2>1, <2>2, <2>3, <2>4 DEF TokenInv
<1>5. CASE BackoffEnds
  BY <1>0, <1>1, <1>5, BackoffEndsIs DEF BackoffEnds, tokens, CutIsEmpty
<1>6. CASE ConnectFails
  <2>1. agent.step = "idle" /\ UNCHANGED <<wires, tokens, serverStep>> /\ SessionEnds(FALSE, FALSE)
    BY <1>6 DEF ConnectFails, AgentAt
  <2> QED BY <1>0, <1>1, <2>1, SessionEndsIs DEF tokens, CutIsEmpty
<1>7. CASE LinkErrorSeen
  <2>1. /\ ~link /\ agent.step # "down" /\ UNCHANGED <<wires, tokens, serverStep>>
        /\ SessionEnds(agent.authed, FALSE)
    BY <1>7 DEF LinkErrorSeen
  <2>2. agent.authed \in BOOLEAN
    BY <1>0 DEF SessionTypes, AgentRecords
  <2> QED BY <1>0, <1>1, <2>1, <2>2, SessionEndsIs DEF tokens
<1>8. CASE FlushEnds
  <2>1. agent.step = "flush" /\ agent' = [agent EXCEPT !.step = "session"]
        /\ UNCHANGED <<wires, tokens, serverStep>>
    BY <1>8 DEF FlushEnds, AgentAt
  <2> QED BY <1>0, <1>1, <2>1, StepIs DEF tokens, AgentSteps
<1>9. CASE PersistToken
  <2>1. /\ agent.step = "persist" /\ agent' = [agent EXCEPT !.step = "flush"]
        /\ diskToken' \in {diskToken, memoryToken}
        /\ UNCHANGED <<wires, memoryToken, registryToken, tokenLost, serverStep>>
    BY <1>9 DEF PersistToken, AgentAt
  <2> QED BY <1>0, <1>1, <2>1, StepIs DEF AgentSteps
<1>10. CASE ConnectAndHello
  <2>1. /\ agent.step = "idle" /\ agent' = [agent EXCEPT !.step = "session"]
        /\ link' = TRUE /\ attached' = FALSE /\ toAgent' = <<>>
        /\ toServer' = <<[kind |-> "hello", value |-> memoryToken]>>
        /\ UNCHANGED <<memoryToken, diskToken, registryToken, tokenLost, serverStep>>
    BY <1>10 DEF ConnectAndHello, AgentAt, tokens
  <2>2. ~link /\ toAgent = <<>>
    BY <1>0, <2>1 DEF CutIsEmpty
  <2>3. agent' \in AgentRecords /\ agent'.step = "session"
    BY <1>0, <2>1, StepIs DEF AgentSteps
  <2>4. SessionTypes'
    <3>1. [kind |-> "hello", value |-> memoryToken] \in FromAgent
      BY <1>0 DEF SessionTypes, FromAgent
    <3>2. link' \in BOOLEAN /\ attached' \in BOOLEAN
      BY <2>1
    <3>3. toAgent' \in Seq(FromServer) /\ toServer' \in Seq(FromAgent)
      BY <2>1, <3>1
    <3> QED BY <1>0, <2>1, <2>3, <3>2, <3>3 DEF SessionTypes
  <2>5. CutIsEmpty' /\ HelloComesFirst' /\ NoticesMatch'
    BY <2>1, <2>3 DEF CutIsEmpty, HelloComesFirst, NoticesMatch
  <2>6. TokensRise' /\ RotatedIsAhead'
    BY <1>0, <2>1 DEF TokensRise, RotatedIsAhead
  <2>7. TokenOnItsWay'
    BY <1>0, <2>1, <2>2, <2>3 DEF TokenOnItsWay
  <2> QED BY <2>4, <2>5, <2>6, <2>7 DEF TokenInv
<1>11. CASE Authenticated
  <2>1. /\ toAgent # <<>> /\ Head(toAgent).kind = "authenticated" /\ agent.step = "session"
        /\ agent' = [agent EXCEPT !.step = "flush", !.authed = TRUE]
        /\ toAgent' = Tail(toAgent) /\ UNCHANGED <<link, attached, toServer, tokens, serverStep>>
    BY <1>11 DEF Authenticated, Incoming, TakeIncoming, AgentAt
  <2>2. agent' \in AgentRecords /\ agent'.step = "flush"
    BY <1>0, <2>1 DEF SessionTypes, AgentRecords, AgentSteps
  <2> QED BY <1>3, <2>1, <2>2 DEF tokens
<1>12. CASE TokenArrives
  <2>1. /\ toAgent # <<>> /\ Head(toAgent).kind = "token" /\ agent.step = "session"
        /\ agent' = [agent EXCEPT !.step = "persist"] /\ memoryToken' = Head(toAgent).value
        /\ toAgent' = Tail(toAgent)
        /\ UNCHANGED <<link, attached, toServer, diskToken, registryToken, tokenLost, serverStep>>
    BY <1>12 DEF TokenArrives, Incoming, TakeIncoming, AgentAt
  <2>2. agent' \in AgentRecords /\ agent'.step = "persist"
    BY <1>0, <2>1, StepIs DEF AgentSteps
  <2> QED BY <1>3, <2>1, <2>2
<1>13. CASE Refused
  <2>1. /\ toAgent # <<>> /\ Head(toAgent).kind \in {"expired", "unauthorized"}
        /\ agent.step = "session" /\ CutLink
        /\ SessionEnds(FALSE, Head(toAgent).kind = "expired")
        /\ UNCHANGED <<tokens, serverStep>>
    BY <1>13 DEF Refused, Incoming, AgentAt
  <2>2. agent' \in AgentRecords /\ agent'.step = "backoff"
    BY <1>0, <2>1, SessionEndsIs
  <2>3. ~attached
    BY <1>0, <2>1 DEF NoticesMatch, SessionTypes
  <2>4. \A i \in 1..Len(toAgent) : toAgent[i] # Token(registryToken)
    BY <1>0, <2>3 DEF NoticesMatch, Token
  <2>5. TokenOnItsWay'
    BY <1>0, <2>1, <2>2, <2>4 DEF TokenOnItsWay, tokens
  <2> QED BY <1>2, <2>1, <2>2, <2>5 DEF tokens
<1>14. CASE LinkBreaks
  <2>1. /\ link /\ CutLink /\ tokenLost' = (tokenLost \/ TokenInFlight)
        /\ UNCHANGED <<agent, memoryToken, diskToken, registryToken, serverStep>>
    BY <1>14 DEF LinkBreaks
  <2>2. TokenOnItsWay'
    <3>1. ~TokenInFlight => \A i \in 1..Len(toAgent) : toAgent[i] # Token(registryToken)
      BY <1>0 DEF TokenInFlight, Token, SessionTypes
    <3> QED BY <1>0, <2>1, <3>1 DEF TokenOnItsWay
  <2> QED BY <1>0, <1>2, <2>1, <2>2 DEF SessionTypes
<1>15. CASE AgentStops
  <2>1. /\ agent.step # "down" /\ CutLink /\ agent' = [Fresh EXCEPT !.step = "down"]
        /\ tokenLost' = (tokenLost \/ memoryToken # diskToken \/ TokenInFlight)
        /\ UNCHANGED <<memoryToken, diskToken, registryToken, serverStep>>
    BY <1>15 DEF AgentStops, AgentAt
  <2>2. TokenOnItsWay'
    <3>1. ~TokenInFlight => \A i \in 1..Len(toAgent) : toAgent[i] # Token(registryToken)
      BY <1>0 DEF TokenInFlight, Token, SessionTypes
    <3> QED BY <1>0, <2>1, <3>1, FreshIs DEF TokenOnItsWay
  <2> QED BY <1>0, <1>2, <2>1, <2>2, FreshIs
<1>16. CASE AgentStarts
  <2>1. /\ agent.step = "down" /\ agent' = Fresh /\ memoryToken' = diskToken
        /\ UNCHANGED <<wires, diskToken, registryToken, tokenLost, serverStep>>
    BY <1>16 DEF AgentStarts, AgentAt
  <2>2. /\ ~link /\ toAgent = <<>> /\ toServer = <<>> /\ ~attached
        /\ UNCHANGED <<link, toAgent, toServer, attached>>
    BY <1>0, <2>1 DEF CutIsEmpty, wires
  <2>3. SessionTypes'
    BY <1>0, <2>1, <2>2, FreshIs DEF SessionTypes
  <2>4. CutIsEmpty' /\ HelloComesFirst' /\ NoticesMatch'
    BY <2>2 DEF CutIsEmpty, HelloComesFirst, NoticesMatch
  <2>5. TokensRise' /\ RotatedIsAhead' /\ TokenOnItsWay'
    BY <1>0, <2>1, <2>2, FreshIs DEF TokensRise, RotatedIsAhead, TokenOnItsWay
  <2> QED BY <2>3, <2>4, <2>5 DEF TokenInv
<1>17. CASE FlushBatch
  <2> DEFINE n == IF Len(buffer) < BatchSize THEN Len(buffer) ELSE BatchSize
             batch == [i \in 1..n |-> [kind |-> "log", value |-> buffer[i]]]
  <2>1. /\ agent.step = "flush" /\ link /\ toServer' = toServer \o batch
        /\ UNCHANGED <<link, attached, toAgent, tokens, serverStep, agent>>
    BY <1>17 DEF FlushBatch, AgentAt
  <2>2. batch \in Seq(FromAgent) /\ \A i \in 1..Len(batch) : batch[i].kind = "log"
    BY AgentBounds DEF LineTypes, FromAgent
  <2>3. \A i \in 1..Len(toServer) : toServer[i].kind = "log"
    BY <1>0, <2>1, MessagesAre DEF HelloComesFirst
  <2> HIDE DEF batch
  <2>4. /\ toServer' \in Seq(FromAgent)
        /\ \A i \in 1..Len(toServer') : toServer'[i].kind = "log"
    BY <1>0, <2>1, <2>2, <2>3 DEF SessionTypes
  <2> QED BY <1>4, <2>1, <2>4 DEF tokens
<1>18. CASE ServerTakesLog
  <2>1. /\ toServer # <<>> /\ Head(toServer).kind = "log" /\ toServer' = Tail(toServer) /\ attached
        /\ UNCHANGED <<link, attached, toAgent, tokens, serverStep, agent>>
    BY <1>18 DEF ServerTakesLog
  <2>2. link /\ \A i \in 1..Len(toServer) : toServer[i].kind = "log"
    BY <1>0, <2>1, MessagesAre DEF CutIsEmpty, HelloComesFirst, SessionTypes
  <2>3. /\ toServer' \in Seq(FromAgent)
        /\ \A i \in 1..Len(toServer') : toServer'[i].kind = "log"
    BY <1>0, <2>1, <2>2 DEF SessionTypes
  <2> QED BY <1>4, <2>1, <2>2, <2>3 DEF tokens
<1>19. CASE ServerTakesHello
  <2> DEFINE current == Head(toServer).value = registryToken
             notice == Notice(IF ~current THEN "unauthorized"
                              ELSE IF tokenExpired THEN "expired" ELSE "authenticated")
  <2>1. /\ toServer # <<>> /\ Head(toServer).kind = "hello" /\ toServer' = Tail(toServer)
        /\ toAgent' = Append(toAgent, notice)
        /\ serverStep' = IF current /\ ~tokenExpired THEN "open" ELSE serverStep
        /\ attached' = (current /\ ~tokenExpired)
        /\ UNCHANGED <<agent, link, tokens>>
    BY <1>19 DEF ServerTakesHello
  <2>2. /\ Len(toServer) = 1 /\ toAgent = <<>> /\ ~attached /\ agent.step = "session"
        /\ Head(toServer).value = memoryToken /\ link
    BY <1>0, <2>1 DEF HelloComesFirst, SessionTypes, CutIsEmpty
  <2>3. toServer' = <<>>
    BY <1>0, <2>1, <2>2 DEF SessionTypes
  <2>4. /\ notice \in FromServer /\ notice.kind # "token"
        /\ notice.kind \in {"expired", "unauthorized"} => ~(current /\ ~tokenExpired)
    BY DEF Notice, FromServer
  <2> HIDE DEF notice
  <2>5. toAgent' = <<notice>>
    BY <1>0, <2>1, <2>2
  <2>6. SessionTypes'
    <3>1. attached' \in BOOLEAN
      BY <2>1
    <3>2. toAgent' \in Seq(FromServer) /\ toServer' \in Seq(FromAgent)
      BY <2>3, <2>4, <2>5
    <3> QED BY <1>0, <2>1, <3>1, <3>2 DEF SessionTypes, tokens
  <2>7. CutIsEmpty' /\ HelloComesFirst'
    <3>1. link' /\ agent'.step = "session"
      BY <2>1, <2>2
    <3> QED BY <2>3, <3>1 DEF CutIsEmpty, HelloComesFirst
  <2>8. NoticesMatch'
    <3>1. /\ notice.kind # "token"
          /\ notice.kind \in {"expired", "unauthorized"} => ~attached'
      BY <2>1, <2>4
    <3> HIDE DEF current
    <3> QED BY <2>5, <3>1 DEF NoticesMatch
  <2>9. TokensRise'
    BY <1>0, <2>1, <2>4, <2>5 DEF TokensRise, tokens
  <2>10. serverStep = "rotated" => ~current
    BY <1>0, <2>2 DEF RotatedIsAhead, SessionTypes
  <2>11. RotatedIsAhead'
    BY <1>0, <2>1, <2>4, <2>5 DEF RotatedIsAhead, tokens
  <2>12. TokenOnItsWay'
    BY <1>0, <2>1, <2>2, <2>10 DEF TokenOnItsWay, tokens
  <2> QED BY <2>6, <2>7, <2>8, <2>9, <2>11, <2>12 DEF TokenInv
<1>20. CASE ServerRotates
  <2>1. /\ registryToken' = registryToken + 1 /\ serverStep' = "rotated"
        /\ UNCHANGED <<agent, link, attached, toAgent, toServer, memoryToken, diskToken, tokenLost>>
    BY <1>20 DEF ServerRotates, wires
  <2>2. SessionTypes' /\ CutIsEmpty' /\ HelloComesFirst' /\ NoticesMatch'
    BY <1>0, <2>1 DEF SessionTypes, CutIsEmpty, HelloComesFirst, NoticesMatch
  <2>3. \A i \in 1..Len(toAgent) : toAgent[i].value \in Nat
    BY <1>0, MessagesAre
  <2>4. TokensRise' /\ RotatedIsAhead' /\ TokenOnItsWay'
    BY <1>0, <2>1, <2>3 DEF SessionTypes, TokensRise, RotatedIsAhead, TokenOnItsWay
  <2> QED BY <2>2, <2>4 DEF TokenInv
<1>21. CASE ServerSendsToken
  <2>1. /\ serverStep = "rotated" /\ serverStep' = "open"
        /\ toAgent' = IF attached THEN Append(toAgent, Token(registryToken)) ELSE toAgent
        /\ tokenLost' = (tokenLost \/ ~attached)
        /\ UNCHANGED <<agent, link, attached, toServer, memoryToken, diskToken, registryToken>>
    BY <1>21 DEF ServerSendsToken
  <2>2. CASE ~attached
    <3>1. SessionTypes' /\ CutIsEmpty' /\ HelloComesFirst' /\ NoticesMatch'
      BY <1>0, <2>1, <2>2 DEF SessionTypes, CutIsEmpty, HelloComesFirst, NoticesMatch
    <3>2. TokensRise' /\ RotatedIsAhead' /\ TokenOnItsWay'
      BY <1>0, <2>1, <2>2 DEF TokensRise, RotatedIsAhead, TokenOnItsWay
    <3> QED BY <3>1, <3>2 DEF TokenInv
  <2>3. CASE attached
    <3>1. /\ toAgent' = Append(toAgent, Token(registryToken)) /\ Token(registryToken) \in FromServer
          /\ Token(registryToken).kind = "token" /\ Token(registryToken).value = registryToken
      BY <1>0, <2>1, <2>3 DEF Token, FromServer, SessionTypes
    <3>2. /\ toAgent' \in Seq(FromServer) /\ Len(toAgent') = Len(toAgent) + 1
          /\ toAgent'[Len(toAgent')] = Token(registryToken)
          /\ \A i \in 1..Len(toAgent) : toAgent'[i] = toAgent[i]
          /\ Len(toAgent) \in Nat /\ \A i \in 1..Len(toAgent) : toAgent[i] \in FromServer
      BY <1>0, <3>1 DEF SessionTypes
    <3>3. SessionTypes' /\ CutIsEmpty'
      BY <1>0, <2>1, <2>3, <3>2 DEF SessionTypes, CutIsEmpty
    <3>4. HelloComesFirst'
      BY <1>0, <2>1, <2>3 DEF HelloComesFirst
    <3>5. NoticesMatch'
      BY <1>0, <2>1, <2>3, <3>1, <3>2 DEF NoticesMatch
    <3>6. TokensRise'
      <4> SUFFICES ASSUME NEW i \in 1..Len(toAgent'), toAgent'[i].kind = "token"
                   PROVE  /\ memoryToken < toAgent'[i].value /\ toAgent'[i].value <= registryToken
                          /\ \A j \in 1..Len(toAgent') : i < j /\ toAgent'[j].kind = "token" =>
                               toAgent'[i].value < toAgent'[j].value
        BY <1>0, <2>1 DEF TokensRise
      <4>1. CASE i = Len(toAgent')
        BY <1>0, <2>1, <3>1, <3>2, <4>1 DEF RotatedIsAhead, SessionTypes
      <4>2. CASE i # Len(toAgent')
        <5>1. i \in 1..Len(toAgent) /\ toAgent'[i] = toAgent[i] /\ toAgent[i].kind = "token"
          BY <3>2, <4>2
        <5>2. toAgent[i].value < registryToken
          BY <1>0, <2>1, <5>1 DEF RotatedIsAhead
        <5> QED BY <1>0, <3>1, <3>2, <5>1, <5>2 DEF TokensRise
      <4> QED BY <4>1, <4>2
    <3>7. RotatedIsAhead' /\ TokenOnItsWay'
      <4>1. Len(toAgent') \in 1..Len(toAgent') /\ Token(registryToken)' = Token(registryToken)
        BY <2>1, <3>2 DEF Token
      <4> QED BY <2>1, <3>2, <4>1 DEF RotatedIsAhead, TokenOnItsWay
    <3> QED BY <3>3, <3>4, <3>5, <3>6, <3>7 DEF TokenInv
  <2> QED BY <2>2, <2>3
<1>22. CASE ServerEnds
  <2>1. /\ serverStep' = "none" /\ UNCHANGED <<agent, memoryToken, diskToken, registryToken>>
        /\ tokenLost' = (tokenLost \/ serverStep = "rotated" \/ (attached /\ TokenInFlight))
        /\ IF attached THEN CutLink ELSE UNCHANGED wires
    BY <1>22 DEF ServerEnds
  <2>2. CASE attached
    <3>1. ~TokenInFlight => \A i \in 1..Len(toAgent) : toAgent[i] # Token(registryToken)
      BY <1>0 DEF TokenInFlight, Token, SessionTypes
    <3>2. TokenOnItsWay'
      BY <1>0, <2>1, <2>2, <3>1 DEF TokenOnItsWay
    <3> QED BY <1>0, <1>2, <2>1, <2>2, <3>2 DEF SessionTypes
  <2>3. CASE ~attached
    <3>1. UNCHANGED <<link, attached, toAgent, toServer>>
      BY <2>1, <2>3 DEF wires
    <3>2. SessionTypes' /\ CutIsEmpty' /\ HelloComesFirst' /\ NoticesMatch'
      BY <1>0, <2>1, <3>1 DEF SessionTypes, CutIsEmpty, HelloComesFirst, NoticesMatch
    <3>3. TokensRise' /\ RotatedIsAhead' /\ TokenOnItsWay'
      BY <1>0, <2>1, <3>1 DEF TokensRise, RotatedIsAhead, TokenOnItsWay, Token
    <3> QED BY <3>2, <3>3 DEF TokenInv
  <2> QED BY <2>2, <2>3
<1>23. CASE TokenExpires
  <2>1. UNCHANGED <<agent, link, attached, toAgent, toServer, memoryToken, diskToken, registryToken,
                    tokenLost, serverStep>>
    BY <1>23 DEF TokenExpires, wires
  <2>2. SessionTypes' /\ CutIsEmpty' /\ HelloComesFirst' /\ NoticesMatch'
    BY <1>0, <2>1 DEF SessionTypes, CutIsEmpty, HelloComesFirst, NoticesMatch
  <2>3. TokensRise' /\ RotatedIsAhead' /\ TokenOnItsWay'
    BY <1>0, <2>1 DEF TokensRise, RotatedIsAhead, TokenOnItsWay, Token
  <2> QED BY <2>2, <2>3 DEF TokenInv
<1>24. CASE Reinstall
  <2>1. /\ agent.step = "down" /\ registryToken' = registryToken + 1 /\ serverStep # "rotated"
        /\ diskToken' = registryToken'
        /\ UNCHANGED <<agent, link, attached, toAgent, toServer, memoryToken, serverStep>>
    BY <1>24 DEF Reinstall, AgentAt, wires
  <2>2. toAgent = <<>>
    BY <1>0, <2>1 DEF CutIsEmpty
  <2>3. SessionTypes' /\ CutIsEmpty' /\ HelloComesFirst' /\ NoticesMatch'
    BY <1>0, <2>1 DEF SessionTypes, CutIsEmpty, HelloComesFirst, NoticesMatch
  <2>4. TokensRise' /\ RotatedIsAhead' /\ TokenOnItsWay'
    BY <1>0, <2>1, <2>2 DEF SessionTypes, TokensRise, RotatedIsAhead, TokenOnItsWay
  <2> QED BY <2>3, <2>4 DEF TokenInv
<1> QED BY <1>5, <1>6, <1>7, <1>8, <1>9, <1>10, <1>11, <1>12, <1>13, <1>14, <1>15, <1>16, <1>17,
           <1>18, <1>19, <1>20, <1>21, <1>22, <1>23, <1>24 DEF AgentNext

\* While a refusal is on its way, nothing else is.
RefusalsComeAlone ==
  \A i \in 1..Len(toAgent) : toAgent[i].kind \in {"expired", "unauthorized"} =>
    Len(toAgent) = 1 /\ toServer = <<>> /\ agent.step = "session"

\* Lines are delivered, in flight, in the buffer or to come, in this order.
LinesRise ==
  /\ delivered.last < nextLine
  /\ \A i \in 1..Len(InFlight) :
       /\ delivered.last < InFlight[i].value /\ InFlight[i].value < nextLine
       /\ \A j \in 1..Len(InFlight) : i < j => InFlight[i].value < InFlight[j].value
       /\ \A k \in 1..Len(buffer) : InFlight[i].value < buffer[k]
  /\ \A k \in 1..Len(buffer) :
       /\ delivered.last < buffer[k] /\ buffer[k] < nextLine
       /\ \A l \in 1..Len(buffer) : k < l => buffer[k] < buffer[l]

LinesCounted == nextLine = delivered.count + Len(InFlight) + Len(buffer) + gone

\* The inductive invariant of the log lines, beside TokenInv.
LinesInv == LineTypes /\ RefusalsComeAlone /\ LinesRise /\ LinesCounted

LEMMA ConcatIs ==
  ASSUME NEW S, NEW s \in Seq(S), NEW t \in Seq(S)
  PROVE  /\ s \o t \in Seq(S) /\ Len(s \o t) = Len(s) + Len(t)
         /\ \A i \in 1..Len(s \o t) :
              \/ i \in 1..Len(s) /\ (s \o t)[i] = s[i]
              \/ i - Len(s) \in 1..Len(t) /\ i > Len(s) /\ (s \o t)[i] = t[i - Len(s)]
<1>1. Len(s) \in Nat /\ Len(t) \in Nat
  OBVIOUS
<1>2. s \o t \in Seq(S) /\ Len(s \o t) = Len(s) + Len(t)
  BY ConcatProperties
<1>3. \A i \in 1..Len(s) + Len(t) : (s \o t)[i] = IF i <= Len(s) THEN s[i] ELSE t[i - Len(s)]
  BY ConcatProperties
<1> QED BY <1>1, <1>2, <1>3

LEMMA InitLines == Init => LinesInv
<1> SUFFICES ASSUME Init PROVE LinesInv
  OBVIOUS
<1>1. /\ toAgent = <<>> /\ toServer = <<>> /\ buffer = <<0>> /\ nextLine = 1 /\ gone = 0
      /\ delivered = [last |-> -1, count |-> 0]
  BY DEF Init, AgentInit
<1>2. InFlight = <<>>
  BY <1>1 DEF InFlight
<1>3. LineTypes
  BY <1>1, AgentBounds DEF LineTypes
<1> QED BY <1>1, <1>2, <1>3 DEF LinesInv, RefusalsComeAlone, LinesRise, LinesCounted

\* Either a hello is on its way to the server, and nothing else, or log lines are.
LEMMA InFlightIs ==
  ASSUME SessionTypes, HelloComesFirst
  PROVE  /\ InFlight \in Seq(FromAgent) /\ Len(InFlight) \in Nat
         /\ \A i \in 1..Len(InFlight) : InFlight[i].kind = "log" /\ InFlight[i].value \in Nat
         /\ toServer # <<>> /\ Head(toServer).kind = "hello" => InFlight = <<>> /\ Tail(toServer) = <<>>
         /\ toServer = <<>> \/ Head(toServer).kind # "hello" => InFlight = toServer
<1>1. CASE toServer # <<>> /\ Head(toServer).kind = "hello"
  <2>1. Len(toServer) = 1
    BY <1>1, MessagesAre DEF HelloComesFirst
  <2>2. Tail(toServer) = <<>>
    <3>1. Tail(toServer) \in Seq(FromAgent) /\ Len(Tail(toServer)) = 0
      BY <1>1, <2>1 DEF SessionTypes
    <3> QED BY <3>1, EmptySeq
  <2>3. InFlight = <<>>
    BY <1>1, <2>2 DEF InFlight
  <2> QED BY <1>1, <2>2, <2>3
<1>2. CASE toServer = <<>> \/ Head(toServer).kind # "hello"
  <2>1. InFlight = toServer
    BY <1>2 DEF InFlight
  <2>2. \A i \in 1..Len(toServer) : toServer[i].kind = "log" /\ toServer[i].value \in Nat
    BY <1>2, MessagesAre DEF HelloComesFirst
  <2> QED BY <1>2, <2>1, <2>2 DEF SessionTypes
<1> QED BY <1>1, <1>2

LEMMA LineTypesStep == TokenInv /\ LineTypes /\ AgentNext => LineTypes'
<1> SUFFICES ASSUME TokenInv, LineTypes, AgentNext PROVE LineTypes'
  OBVIOUS
<1>0. Len(InFlight) \in Nat /\ Len(buffer) \in Nat /\ gone \in Nat /\ nextLine \in Nat
  BY InFlightIs DEF TokenInv, LineTypes
<1>1. ASSUME Pushes(1) \/ Pushes(2) PROVE LineTypes'
  BY <1>1, PushesIs
<1>2. ASSUME UNCHANGED logLines PROVE LineTypes'
  BY <1>2 DEF LineTypes, logLines
<1>3. ASSUME UNCHANGED <<buffer, nextLine, delivered>>, gone' \in Nat PROVE LineTypes'
  BY <1>3 DEF LineTypes
<1>4. CASE \/ ConnectFails \/ ConnectAndHello \/ Authenticated \/ Refused \/ TokenArrives
           \/ PersistToken \/ LinkErrorSeen \/ AgentStarts
  BY <1>1, <1>4 DEF ConnectFails, ConnectAndHello, Authenticated, Refused, TokenArrives,
                    PersistToken, LinkErrorSeen, AgentStarts
<1>5. CASE \/ BackoffEnds \/ FlushEnds \/ ServerTakesHello \/ ServerRotates \/ ServerSendsToken
           \/ TokenExpires \/ Reinstall
  BY <1>2, <1>5 DEF BackoffEnds, FlushEnds, ServerTakesHello, ServerRotates, ServerSendsToken,
                    TokenExpires, Reinstall
<1>6. CASE LinkBreaks \/ ServerEnds
  <2>1. UNCHANGED <<buffer, nextLine, delivered>> /\ gone' \in {gone, gone + Len(InFlight)}
    BY <1>6 DEF LinkBreaks, ServerEnds
  <2> QED BY <1>0, <1>3, <2>1
<1>7. CASE AgentStops
  <2>1. /\ buffer' = <<>> /\ gone' = gone + Len(buffer) + Len(InFlight)
        /\ UNCHANGED <<nextLine, delivered>>
    BY <1>7 DEF AgentStops
  <2>2. gone' \in Nat
    BY <1>0, <2>1
  <2> QED BY <2>1, <2>2, AgentBounds DEF LineTypes
<1>8. CASE FlushBatch
  <2> DEFINE n == IF Len(buffer) < BatchSize THEN Len(buffer) ELSE BatchSize
  <2>1. /\ buffer' = SubSeq(buffer, n + 1, Len(buffer)) /\ UNCHANGED <<nextLine, delivered, gone>>
        /\ n \in 0..Len(buffer)
    BY <1>0, <1>8, AgentBounds DEF FlushBatch
  <2> HIDE DEF n
  <2>2. buffer' \in Seq(Nat) /\ Len(buffer') = Len(buffer) - n
    BY <1>0, <2>1 DEF LineTypes
  <2> QED BY <1>0, <2>1, <2>2, AgentBounds DEF LineTypes
<1>9. CASE ServerTakesLog
  <2>1. /\ delivered' = [last |-> Head(toServer).value, count |-> delivered.count + 1]
        /\ UNCHANGED <<buffer, nextLine, gone>> /\ toServer # <<>>
    BY <1>9 DEF ServerTakesLog
  <2>2. Head(toServer).value \in Nat
    BY <2>1, MessagesAre DEF TokenInv
  <2>3. delivered' \in [last : Int, count : Nat]
    BY <2>1, <2>2 DEF LineTypes
  <2> QED BY <2>1, <2>3 DEF LineTypes
<1> QED BY <1>4, <1>5, <1>6, <1>7, <1>8, <1>9 DEF AgentNext

LEMMA RefusalStep == TokenInv /\ RefusalsComeAlone /\ AgentNext => RefusalsComeAlone'
<1> SUFFICES ASSUME TokenInv, RefusalsComeAlone, AgentNext PROVE RefusalsComeAlone'
  OBVIOUS
<1>0. SessionTypes /\ CutIsEmpty /\ HelloComesFirst /\ NoticesMatch
  BY DEF TokenInv
<1>1. ASSUME toAgent' = <<>> PROVE RefusalsComeAlone'
  BY <1>1 DEF RefusalsComeAlone
<1>2. ASSUME toAgent' = toAgent, toServer' = toServer, agent.step = "session" => agent' = agent
      PROVE  RefusalsComeAlone'
  BY <1>2 DEF RefusalsComeAlone
<1>3. CASE \/ ConnectAndHello \/ Refused \/ LinkBreaks \/ AgentStops
  BY <1>1, <1>3 DEF ConnectAndHello, Refused, LinkBreaks, AgentStops, CutLink
<1>4. CASE \/ BackoffEnds \/ ConnectFails \/ FlushEnds \/ PersistToken \/ ServerRotates
           \/ TokenExpires \/ Reinstall
  BY <1>2, <1>4 DEF BackoffEnds, ConnectFails, FlushEnds, PersistToken, ServerRotates, TokenExpires,
                    Reinstall, AgentAt, wires
<1>5. CASE LinkErrorSeen \/ AgentStarts
  <2>1. toAgent = <<>> /\ toAgent' = toAgent
    BY <1>0, <1>5 DEF LinkErrorSeen, AgentStarts, CutIsEmpty, AgentAt, wires
  <2> QED BY <1>1, <2>1
<1>6. CASE Authenticated \/ TokenArrives
  <2>1. /\ toAgent # <<>> /\ toAgent' = Tail(toAgent)
        /\ Head(toAgent).kind \in {"authenticated", "token"}
    BY <1>6 DEF Authenticated, TokenArrives, Incoming, TakeIncoming
  <2>2. \A i \in 1..Len(toAgent) : toAgent[i].kind \notin {"expired", "unauthorized"}
    <3> SUFFICES ASSUME NEW i \in 1..Len(toAgent), toAgent[i].kind \in {"expired", "unauthorized"}
                 PROVE  FALSE
      OBVIOUS
    <3>1. Len(toAgent) = 1
      BY DEF RefusalsComeAlone
    <3>2. i = 1 /\ Head(toAgent) = toAgent[1]
      BY <1>0, <2>1, <3>1, MessagesAre
    <3> QED BY <2>1, <3>2
  <2>3. \A i \in 1..Len(toAgent') : i + 1 \in 1..Len(toAgent) /\ toAgent'[i] = toAgent[i + 1]
    BY <1>0, <2>1 DEF SessionTypes
  <2> QED BY <2>2, <2>3 DEF RefusalsComeAlone
<1>7. CASE FlushBatch
  BY <1>7 DEF FlushBatch, RefusalsComeAlone, AgentAt
<1>8. CASE ServerTakesLog
  BY <1>8 DEF ServerTakesLog, RefusalsComeAlone
<1>9. CASE ServerTakesHello
  <2>1. /\ toServer # <<>> /\ Head(toServer).kind = "hello" /\ toServer' = Tail(toServer)
        /\ \E notice : toAgent' = Append(toAgent, notice)
        /\ UNCHANGED agent
    BY <1>9 DEF ServerTakesHello
  <2>2. toAgent = <<>> /\ agent.step = "session" /\ toServer' = <<>>
    BY <1>0, <2>1, MessagesAre, InFlightIs DEF HelloComesFirst
  <2>3. Len(toAgent') = 1
    BY <2>1, <2>2
  <2> QED BY <2>1, <2>2, <2>3 DEF RefusalsComeAlone
<1>10. CASE ServerSendsToken
  <2>1. /\ toAgent' = IF attached THEN Append(toAgent, Token(registryToken)) ELSE toAgent
        /\ UNCHANGED <<agent, toServer>>
    BY <1>10 DEF ServerSendsToken
  <2>2. CASE ~attached
    BY <1>2, <2>1, <2>2
  <2>3. CASE attached
    <3>1. \A i \in 1..Len(toAgent) : toAgent[i].kind \notin {"expired", "unauthorized"}
      BY <1>0, <2>3 DEF NoticesMatch
    <3>2. Token(registryToken).kind = "token" /\ Token(registryToken) \in FromServer
      BY <1>0 DEF Token, FromServer, SessionTypes
    <3>3. /\ \A i \in 1..Len(toAgent') : i \in 1..Len(toAgent) \/ i = Len(toAgent) + 1
          /\ toAgent'[Len(toAgent) + 1] = Token(registryToken)
          /\ \A i \in 1..Len(toAgent) : toAgent'[i] = toAgent[i]
      BY <1>0, <2>1, <2>3, <3>2 DEF SessionTypes
    <3>4. \A i \in 1..Len(toAgent') : toAgent'[i].kind \notin {"expired", "unauthorized"}
      BY <3>1, <3>2, <3>3
    <3> QED BY <3>4 DEF RefusalsComeAlone
  <2> QED BY <2>2, <2>3
<1>11. CASE ServerEnds
  BY <1>1, <1>2, <1>11 DEF ServerEnds, CutLink, wires
<1> QED BY <1>3, <1>4, <1>5, <1>6, <1>7, <1>8, <1>9, <1>10, <1>11 DEF AgentNext

LEMMA LinesStep == TokenInv /\ LinesInv /\ AgentNext => LinesInv'
<1> SUFFICES ASSUME TokenInv, LinesInv, AgentNext PROVE LinesInv'
  OBVIOUS
<1>0. /\ LineTypes /\ LinesRise /\ LinesCounted /\ LineTypes' /\ RefusalsComeAlone'
      /\ SessionTypes /\ CutIsEmpty /\ HelloComesFirst
  BY LineTypesStep, RefusalStep DEF LinesInv, TokenInv
<1>i. /\ InFlight \in Seq(FromAgent) /\ Len(InFlight) \in Nat
      /\ \A i \in 1..Len(InFlight) : InFlight[i].value \in Nat
  BY <1>0, InFlightIs
<1>b. /\ buffer \in Seq(Nat) /\ Len(buffer) \in Nat /\ nextLine \in Nat /\ gone \in Nat
      /\ delivered.last \in Int /\ delivered.count \in Nat
      /\ \A k \in 1..Len(buffer) : buffer[k] \in Nat
  BY <1>0 DEF LineTypes
<1>w. UNCHANGED toServer => UNCHANGED InFlight
  BY DEF InFlight
<1>1. ASSUME NEW k \in Nat \ {0}, Pushes(k), UNCHANGED InFlight PROVE LinesInv'
  <2>1. /\ nextLine' = nextLine + k /\ delivered' = delivered
        /\ Len(buffer') + gone' = Len(buffer) + gone + k
    BY <1>0, <1>1, PushesIs
  <2>2. PICK drop \in Nat :
          /\ drop + Len(buffer') = Len(buffer) + k
          /\ \A i \in 1..Len(buffer') :
               buffer'[i] = IF drop + i <= Len(buffer) THEN buffer[drop + i]
                            ELSE nextLine + (drop + i - Len(buffer)) - 1
    BY <1>0, <1>1, PushesIs
  <2>3. gone' \in Nat /\ Len(buffer') \in Nat
    BY <1>0 DEF LineTypes
  <2>4. LinesCounted'
    <3>1. Len(InFlight') = Len(InFlight) /\ delivered'.count = delivered.count
      BY <1>1, <2>1
    <3>2. nextLine = delivered.count + Len(InFlight) + Len(buffer) + gone
      BY <1>0 DEF LinesCounted
    <3>3. nextLine' = delivered'.count + Len(InFlight') + Len(buffer') + gone'
      <4>1. Len(InFlight) \in Nat /\ Len(buffer) \in Nat /\ nextLine \in Nat /\ gone \in Nat
            /\ delivered.count \in Nat
        BY <1>i, <1>b
      <4>2. nextLine' = delivered.count + Len(InFlight) + (Len(buffer') + gone')
        BY <2>1, <3>2, <4>1
      <4> QED BY <2>3, <3>1, <4>1, <4>2
    <3> QED BY <3>3 DEF LinesCounted
  <2>5. \A i \in 1..Len(buffer') :
          \/ drop + i \in 1..Len(buffer) /\ buffer'[i] = buffer[drop + i]
          \/ drop + i > Len(buffer) /\ buffer'[i] = nextLine + (drop + i - Len(buffer)) - 1
    BY <1>b, <2>2, <2>3
  <2>6. ASSUME NEW i \in 1..Len(buffer')
        PROVE  /\ delivered.last < buffer'[i]
               /\ \A m \in 1..Len(InFlight) : InFlight[m].value < buffer'[i]
    <3>1. CASE drop + i \in 1..Len(buffer) /\ buffer'[i] = buffer[drop + i]
      BY <1>0, <3>1 DEF LinesRise
    <3>2. CASE drop + i > Len(buffer) /\ buffer'[i] = nextLine + (drop + i - Len(buffer)) - 1
      <4>1. nextLine <= buffer'[i] /\ buffer'[i] \in Int
        BY <1>b, <2>3, <3>2
      <4>2. /\ delivered.last < nextLine
            /\ \A m \in 1..Len(InFlight) : InFlight[m].value < nextLine
        BY <1>0 DEF LinesRise
      <4> QED BY <1>i, <1>b, <4>1, <4>2
    <3> QED BY <2>5, <3>1, <3>2
  <2>7. ASSUME NEW i \in 1..Len(buffer')
        PROVE  buffer'[i] < nextLine'
    <3>1. CASE drop + i \in 1..Len(buffer) /\ buffer'[i] = buffer[drop + i]
      BY <1>0, <1>b, <2>1, <3>1 DEF LinesRise
    <3>2. CASE drop + i > Len(buffer) /\ buffer'[i] = nextLine + (drop + i - Len(buffer)) - 1
      BY <1>b, <2>1, <2>2, <2>3, <3>2
    <3> QED BY <2>5, <3>1, <3>2
  <2>8. ASSUME NEW i \in 1..Len(buffer'), NEW l \in 1..Len(buffer'), i < l
        PROVE  buffer'[i] < buffer'[l]
    <3>1. CASE drop + l \in 1..Len(buffer) /\ buffer'[l] = buffer[drop + l]
      <4>1. drop + i \in 1..Len(buffer) /\ drop + i < drop + l
        BY <1>b, <2>3, <2>8, <3>1
      <4>2. buffer'[i] = buffer[drop + i]
        BY <1>b, <2>5, <4>1
      <4> QED BY <1>0, <3>1, <4>1, <4>2 DEF LinesRise
    <3>2. CASE drop + l > Len(buffer) /\ buffer'[l] = nextLine + (drop + l - Len(buffer)) - 1
      <4>1. nextLine <= buffer'[l] /\ buffer'[l] \in Int
        BY <1>b, <2>3, <3>2
      <4>2. CASE drop + i \in 1..Len(buffer) /\ buffer'[i] = buffer[drop + i]
        <5>1. buffer'[i] < nextLine /\ buffer'[i] \in Nat
          BY <1>0, <1>b, <4>2 DEF LinesRise
        <5> QED BY <1>b, <4>1, <5>1
      <4>3. CASE drop + i > Len(buffer) /\ buffer'[i] = nextLine + (drop + i - Len(buffer)) - 1
        BY <1>b, <2>3, <2>8, <3>2, <4>3
      <4> QED BY <2>5, <4>2, <4>3
    <3> QED BY <2>5, <3>1, <3>2
  <2>9. LinesRise'
    <3>1. /\ delivered.last < nextLine
          /\ \A i \in 1..Len(InFlight) :
               /\ delivered.last < InFlight[i].value /\ InFlight[i].value < nextLine
               /\ \A j \in 1..Len(InFlight) : i < j => InFlight[i].value < InFlight[j].value
      BY <1>0 DEF LinesRise
    <3>2. /\ delivered.last < nextLine'
          /\ \A i \in 1..Len(InFlight) : InFlight[i].value < nextLine'
      BY <1>b, <1>i, <2>1, <3>1
    <3> QED BY <1>1, <2>1, <2>6, <2>7, <2>8, <3>1, <3>2 DEF LinesRise
  <2> QED BY <1>0, <2>4, <2>9 DEF LinesInv
<1>2. ASSUME UNCHANGED <<logLines, InFlight>> PROVE LinesInv'
  BY <1>0, <1>2 DEF logLines, LinesInv, LinesRise, LinesCounted
<1>3. ASSUME InFlight' = <<>>, UNCHANGED <<buffer, nextLine, delivered>>,
             gone' = gone + Len(InFlight)
      PROVE  LinesInv'
  <2>1. LinesRise'
    BY <1>0, <1>3 DEF LinesRise
  <2>2. LinesCounted'
    BY <1>0, <1>3, <1>b, <1>i DEF LinesCounted
  <2> QED BY <1>0, <2>1, <2>2 DEF LinesInv
<1>c. CutLink => InFlight' = <<>>
  BY DEF CutLink, InFlight
<1>4. CASE \/ ConnectFails \/ Authenticated \/ TokenArrives \/ PersistToken \/ LinkErrorSeen
           \/ AgentStarts
  <2>1. UNCHANGED toServer /\ (Pushes(1) \/ Pushes(2))
    BY <1>4 DEF ConnectFails, Authenticated, TokenArrives, PersistToken, LinkErrorSeen, AgentStarts,
                TakeIncoming, wires
  <2> QED BY <1>1, <1>w, <2>1
<1>5. CASE \/ BackoffEnds \/ FlushEnds \/ ServerRotates \/ ServerSendsToken \/ TokenExpires
           \/ Reinstall
  <2>1. UNCHANGED <<toServer, logLines>>
    BY <1>5 DEF BackoffEnds, FlushEnds, ServerRotates, ServerSendsToken, TokenExpires, Reinstall, wires
  <2> QED BY <1>2, <1>w, <2>1
<1>6. CASE ConnectAndHello
  <2>1. /\ agent.step = "idle" /\ Pushes(1)
        /\ toServer' = <<[kind |-> "hello", value |-> memoryToken]>>
    BY <1>6 DEF ConnectAndHello, AgentAt
  <2>2. toServer = <<>>
    BY <1>0, <2>1 DEF CutIsEmpty
  <2>3. InFlight = <<>>
    BY <2>2 DEF InFlight
  <2>4. InFlight' = <<>>
    <3>1. TokenInv'
      BY <1>0, TokenStep
    <3>2. toServer' # <<>> /\ Head(toServer').kind = "hello"
      BY <2>1
    <3>3. SessionTypes' /\ HelloComesFirst'
      BY <3>1 DEF TokenInv
    <3>4. Len(toServer') = 1
      BY <2>1
    <3>5. Tail(toServer') \in Seq(FromAgent) /\ Len(Tail(toServer')) = 0
      BY <3>2, <3>3, <3>4 DEF SessionTypes
    <3>6. Tail(toServer') = <<>>
      BY <3>5, EmptySeq
    <3> QED BY <3>2, <3>6 DEF InFlight
  <2> QED BY <1>1, <2>1, <2>3, <2>4
<1>7. CASE Refused
  <2>1. /\ toAgent # <<>> /\ Head(toAgent).kind \in {"expired", "unauthorized"}
        /\ Pushes(2) /\ CutLink
    BY <1>7 DEF Refused, Incoming
  <2>2. toServer = <<>>
    BY <1>0, <2>1, MessagesAre DEF LinesInv, RefusalsComeAlone
  <2>3. InFlight = <<>>
    BY <2>2 DEF InFlight
  <2> QED BY <1>1, <1>c, <2>1, <2>3
<1>8. CASE LinkBreaks \/ ServerEnds
  <2>1. \/ CutLink /\ UNCHANGED <<buffer, nextLine, delivered>> /\ gone' = gone + Len(InFlight)
        \/ UNCHANGED <<toServer, logLines>>
    BY <1>8 DEF LinkBreaks, ServerEnds, wires, logLines
  <2> QED BY <1>2, <1>3, <1>c, <1>w, <2>1
<1>9. CASE AgentStops
  <2>1. /\ CutLink /\ buffer' = <<>> /\ gone' = gone + Len(buffer) + Len(InFlight)
        /\ UNCHANGED <<nextLine, delivered>>
    BY <1>9 DEF AgentStops
  <2>2. LinesRise'
    BY <1>0, <1>c, <2>1 DEF LinesRise
  <2>3. LinesCounted'
    BY <1>0, <1>b, <1>c, <1>i, <2>1 DEF LinesCounted
  <2> QED BY <1>0, <2>2, <2>3 DEF LinesInv
<1>10. CASE ServerTakesHello
  <2>1. /\ toServer # <<>> /\ Head(toServer).kind = "hello" /\ toServer' = Tail(toServer)
        /\ UNCHANGED logLines
    BY <1>10 DEF ServerTakesHello
  <2>2. InFlight = <<>> /\ toServer' = <<>>
    BY <1>0, <2>1, InFlightIs
  <2>3. InFlight' = <<>>
    BY <2>2 DEF InFlight
  <2> QED BY <1>2, <2>1, <2>2, <2>3
<1>11. CASE ServerTakesLog
  <2>1. /\ toServer # <<>> /\ Head(toServer).kind = "log" /\ toServer' = Tail(toServer)
        /\ delivered' = [last |-> Head(toServer).value, count |-> delivered.count + 1]
        /\ UNCHANGED <<buffer, nextLine, gone>>
    BY <1>11 DEF ServerTakesLog
  <2>2. InFlight = toServer
    BY <1>0, <2>1, InFlightIs
  <2>3. InFlight' = Tail(InFlight)
    <3>1. \A i \in 1..Len(toServer') : i + 1 \in 1..Len(toServer) /\ toServer'[i] = toServer[i + 1]
      BY <1>0, <2>1 DEF SessionTypes
    <3>2. toServer' # <<>> => 1 \in 1..Len(toServer') /\ Head(toServer') = toServer'[1]
      BY <1>0, <2>1 DEF SessionTypes
    <3>3. \A i \in 1..Len(toServer) : toServer[i].kind = "log"
      BY <1>0, <2>2, InFlightIs
    <3>4. toServer' # <<>> => Head(toServer').kind # "hello"
      BY <3>1, <3>2, <3>3
    <3> QED BY <2>1, <2>2, <3>4 DEF InFlight
  <2>4. /\ Len(InFlight') = Len(InFlight) - 1 /\ Head(InFlight) = InFlight[1]
        /\ Len(InFlight) \in Nat \ {0}
        /\ \A i \in 1..Len(InFlight') : i + 1 \in 1..Len(InFlight) /\ InFlight'[i] = InFlight[i + 1]
    BY <1>i, <2>1, <2>2, <2>3
  <2>5. LinesRise'
    <3>1. delivered'.last = InFlight[1].value
      BY <2>1, <2>2, <2>4
    <3>2. delivered'.last < nextLine /\ \A k \in 1..Len(buffer) : delivered'.last < buffer[k]
      BY <1>0, <2>4, <3>1 DEF LinesRise
    <3>3. \A i \in 1..Len(InFlight') : delivered'.last < InFlight'[i].value
      BY <1>0, <2>4, <3>1 DEF LinesRise
    <3>4. ASSUME NEW i \in 1..Len(InFlight'), NEW j \in 1..Len(InFlight'), i < j
          PROVE  InFlight'[i].value < InFlight'[j].value
      <4>1. /\ InFlight'[i] = InFlight[i + 1] /\ InFlight'[j] = InFlight[j + 1]
            /\ i + 1 \in 1..Len(InFlight) /\ j + 1 \in 1..Len(InFlight)
        BY <2>4
      <4>2. i + 1 < j + 1
        BY <3>4
      <4> QED BY <1>0, <4>1, <4>2 DEF LinesRise
    <3>5. \A i \in 1..Len(InFlight') : /\ InFlight'[i].value < nextLine
                                       /\ \A k \in 1..Len(buffer) : InFlight'[i].value < buffer[k]
      BY <1>0, <2>4 DEF LinesRise
    <3> QED BY <1>0, <2>1, <3>2, <3>3, <3>4, <3>5 DEF LinesRise
  <2>6. LinesCounted'
    BY <1>0, <1>b, <1>i, <2>1, <2>4 DEF LinesCounted
  <2> QED BY <1>0, <2>5, <2>6 DEF LinesInv
<1>12. CASE FlushBatch
  <2> DEFINE n == IF Len(buffer) < BatchSize THEN Len(buffer) ELSE BatchSize
             batch == [i \in 1..n |-> [kind |-> "log", value |-> buffer[i]]]
  <2>1. /\ agent.step = "flush" /\ toServer' = toServer \o batch
        /\ buffer' = SubSeq(buffer, n + 1, Len(buffer))
        /\ UNCHANGED <<nextLine, delivered, gone>>
    BY <1>12 DEF FlushBatch, AgentAt
  <2>2. n \in 0..Len(buffer)
    BY <1>b, AgentBounds
  <2> HIDE DEF n
  <2>3. /\ batch \in Seq(FromAgent) /\ Len(batch) = n
        /\ \A i \in 1..n : batch[i].kind = "log" /\ batch[i].value = buffer[i]
    BY <1>b, <2>2 DEF FromAgent
  <2> HIDE DEF batch
  <2>4. InFlight = toServer
    BY <1>0, <2>1, InFlightIs, MessagesAre DEF HelloComesFirst
  <2>5. /\ toServer' \in Seq(FromAgent) /\ Len(toServer') = Len(toServer) + n
        /\ \A i \in 1..Len(toServer') :
             \/ i \in 1..Len(toServer) /\ toServer'[i] = toServer[i]
             \/ i - Len(toServer) \in 1..n /\ i > Len(toServer)
                /\ toServer'[i] = batch[i - Len(toServer)]
    <3>1. toServer \in Seq(FromAgent)
      BY <1>0 DEF SessionTypes
    <3> DEFINE wire == toServer \o batch
    <3>2. /\ wire \in Seq(FromAgent) /\ Len(wire) = Len(toServer) + Len(batch)
          /\ \A i \in 1..Len(wire) :
               \/ i \in 1..Len(toServer) /\ wire[i] = toServer[i]
               \/ i - Len(toServer) \in 1..Len(batch) /\ i > Len(toServer)
                  /\ wire[i] = batch[i - Len(toServer)]
      BY <2>3, <3>1, ConcatIs, Zenon
    <3>3. toServer' = wire
      BY <2>1
    <3> HIDE DEF wire
    <3> QED BY <2>3, <3>2, <3>3
  <2>6. InFlight' = toServer'
    <3>1. \A i \in 1..Len(toServer) : toServer[i].kind = "log"
      BY <1>0, <2>4, InFlightIs
    <3>2. \A i \in 1..Len(toServer') : toServer'[i].kind = "log"
      BY <2>3, <2>5, <3>1
    <3>3. toServer' # <<>> => 1 \in 1..Len(toServer') /\ Head(toServer') = toServer'[1]
      BY <2>5
    <3> QED BY <3>2, <3>3 DEF InFlight
  <2>7. /\ Len(buffer') = Len(buffer) - n
        /\ \A k \in 1..Len(buffer') : n + k \in 1..Len(buffer) /\ n + k > n
                                      /\ buffer'[k] = buffer[n + k]
    BY <1>b, <2>1, <2>2
  <2>8. /\ Len(InFlight') = Len(InFlight) + n
        /\ \A i \in 1..Len(InFlight') :
             \/ i \in 1..Len(InFlight) /\ InFlight'[i].value = InFlight[i].value
             \/ i - Len(InFlight) \in 1..n /\ i > Len(InFlight)
                /\ InFlight'[i].value = buffer[i - Len(InFlight)]
    BY <2>3, <2>4, <2>5, <2>6
  <2>9. LinesCounted'
    BY <1>0, <1>b, <1>i, <2>1, <2>2, <2>7, <2>8 DEF LinesCounted
  <2>10. LinesRise'
    <3>1. \A k \in 1..n : k \in 1..Len(buffer)
      BY <1>b, <2>2
    <3>2. \A i \in 1..Len(InFlight') : /\ delivered.last < InFlight'[i].value
                                       /\ InFlight'[i].value < nextLine
      BY <1>0, <2>8, <3>1 DEF LinesRise
    <3>3. ASSUME NEW i \in 1..Len(InFlight'), NEW k \in 1..Len(buffer')
          PROVE  InFlight'[i].value < buffer'[k]
      <4>1. CASE i \in 1..Len(InFlight) /\ InFlight'[i].value = InFlight[i].value
        BY <1>0, <2>7, <4>1 DEF LinesRise
      <4>2. CASE i - Len(InFlight) \in 1..n /\ InFlight'[i].value = buffer[i - Len(InFlight)]
        <5>1. i - Len(InFlight) < n + k /\ n + k \in 1..Len(buffer)
              /\ i - Len(InFlight) \in 1..Len(buffer)
          <6> DEFINE j == i - Len(InFlight)
          <6>1. j \in 1..n /\ n + k \in 1..Len(buffer) /\ n + k > n /\ j \in 1..Len(buffer)
            BY <2>7, <3>1, <4>2
          <6>2. n \in Nat /\ k \in Nat
            BY <1>b, <2>2
          <6> HIDE DEF j, n
          <6>3. j < n + k
            BY <6>1, <6>2
          <6> QED BY <6>1, <6>3 DEF j
        <5> QED BY <1>0, <2>7, <4>2, <5>1 DEF LinesRise
      <4> QED BY <2>8, <4>1, <4>2
    <3>4. ASSUME NEW i \in 1..Len(InFlight'), NEW j \in 1..Len(InFlight'), i < j
          PROVE  InFlight'[i].value < InFlight'[j].value
      <4>1. CASE j \in 1..Len(InFlight) /\ InFlight'[j].value = InFlight[j].value
        <5>1. i \in 1..Len(InFlight) /\ ~(i > Len(InFlight))
          BY <1>i, <3>4, <4>1
        <5> QED BY <1>0, <2>8, <3>4, <4>1, <5>1 DEF LinesRise
      <4>2. CASE /\ j - Len(InFlight) \in 1..n /\ j > Len(InFlight)
                 /\ InFlight'[j].value = buffer[j - Len(InFlight)]
        <5>1. CASE i \in 1..Len(InFlight) /\ InFlight'[i].value = InFlight[i].value
          BY <1>0, <3>1, <4>2, <5>1 DEF LinesRise
        <5>2. CASE i - Len(InFlight) \in 1..n /\ InFlight'[i].value = buffer[i - Len(InFlight)]
          <6>1. i - Len(InFlight) < j - Len(InFlight)
            BY <1>i, <2>8, <3>4
          <6> QED BY <1>0, <3>1, <4>2, <5>2, <6>1 DEF LinesRise
        <5> QED BY <2>8, <5>1, <5>2
      <4> QED BY <2>8, <4>1, <4>2
    <3>5. \A k \in 1..Len(buffer') : delivered.last < buffer'[k] /\ buffer'[k] < nextLine
      BY <1>0, <2>7 DEF LinesRise
    <3>6. ASSUME NEW k \in 1..Len(buffer'), NEW l \in 1..Len(buffer'), k < l
          PROVE  buffer'[k] < buffer'[l]
      <4>1. n + k < n + l
        BY <2>2, <2>7, <3>6
      <4> QED BY <1>0, <2>7, <4>1 DEF LinesRise
    <3> QED BY <1>0, <2>1, <3>2, <3>3, <3>4, <3>5, <3>6 DEF LinesRise
  <2> QED BY <1>0, <2>9, <2>10 DEF LinesInv
<1> QED BY <1>4, <1>5, <1>6, <1>7, <1>8, <1>9, <1>10, <1>11, <1>12 DEF AgentNext

LEMMA AgentInvariant == Spec => [](TokenInv /\ LinesInv)
<1>1. Init => TokenInv /\ LinesInv
  BY InitTokens, InitLines
<1>2. TokenInv /\ LinesInv /\ [Next]_vars => (TokenInv /\ LinesInv)'
  <2> SUFFICES ASSUME TokenInv, LinesInv, [Next]_vars PROVE TokenInv' /\ LinesInv'
    OBVIOUS
  <2>1. CASE AgentNext
    BY <2>1, TokenStep, LinesStep DEF LinesInv
  <2>2. CASE UNCHANGED agentVars
    <3>1. UNCHANGED <<agent, memoryToken, diskToken, registryToken, tokenLost, link, attached,
                      toAgent, toServer, buffer, nextLine, delivered, gone, serverStep>>
      BY <2>2 DEF agentVars, logLines, wires, tokens
    <3>2. SessionTypes' /\ CutIsEmpty' /\ HelloComesFirst' /\ NoticesMatch'
      BY <3>1 DEF TokenInv, SessionTypes, CutIsEmpty, HelloComesFirst, NoticesMatch
    <3>3. TokensRise' /\ RotatedIsAhead' /\ TokenOnItsWay'
      BY <3>1 DEF TokenInv, TokensRise, RotatedIsAhead, TokenOnItsWay, Token
    <3>4. LineTypes' /\ RefusalsComeAlone'
      BY <3>1 DEF LinesInv, LineTypes, RefusalsComeAlone
    <3>5. UNCHANGED InFlight
      BY <3>1 DEF InFlight
    <3>6. LinesRise' /\ LinesCounted'
      BY <3>1, <3>5 DEF LinesInv, LinesRise, LinesCounted
    <3> QED BY <3>2, <3>3, <3>4, <3>6 DEF TokenInv, LinesInv
  <2> QED BY <2>1, <2>2, AgentSteps1
<1> QED BY <1>1, <1>2, PTL DEF Spec

\* The agent can always say hello with the token of the registry, or that token is on its
\* way, unless a rotation was cut off (run_session, update_token_in_config).
THEOREM TokensArrive == Spec => []TokenReachesAgent
<1>1. TokenInv => TokenReachesAgent
  <2> SUFFICES ASSUME TokenInv PROVE TokenReachesAgent
    OBVIOUS
  <2>1. DOMAIN toAgent = 1..Len(toAgent)
    BY DEF TokenInv, SessionTypes
  <2>2. (\E i \in 1..Len(toAgent) : toAgent[i] = Token(registryToken))
          => Token(registryToken) \in Range(toAgent)
    BY <2>1 DEF Range
  <2> QED BY <2>2 DEF TokenInv, TokenOnItsWay, TokenReachesAgent, AgentAt
<1> QED BY <1>1, AgentInvariant, PTL

\* Log lines reach the server in their order and at most once, and none is missing but
\* those that were dropped by the full buffer, by a broken connection or with the process
\* (AgentLogBuffer, flush_agent_logs).
THEOREM LinesArriveInOrder == Spec => []LinesHandedOverOnce
<1>1. TokenInv /\ LinesInv => LinesHandedOverOnce
  <2> SUFFICES ASSUME TokenInv, LinesInv PROVE LinesHandedOverOnce
    OBVIOUS
  <2> DEFINE flying == [i \in DOMAIN InFlight |-> InFlight[i].value]
             start == <<delivered.last>>
             lines == start \o flying \o buffer
  <2>0. /\ InFlight \in Seq(FromAgent) /\ Len(InFlight) \in Nat
        /\ \A i \in 1..Len(InFlight) : InFlight[i].value \in Nat
    BY InFlightIs DEF TokenInv
  <2>1. buffer \in Seq(Int) /\ Len(buffer) \in Nat /\ delivered.last \in Int
    BY DEF LinesInv, LineTypes
  <2>2. flying \in Seq(Int) /\ Len(flying) = Len(InFlight)
        /\ \A i \in 1..Len(flying) : flying[i] = InFlight[i].value
    BY <2>0
  <2>3. start \in Seq(Int) /\ Len(start) = 1 /\ start[1] = delivered.last
    BY <2>1
  <2>4. LinesRise /\ LinesCounted
    BY DEF LinesInv
  <2> HIDE DEF flying, start
  <2> DEFINE first == start \o flying
  <2>5. /\ first \in Seq(Int) /\ Len(first) = 1 + Len(InFlight)
        /\ \A i \in 1..Len(first) :
             \/ i = 1 /\ first[i] = delivered.last
             \/ i - 1 \in 1..Len(InFlight) /\ i > 1 /\ first[i] = InFlight[i - 1].value
    <3>1. /\ first \in Seq(Int) /\ Len(first) = Len(start) + Len(flying)
          /\ \A i \in 1..Len(first) :
               \/ i \in 1..Len(start) /\ first[i] = start[i]
               \/ i - Len(start) \in 1..Len(flying) /\ i > Len(start)
                  /\ first[i] = flying[i - Len(start)]
      <4>1. start \in Seq(Int) /\ flying \in Seq(Int)
        BY <2>2, <2>3
      <4> QED BY <4>1, ConcatIs, Zenon
    <3> HIDE DEF first
    <3>2. \A i : i \in 1..Len(start) => i = 1
      BY <2>3
    <3> QED BY <2>0, <2>2, <2>3, <3>1, <3>2
  <2>6. /\ Len(lines) = 1 + Len(InFlight) + Len(buffer)
        /\ \A i \in 1..Len(lines) :
             \/ i \in 1..Len(first) /\ lines[i] = first[i]
             \/ i - Len(first) \in 1..Len(buffer) /\ i > Len(first)
                /\ lines[i] = buffer[i - Len(first)]
    <3>1. first \in Seq(Int)
      BY <2>5
    <3>2. lines = first \o buffer
      OBVIOUS
    <3> HIDE DEF first, lines
    <3>3. /\ Len(lines) = Len(first) + Len(buffer)
          /\ \A i \in 1..Len(lines) :
               \/ i \in 1..Len(first) /\ lines[i] = first[i]
               \/ i - Len(first) \in 1..Len(buffer) /\ i > Len(first)
                  /\ lines[i] = buffer[i - Len(first)]
      BY <2>1, <3>1, <3>2, ConcatIs, Zenon
    <3> QED BY <2>5, <3>3
  <2> HIDE DEF first, lines
\* What stands at a place, by where it comes from.
  <2>l. ASSUME NEW i \in 1..Len(lines)
        PROVE  \/ i = 1 /\ lines[i] = delivered.last
               \/ i - 1 \in 1..Len(InFlight) /\ lines[i] = InFlight[i - 1].value
               \/ i - 1 - Len(InFlight) \in 1..Len(buffer) /\ i - 1 > Len(InFlight)
                  /\ lines[i] = buffer[i - 1 - Len(InFlight)]
    <3>1. CASE i \in 1..Len(first) /\ lines[i] = first[i]
      BY <2>5, <3>1
    <3>2. CASE i - Len(first) \in 1..Len(buffer) /\ i > Len(first)
               /\ lines[i] = buffer[i - Len(first)]
      <4>1. i - Len(first) = i - 1 - Len(InFlight) /\ i - 1 > Len(InFlight)
        BY <2>0, <2>5, <3>2
      <4> QED BY <3>2, <4>1
    <3> QED BY <2>6, <3>1, <3>2
  <2>7. ASSUME NEW i \in 1..Len(lines) - 1 PROVE lines[i] < lines[i + 1]
    <3>0. i \in 1..Len(lines) /\ i + 1 \in 1..Len(lines) /\ i + 1 - 1 = i /\ i \in Nat \ {0}
      BY <2>0, <2>1, <2>6
    <3>1. CASE i \in 1..Len(InFlight) /\ lines[i + 1] = InFlight[i].value
      <4>1. CASE i = 1 /\ lines[i] = delivered.last
        BY <2>4, <3>1, <4>1 DEF LinesRise
      <4>2. CASE i - 1 \in 1..Len(InFlight) /\ lines[i] = InFlight[i - 1].value
        <5>1. i - 1 < i
          BY <3>0
        <5> QED BY <2>4, <3>1, <4>2, <5>1 DEF LinesRise
      <4>3. ~(i - 1 > Len(InFlight))
        BY <2>0, <3>1
      <4> QED BY <2>l, <3>0, <4>1, <4>2, <4>3
    <3>2. CASE i - Len(InFlight) \in 1..Len(buffer) /\ lines[i + 1] = buffer[i - Len(InFlight)]
      <4>1. CASE i = 1 /\ lines[i] = delivered.last
        BY <2>4, <3>2, <4>1 DEF LinesRise
      <4>2. CASE i - 1 \in 1..Len(InFlight) /\ lines[i] = InFlight[i - 1].value
        BY <2>4, <3>2, <4>2 DEF LinesRise
      <4>3. CASE /\ i - 1 - Len(InFlight) \in 1..Len(buffer)
                 /\ lines[i] = buffer[i - 1 - Len(InFlight)]
        <5>1. i - 1 - Len(InFlight) < i - Len(InFlight)
          BY <2>0, <3>0
        <5> QED BY <2>4, <3>2, <4>3, <5>1 DEF LinesRise
      <4> QED BY <2>l, <3>0, <4>1, <4>2, <4>3
    <3>3. i + 1 # 1
      BY <3>0
    <3> QED BY <2>l, <3>0, <3>1, <3>2, <3>3
  <2> QED BY <2>4, <2>7 DEF LinesHandedOverOnce, LinesCounted, lines, flying, start
<1> QED BY <1>1, AgentInvariant, PTL

(***************************************************************************)
(* One delivery.                                                           *)
(***************************************************************************)

Results == {"ok"} \cup Passing \cup Lasting
DialogueSteps == {"greeting", "mail", "rcpt", "data", "body", "answer", "quit"}

DeliveryTypes ==
  /\ channel \in Channels \cup {"ended"} /\ step \in DialogueSteps \cup {"idle"}
  /\ attempts \in [Channels -> 0..MaxDeliveryAttempts]
  /\ outcome \in [Channels -> Results \cup {"skipped", "trying"}]
  /\ envelope \in 0..Recipients
  /\ accepted \in [Channels -> Seq(Nat)]

\* A channel whose turn is over was tried iff it was routed to, and its result is final.
Moved(c) == channel = "ended" \/ (c = "webhook" /\ channel = "smtp")

TurnIsOver(c) ==
  /\ ShouldSend(c) <=> attempts[c] > 0
  /\ ShouldSend(c) <=> outcome[c] # "skipped"
  /\ outcome[c] # "trying"
  /\ outcome[c] = "ok" => accepted[c] # <<>>
  /\ outcome[c] \in Passing => attempts[c] = MaxDeliveryAttempts

\* Before and in its turn a channel has no result yet.
TurnIsNot(c) ==
  /\ outcome[c] \in {"skipped", "trying"}
  /\ attempts[c] > 0 => ShouldSend(c)
  /\ outcome[c] = "trying" => ShouldSend(c)
  /\ step = "idle" => attempts[c] < MaxDeliveryAttempts
  /\ channel # c => attempts[c] = 0 /\ outcome[c] = "skipped"

Turns == \A c \in Channels : IF Moved(c) THEN TurnIsOver(c) ELSE TurnIsNot(c)

\* The mail server has the whole envelope before it is asked to take the message.
Dialogue ==
  /\ step # "idle" => channel = "smtp" /\ ShouldSend("smtp") /\ attempts["smtp"] > 0
  /\ step \in {"data", "body", "answer", "quit"} => envelope = Recipients
  /\ step \in {"answer", "quit"} => accepted["smtp"] # <<>>

MailsAreWhole == \A i \in 1..Len(accepted["smtp"]) : accepted["smtp"][i] = Recipients

\* The inductive invariant of a delivery.
DeliveryInv == DeliveryTypes /\ Turns /\ Dialogue /\ MailsAreWhole

LEMMA MessageAdded ==
  ASSUME NEW s \in Seq(Nat), NEW n \in Nat
  PROVE  /\ Append(s, n) \in Seq(Nat) /\ Append(s, n) # <<>> /\ Len(Append(s, n)) = Len(s) + 1
         /\ \A i \in 1..Len(Append(s, n)) :
              Append(s, n)[i] = IF i \in 1..Len(s) THEN s[i] ELSE n
<1>1. /\ Append(s, n) \in Seq(Nat) /\ Len(Append(s, n)) = Len(s) + 1 /\ Len(s) \in Nat
      /\ \A i \in 1..Len(s) + 1 : Append(s, n)[i] = IF i \in 1..Len(s) THEN s[i] ELSE n
  OBVIOUS
<1> QED BY <1>1, EmptySeq

LEMMA InitDelivery == Init => DeliveryInv
<1> SUFFICES ASSUME Init PROVE DeliveryInv
  OBVIOUS
<1>1. /\ channel = "webhook" /\ step = "idle" /\ envelope = 0
      /\ attempts = [c \in Channels |-> 0] /\ outcome = [c \in Channels |-> "skipped"]
      /\ accepted = [c \in Channels |-> <<>>]
  BY DEF Init, DeliveryInit
<1>2. 0 \in 0..MaxDeliveryAttempts /\ 0 \in 0..Recipients /\ 0 < MaxDeliveryAttempts
  BY DeliveryAssumption
<1>3. DeliveryTypes
  BY <1>1, <1>2 DEF DeliveryTypes, Channels
<1>4. Turns
  BY <1>1, <1>2 DEF Turns, Moved, TurnIsNot, Channels
<1> QED BY <1>1, <1>3, <1>4 DEF DeliveryInv, Dialogue, MailsAreWhole, Channels

\* The end of an attempt.
LEMMA AttemptEndsIs ==
  ASSUME DeliveryInv, UNCHANGED <<kind, settings>>, NEW result \in Results, AttemptEnds(result),
         channel \in Channels, ShouldSend(channel),
         attempts' \in [Channels -> 0..MaxDeliveryAttempts], attempts'[channel] > 0,
         \A c \in Channels : c # channel => attempts'[c] = attempts[c] /\ accepted'[c] = accepted[c],
         accepted' \in [Channels -> Seq(Nat)], MailsAreWhole',
         result = "ok" => accepted'[channel] # <<>>
  PROVE  DeliveryInv'
<1>0. DeliveryTypes /\ Turns
  BY DEF DeliveryInv
<1>s. \A c \in Channels : ShouldSend(c)' <=> ShouldSend(c)
  BY DEF ShouldSend
<1>1. /\ outcome' = [outcome EXCEPT ![channel] = IF Settled(result) THEN result ELSE "trying"]
      /\ channel' = IF Settled(result) THEN NextChannel ELSE channel
      /\ step' = "idle" /\ envelope' = 0
  BY DEF AttemptEnds
<1>2. /\ channel' \in Channels \cup {"ended"} /\ NextChannel \in {"smtp", "ended"}
      /\ NextChannel = "smtp" <=> channel = "webhook"
  BY <1>1 DEF NextChannel, Channels
<1>3. DeliveryTypes'
  <2>1. 0 \in 0..Recipients
    BY DeliveryAssumption
  <2>2. outcome' \in [Channels -> Results \cup {"skipped", "trying"}]
    BY <1>0, <1>1 DEF DeliveryTypes
  <2> QED BY <1>1, <1>2, <2>1, <2>2 DEF DeliveryTypes
<1>4. Dialogue'
  BY <1>1 DEF Dialogue
<1>5. ASSUME NEW c \in Channels, c = channel
      PROVE  IF Moved(c)' THEN TurnIsOver(c)' ELSE TurnIsNot(c)'
  <2>1. CASE Settled(result)
    <3>1. channel' = NextChannel /\ outcome'[c] = result
      BY <1>0, <1>1, <1>5, <2>1 DEF DeliveryTypes
    <3>2. Moved(c)'
      BY <1>2, <1>5, <3>1 DEF Moved, Channels
    <3>3. result \in Passing => attempts'[c] = MaxDeliveryAttempts
      <4>1. result \in Passing => result # "ok" /\ result \notin Lasting
        BY DEF Passing, Lasting
      <4>2. result \in Passing => attempts'[channel] >= MaxDeliveryAttempts
        BY <2>1, <4>1 DEF Settled
      <4>3. attempts'[channel] \in 0..MaxDeliveryAttempts
        OBVIOUS
      <4> QED BY <1>5, <4>2, <4>3, DeliveryAssumption
    <3>4. result # "skipped" /\ result # "trying"
      BY DEF Results, Passing, Lasting
    <3> QED BY <1>5, <1>s, <3>1, <3>2, <3>3, <3>4 DEF TurnIsOver
  <2>2. CASE ~Settled(result)
    <3>1. channel' = channel /\ outcome'[c] = "trying"
      BY <1>0, <1>1, <1>5, <2>2 DEF DeliveryTypes
    <3>2. ~Moved(c)'
      BY <1>5, <3>1 DEF Moved, Channels
    <3>3. attempts'[c] < MaxDeliveryAttempts
      <4>1. ~(attempts'[channel] >= MaxDeliveryAttempts)
        BY <2>2 DEF Settled
      <4>2. attempts'[channel] \in 0..MaxDeliveryAttempts
        OBVIOUS
      <4> QED BY <1>5, <4>1, <4>2, DeliveryAssumption
    <3> QED BY <1>5, <1>s, <3>1, <3>2, <3>3 DEF TurnIsNot
  <2> QED BY <2>1, <2>2
<1>6. ASSUME NEW c \in Channels, c # channel
      PROVE  IF Moved(c)' THEN TurnIsOver(c)' ELSE TurnIsNot(c)'
  <2>1. outcome'[c] = outcome[c] /\ attempts'[c] = attempts[c] /\ accepted'[c] = accepted[c]
    BY <1>0, <1>1, <1>6 DEF DeliveryTypes
  <2>2. CASE c = "webhook"
    <3>1. channel = "smtp" /\ Moved(c) /\ Moved(c)'
      BY <1>1, <1>2, <1>6, <2>2 DEF Moved, Channels
    <3> QED BY <1>0, <1>s, <2>1, <3>1 DEF Turns, TurnIsOver
  <2>3. CASE c = "smtp"
    <3>1. channel = "webhook" /\ ~Moved(c) /\ ~Moved(c)'
      BY <1>1, <1>2, <1>6, <2>3 DEF Moved, Channels
    <3>2. TurnIsNot(c) /\ channel # c
      BY <1>0, <1>6, <3>1 DEF Turns
    <3>3. 0 < MaxDeliveryAttempts
      BY DeliveryAssumption
    <3> QED BY <1>s, <2>1, <3>1, <3>2, <3>3 DEF TurnIsNot
  <2> QED BY <2>2, <2>3 DEF Channels
<1>7. Turns'
  BY <1>5, <1>6 DEF Turns
<1> QED BY <1>3, <1>4, <1>7 DEF DeliveryInv

LEMMA DeliveryStep == DeliveryInv /\ DeliveryNext => DeliveryInv'
<1> SUFFICES ASSUME DeliveryInv, DeliveryNext PROVE DeliveryInv'
  OBVIOUS
<1>0. DeliveryTypes /\ Turns /\ Dialogue /\ MailsAreWhole
  BY DEF DeliveryInv
<1>c. "webhook" \in Channels /\ "smtp" \in Channels /\ "ended" \notin Channels
  BY DEF Channels
<1>s. UNCHANGED <<kind, settings>>
  BY DEF DeliveryNext, Skip, BuildFails, WebhookAttempt, SmtpConnect, Greet, MailFrom, RecipientAccepted,
         Data, BodyAccepted, AnswerArrives, Quit, SmtpRefuses, DialogueBreaks, Ended, Advance,
         deliveryVars
<1>t. \A c \in Channels : ShouldSend(c)' <=> ShouldSend(c)
  BY <1>s DEF ShouldSend
\* A step of the dialogue that does not end it.
<1>1. ASSUME step # "idle", step' \in DialogueSteps,
             UNCHANGED <<kind, settings, channel, attempts, outcome>>,
             envelope' \in 0..Recipients, accepted' \in [Channels -> Seq(Nat)],
             accepted'["webhook"] = accepted["webhook"], MailsAreWhole',
             step' \in {"data", "body", "answer", "quit"} => envelope' = Recipients,
             step' \in {"answer", "quit"} => accepted'["smtp"] # <<>>
      PROVE  DeliveryInv'
  <2>1. DeliveryTypes'
    BY <1>0, <1>1 DEF DeliveryTypes
  <2>2. Dialogue'
    BY <1>0, <1>1, <1>c, <1>t DEF Dialogue
  <2>3. Turns'
    <3>1. channel = "smtp" /\ step' # "idle"
      BY <1>0, <1>1 DEF Dialogue, DialogueSteps
    <3>2. Moved("webhook") /\ Moved("webhook")' /\ ~Moved("smtp") /\ ~Moved("smtp")'
      BY <1>1, <3>1 DEF Moved
    <3>3. TurnIsOver("webhook")'
      BY <1>0, <1>1, <1>c, <1>t, <3>2 DEF Turns, TurnIsOver
    <3>4. TurnIsNot("smtp")'
      BY <1>0, <1>1, <1>c, <1>t, <3>1, <3>2 DEF Turns, TurnIsNot
    <3> QED BY <3>2, <3>3, <3>4 DEF Turns, Channels
  <2> QED BY <1>1, <2>1, <2>2, <2>3 DEF DeliveryInv
\* An attempt is counted.
<1>2. ASSUME NEW c \in Channels, CanTry(c), CountAttempt
      PROVE  /\ attempts' \in [Channels -> 0..MaxDeliveryAttempts] /\ attempts'[c] > 0
             /\ channel = c /\ ShouldSend(c) /\ step = "idle" /\ ~Moved(c) /\ TurnIsNot(c)
             /\ \A d \in Channels : d # c => attempts'[d] = attempts[d]
  <2>1. channel = c /\ ShouldSend(c) /\ step = "idle"
    BY <1>2 DEF CanTry
  <2>2. ~Moved(c)
    BY <1>c, <2>1 DEF Moved, Channels
  <2>3. TurnIsNot(c)
    BY <1>0, <2>2 DEF Turns
  <2>4. attempts[c] < MaxDeliveryAttempts /\ attempts[c] \in 0..MaxDeliveryAttempts
    BY <1>0, <2>1, <2>3 DEF TurnIsNot, DeliveryTypes
  <2>5. attempts[c] + 1 \in 0..MaxDeliveryAttempts /\ attempts[c] + 1 > 0
    BY <2>4, DeliveryAssumption
  <2>6. attempts' = [attempts EXCEPT ![c] = attempts[c] + 1]
    BY <1>2, <2>1 DEF CountAttempt
  <2> QED BY <1>0, <2>1, <2>2, <2>3, <2>5, <2>6 DEF DeliveryTypes
<1>3. CASE Skip
  <2>1. /\ channel \in Channels /\ ~ShouldSend(channel) /\ outcome[channel] = "skipped"
        /\ channel' = NextChannel
        /\ UNCHANGED <<kind, settings, attempts, outcome, step, envelope, accepted>>
    BY <1>3 DEF Skip
  <2>2. step = "idle"
    BY <1>0, <2>1 DEF Dialogue
  <2>3. DeliveryTypes' /\ Dialogue' /\ MailsAreWhole'
    BY <1>0, <2>1, <2>2 DEF DeliveryTypes, Dialogue, MailsAreWhole, NextChannel, Channels
  <2>4. ~Moved(channel)
    BY <2>1 DEF Moved, Channels
  <2>5. TurnIsNot(channel) /\ attempts[channel] = 0
    <3>1. TurnIsNot(channel)
      BY <1>0, <2>1, <2>4 DEF Turns
    <3>2. ~(attempts[channel] > 0) /\ attempts[channel] \in 0..MaxDeliveryAttempts
      BY <1>0, <2>1, <3>1 DEF TurnIsNot, DeliveryTypes
    <3> QED BY <3>1, <3>2
  <2>7. ASSUME NEW c \in Channels, c = channel
        PROVE  IF Moved(c)' THEN TurnIsOver(c)' ELSE TurnIsNot(c)'
    <3>1. Moved(c)'
      BY <2>1, <2>7 DEF Moved, NextChannel, Channels
    <3>2. ~(attempts'[c] > 0) /\ outcome'[c] = "skipped"
      BY <2>1, <2>5, <2>7
    <3> QED BY <1>t, <2>1, <2>7, <3>1, <3>2 DEF TurnIsOver, Passing
  <2>8. ASSUME NEW c \in Channels, c # channel
        PROVE  IF Moved(c)' THEN TurnIsOver(c)' ELSE TurnIsNot(c)'
    <3>1. CASE c = "webhook"
      <4>1. Moved(c) /\ Moved(c)'
        BY <2>1, <2>8, <3>1 DEF Moved, NextChannel, Channels
      <4> QED BY <1>0, <1>t, <2>1, <4>1 DEF Turns, TurnIsOver
    <3>2. CASE c = "smtp"
      <4>1. ~Moved(c) /\ ~Moved(c)'
        BY <2>1, <2>8, <3>2 DEF Moved, NextChannel, Channels
      <4> QED BY <1>0, <1>t, <2>1, <2>8, <4>1 DEF Turns, TurnIsNot
    <3> QED BY <3>1, <3>2 DEF Channels
  <2>9. Turns'
    BY <2>7, <2>8 DEF Turns
  <2> QED BY <2>3, <2>9 DEF DeliveryInv
<1>4. CASE BuildFails
  <2>1. /\ channel \in Channels /\ CanTry(channel) /\ CountAttempt /\ UNCHANGED accepted
        /\ \E result \in Results \ {"ok"} : AttemptEnds(result)
    BY <1>4 DEF BuildFails, Results, Lasting
  <2>2. accepted' \in [Channels -> Seq(Nat)] /\ MailsAreWhole'
    BY <1>0, <2>1 DEF DeliveryTypes, MailsAreWhole
  <2> QED BY <1>2, <1>s, <2>1, <2>2, AttemptEndsIs
<1>5. CASE WebhookAttempt
  <2>1. /\ CanTry("webhook") /\ CountAttempt /\ channel = "webhook"
        /\ \/ UNCHANGED accepted /\ \E result \in Results \ {"ok"} : AttemptEnds(result)
           \/ /\ accepted' = [accepted EXCEPT !["webhook"] = Append(@, 1)]
              /\ \E result \in Results : AttemptEnds(result)
    BY <1>5 DEF WebhookAttempt, Results, Passing, Lasting, Accept, CanTry
  <2>2. accepted' \in [Channels -> Seq(Nat)] /\ accepted'["smtp"] = accepted["smtp"]
    <3>1. accepted \in [Channels -> Seq(Nat)] /\ Append(accepted["webhook"], 1) \in Seq(Nat)
      BY <1>0, <1>c, MessageAdded DEF DeliveryTypes
    <3> QED BY <1>c, <2>1, <3>1
  <2>3. MailsAreWhole'
    BY <1>0, <2>2 DEF MailsAreWhole
  <2>4. \A c \in Channels : c # "webhook" => accepted'[c] = accepted[c]
    BY <2>2 DEF Channels
  <2>5. CASE UNCHANGED accepted /\ \E result \in Results \ {"ok"} : AttemptEnds(result)
    BY <1>2, <1>c, <1>s, <2>1, <2>2, <2>3, <2>5, AttemptEndsIs
  <2>6. CASE /\ accepted' = [accepted EXCEPT !["webhook"] = Append(@, 1)]
             /\ \E result \in Results : AttemptEnds(result)
    <3>1. accepted'["webhook"] # <<>>
      <4>1. Append(accepted["webhook"], 1) # <<>> /\ accepted \in [Channels -> Seq(Nat)]
        BY <1>0, <1>c, MessageAdded DEF DeliveryTypes
      <4> QED BY <1>c, <2>6, <4>1
    <3> QED BY <1>2, <1>c, <1>s, <2>1, <2>2, <2>3, <2>4, <2>6, <3>1, AttemptEndsIs
  <2> QED BY <2>1, <2>5, <2>6
<1>6. CASE SmtpConnect
  <2>1. /\ CanTry("smtp") /\ CountAttempt /\ step' = "greeting" /\ envelope' = 0
        /\ UNCHANGED <<kind, settings, channel, outcome, accepted>>
    BY <1>6 DEF SmtpConnect
  <2>2. /\ attempts' \in [Channels -> 0..MaxDeliveryAttempts] /\ attempts'["smtp"] > 0
        /\ channel = "smtp" /\ ShouldSend("smtp") /\ TurnIsNot("smtp")
        /\ attempts'["webhook"] = attempts["webhook"]
    BY <1>2, <1>c, <2>1
  <2>3. DeliveryTypes'
    <3>1. 0 \in 0..Recipients
      BY DeliveryAssumption
    <3> QED BY <1>0, <2>1, <2>2, <3>1 DEF DeliveryTypes, DialogueSteps
  <2>4. Dialogue' /\ MailsAreWhole'
    BY <1>0, <1>c, <1>t, <2>1, <2>2 DEF Dialogue, MailsAreWhole
  <2>5. Turns'
    <3>1. Moved("webhook") /\ Moved("webhook")' /\ ~Moved("smtp")'
      BY <2>1, <2>2 DEF Moved
    <3>2. TurnIsOver("webhook")'
      BY <1>0, <1>c, <1>t, <2>1, <2>2, <3>1 DEF Turns, TurnIsOver
    <3>3. TurnIsNot("smtp")'
      BY <1>c, <1>t, <2>1, <2>2 DEF TurnIsNot
    <3> QED BY <3>1, <3>2, <3>3 DEF Turns, Channels
  <2> QED BY <2>3, <2>4, <2>5 DEF DeliveryInv
<1>7. CASE Greet \/ MailFrom \/ Data \/ AnswerArrives
  <2>1. /\ \/ step = "greeting" /\ step' = "mail"
           \/ step = "mail" /\ step' = "rcpt"
           \/ step = "data" /\ step' = "body"
           \/ step = "answer" /\ step' = "quit"
        /\ UNCHANGED <<kind, settings, channel, attempts, outcome, accepted, envelope>>
    BY <1>7 DEF Greet, MailFrom, Data, AnswerArrives, Advance
  <2>2. step # "idle" /\ step' \in DialogueSteps
    BY <2>1 DEF DialogueSteps
  <2>3. /\ step' \in {"data", "body", "answer", "quit"} => envelope' = Recipients
        /\ step' \in {"answer", "quit"} => accepted'["smtp"] # <<>>
    BY <1>0, <2>1 DEF Dialogue
  <2>4. envelope' \in 0..Recipients /\ accepted' \in [Channels -> Seq(Nat)] /\ MailsAreWhole'
    BY <1>0, <2>1 DEF DeliveryTypes, MailsAreWhole
  <2> QED BY <1>1, <2>1, <2>2, <2>3, <2>4
<1>8. CASE RecipientAccepted
  <2>1. /\ envelope < Recipients /\ envelope' = envelope + 1 /\ step = "rcpt"
        /\ step' = IF envelope' = Recipients THEN "data" ELSE "rcpt"
        /\ UNCHANGED <<kind, settings, channel, attempts, outcome, accepted>>
    BY <1>8 DEF RecipientAccepted, Advance
  <2>2. envelope' \in 0..Recipients
    BY <1>0, <2>1, DeliveryAssumption DEF DeliveryTypes
  <2>3. step' \in DialogueSteps /\ step' \notin {"answer", "quit"}
        /\ (step' \in {"data", "body", "answer", "quit"} => envelope' = Recipients)
    BY <2>1 DEF DialogueSteps
  <2>4. accepted' \in [Channels -> Seq(Nat)] /\ MailsAreWhole'
    BY <1>0, <2>1 DEF DeliveryTypes, MailsAreWhole
  <2> QED BY <1>1, <2>1, <2>2, <2>3, <2>4
<1>9. CASE BodyAccepted
  <2>1. /\ step = "body" /\ step' = "answer"
        /\ accepted' = [accepted EXCEPT ![channel] = Append(@, envelope)]
        /\ UNCHANGED <<kind, settings, channel, attempts, outcome, envelope>>
    BY <1>9 DEF BodyAccepted, Accept
  <2>2. channel = "smtp" /\ envelope = Recipients /\ envelope \in Nat /\ accepted["smtp"] \in Seq(Nat)
    BY <1>0, <1>c, <2>1, DeliveryAssumption DEF Dialogue, DeliveryTypes
  <2>3. /\ accepted' \in [Channels -> Seq(Nat)] /\ accepted'["webhook"] = accepted["webhook"]
        /\ accepted'["smtp"] = Append(accepted["smtp"], Recipients)
    BY <1>0, <1>c, <2>1, <2>2 DEF DeliveryTypes
  <2>4. MailsAreWhole' /\ accepted'["smtp"] # <<>>
    <3>1. Recipients \in Nat
      BY DeliveryAssumption
    <3>2. /\ accepted'["smtp"] # <<>>
          /\ \A i \in 1..Len(accepted'["smtp"]) :
               accepted'["smtp"][i] = IF i \in 1..Len(accepted["smtp"]) THEN accepted["smtp"][i]
                                                                        ELSE Recipients
      <4> DEFINE before == accepted["smtp"]
      <4>1. before \in Seq(Nat) /\ accepted'["smtp"] = Append(before, Recipients)
        BY <2>2, <2>3
      <4> HIDE DEF before
      <4>2. /\ Append(before, Recipients) # <<>>
            /\ \A i \in 1..Len(Append(before, Recipients)) :
                 Append(before, Recipients)[i] = IF i \in 1..Len(before) THEN before[i] ELSE Recipients
        BY <3>1, <4>1, MessageAdded, Zenon
      <4> QED BY <4>1, <4>2, Zenon DEF before
    <3> QED BY <1>0, <3>2 DEF MailsAreWhole
  <2>5. envelope' \in 0..Recipients /\ step' \in DialogueSteps
    BY <1>0, <2>1 DEF DeliveryTypes, DialogueSteps
  <2> QED BY <1>1, <2>1, <2>2, <2>3, <2>4, <2>5
<1>10. CASE Quit \/ SmtpRefuses \/ DialogueBreaks
  <2>1. /\ step # "idle" /\ UNCHANGED <<kind, settings, attempts, accepted>>
        /\ \E result \in Results : AttemptEnds(result) /\ (result = "ok" => step = "quit")
    BY <1>10 DEF Quit, SmtpRefuses, DialogueBreaks, Results, Passing
  <2>2. channel = "smtp" /\ ShouldSend("smtp") /\ attempts["smtp"] > 0
        /\ (step = "quit" => accepted["smtp"] # <<>>)
    BY <1>0, <2>1 DEF Dialogue
  <2>3. accepted' \in [Channels -> Seq(Nat)] /\ MailsAreWhole'
        /\ attempts' \in [Channels -> 0..MaxDeliveryAttempts]
    BY <1>0, <2>1 DEF DeliveryTypes, MailsAreWhole
  <2> QED BY <1>c, <1>s, <2>1, <2>2, <2>3, AttemptEndsIs
<1>11. CASE Ended
  BY <1>0, <1>11, <1>t DEF Ended, deliveryVars, DeliveryInv, DeliveryTypes, Turns, Moved, TurnIsOver,
                           TurnIsNot, Dialogue, MailsAreWhole, ShouldSend
<1> QED BY <1>3, <1>4, <1>5, <1>6, <1>7, <1>8, <1>9, <1>10, <1>11 DEF DeliveryNext

LEMMA DeliveryInvariant == Spec => []DeliveryInv
<1>1. DeliveryInv /\ [Next]_vars => DeliveryInv'
  <2> SUFFICES ASSUME DeliveryInv, [Next]_vars PROVE DeliveryInv'
    OBVIOUS
  <2>1. CASE DeliveryNext
    BY <2>1, DeliveryStep
  <2>2. CASE UNCHANGED deliveryVars
    BY <2>2 DEF deliveryVars, DeliveryInv, DeliveryTypes, Turns, Moved, TurnIsOver, TurnIsNot, Dialogue,
                MailsAreWhole, ShouldSend
  <2> QED BY <2>1, <2>2, DeliverySteps
<1> QED BY <1>1, InitDelivery, PTL DEF Spec

\* A delivery that is reported as done has reached, on every channel it was routed to,
\* everybody it was meant for, and an error that may pass is given up only after the last
\* attempt (deliver_alert_event, retry_delivery, run_smtp_dialog).
THEOREM DeliveriesAreHonest == Spec => []SuccessReachesEverybody
<1>1. DeliveryInv => SuccessReachesEverybody
  <2> SUFFICES ASSUME DeliveryInv, channel = "ended" PROVE
         /\ \A c \in Channels : ShouldSend(c) <=> attempts[c] > 0
         /\ Reported = "ok" => \A c \in Channels : ShouldSend(c) => accepted[c] # << >>
         /\ \A i \in DOMAIN accepted["smtp"] : accepted["smtp"][i] = Recipients
         /\ \A c \in Channels : outcome[c] \in Passing => attempts[c] = MaxDeliveryAttempts
    BY DEF SuccessReachesEverybody
  <2>1. \A c \in Channels : TurnIsOver(c)
    BY DEF DeliveryInv, Turns, Moved
  <2>2. DOMAIN accepted["smtp"] = 1..Len(accepted["smtp"])
    BY DEF DeliveryInv, DeliveryTypes, Channels
  <2>3. \A c \in Channels : outcome[c] \in Results \cup {"skipped", "trying"}
    BY DEF DeliveryInv, DeliveryTypes
  <2>4. ASSUME Reported = "ok", NEW c \in Channels, ShouldSend(c) PROVE accepted[c] # <<>>
    <3>1. outcome[c] \notin Passing \cup Lasting
      BY <2>4 DEF Reported
    <3>2. outcome[c] = "ok"
      BY <2>1, <2>3, <2>4, <3>1 DEF TurnIsOver, Results
    <3> QED BY <2>1, <3>2 DEF TurnIsOver
  <2> QED BY <2>1, <2>2, <2>4 DEF TurnIsOver, DeliveryInv, MailsAreWhole
<1> QED BY <1>1, DeliveryInvariant, PTL

(***************************************************************************)
(* The collector of network rates.                                         *)
(***************************************************************************)

Counters == [Interfaces -> 0..MaxBytes]
Narrow(counter) == [i \in Interfaces |-> counter[i] % Width]

CollectorTypes ==
  /\ platform \in {"linux", "macos"}
  /\ interface \in [Interfaces -> Links]
  /\ bytes \in Counters /\ atSample \in Counters
  /\ cache.indices \subseteq Interfaces
  /\ disturbed \subseteq Interfaces

\* What the remembered sample is the sum of: the counters of the interfaces that its
\* signature names, and on Linux of those that are present, unless they came or went.
SumOfTable(C) ==
  /\ previousNetwork.signature = {}
  /\ previousNetwork.total = Sum(atSample, C)
  /\ C \ disturbed = Present \ disturbed
SumOfIndices(C) ==
  previousNetwork.signature = ByIndex(C) /\ previousNetwork.total = Sum(atSample, C)
SumOfNames(C) ==
  previousNetwork.signature = ByName(C) /\ previousNetwork.total = Sum(Narrow(atSample), C)

SampleIsASum ==
  previousNetwork.taken =>
    \E C \in SUBSET Interfaces :
      IF platform = "linux" THEN SumOfTable(C) ELSE SumOfIndices(C) \/ SumOfNames(C)

\* The inductive invariant.  That a rate is real needs to know which counters the
\* remembered total was the sum of.
CollectorInv == CollectorTypes /\ SampleIsASum /\ RatesAreReal

LEMMA CollectorSteps == [Next]_vars => CollectorNext \/ UNCHANGED collectorVars
BY DEF Next, vars, hostVars, RunAdmission, RunInstall, RunLogin, RunSettings, RunAgent,
       RunCollector, RunReports, RunDelivery

LEMMA TotalIsSum == \A f, S : TotalOf(f, S) = Sum(f, S)
BY Zenon DEF TotalOf, Sum, MapThenSumSet, MapThenFoldSet

\* Every reading is the sum of the counters of the interfaces it covers.
SumOfCovered(reading) ==
  /\ reading.covers \subseteq Interfaces /\ reading.cache.indices \subseteq Interfaces
  /\ \/ /\ platform = "linux" /\ reading.covers = Present /\ reading.signature = {}
        /\ reading.total = Sum(bytes, reading.covers)
     \/ /\ platform # "linux" /\ reading.signature = ByIndex(reading.covers)
        /\ reading.total = Sum(bytes, reading.covers)
     \/ /\ platform # "linux" /\ reading.signature = ByName(reading.covers)
        /\ reading.total = Sum(Narrow(bytes), reading.covers)

LEMMA ReadingsAreSums ==
  CollectorTypes => \A reading \in Readings : SumOfCovered(reading)
<1> SUFFICES ASSUME CollectorTypes, NEW reading \in Readings PROVE SumOfCovered(reading)
  OBVIOUS
<1>1. Present \subseteq Interfaces /\ Running \subseteq Interfaces
  BY DEF Present, Running
<1>2. CASE platform = "linux"
  <2>1. reading = WholeTable
    BY <1>2 DEF Readings
  <2>2. /\ WholeTable.covers = Present /\ WholeTable.signature = {} /\ WholeTable.cache = cache
        /\ WholeTable.total = Sum(bytes, Present)
    BY TotalIsSum DEF WholeTable
  <2> QED BY <1>1, <1>2, <2>1, <2>2 DEF SumOfCovered, CollectorTypes
<1>3. CASE platform # "linux" /\ reading = InterfaceList
  <2>1. /\ reading.covers = Running /\ reading.signature = ByIndex(Running)
        /\ reading.cache.indices = Running /\ reading.total = Sum(bytes, Running)
    BY <1>3, TotalIsSum DEF InterfaceList
  <2> QED BY <1>1, <1>3, <2>1 DEF SumOfCovered
<1>4. CASE platform # "linux" /\ reading = Addresses
  <2>1. /\ reading.covers = Running /\ reading.signature = ByName(Running)
        /\ reading.cache.indices = {} /\ reading.total = Sum(Narrow(bytes), Running)
    BY <1>4, TotalIsSum DEF Addresses, EmptyCache, Narrow
  <2> QED BY <1>1, <1>4, <2>1 DEF SumOfCovered
<1>5. CASE platform # "linux" /\ reading = Zeros
  <2>1. /\ reading.covers = {} /\ reading.signature = {}
        /\ reading.cache.indices = {} /\ reading.total = 0
    BY <1>5 DEF Zeros, EmptyCache
  <2>2. ByIndex({}) = {} /\ Sum(bytes, {}) = 0
    BY SumEmpty DEF ByIndex
  <2> QED BY <1>5, <2>1, <2>2 DEF SumOfCovered
<1>6. CASE platform # "linux" /\ CanSampleCached /\ reading = CachedIndices
  <2>1. /\ reading.covers = cache.indices /\ reading.signature = ByIndex(cache.indices)
        /\ reading.cache = cache /\ reading.total = Sum(bytes, cache.indices)
    BY <1>6, TotalIsSum DEF CachedIndices
  <2> QED BY <1>6, <2>1 DEF SumOfCovered, CollectorTypes
<1> QED BY <1>2, <1>3, <1>4, <1>5, <1>6 DEF Readings

LEMMA SignaturesTell ==
  \A C, D : /\ ByIndex(C) = ByIndex(D) => C = D
            /\ ByName(C) = ByName(D) => C = D
            /\ ByIndex(C) = ByName(D) => C = {} /\ D = {}
<1> SUFFICES ASSUME NEW C, NEW D
             PROVE  /\ ByIndex(C) = ByIndex(D) => C = D
                    /\ ByName(C) = ByName(D) => C = D
                    /\ ByIndex(C) = ByName(D) => C = {} /\ D = {}
  OBVIOUS
<1>1. \A i : (i \in C <=> <<"idx", i>> \in ByIndex(C)) /\ (i \in D <=> <<"idx", i>> \in ByIndex(D))
  BY DEF ByIndex
<1>2. \A i : (i \in C <=> <<"name", i>> \in ByName(C)) /\ (i \in D <=> <<"name", i>> \in ByName(D))
  BY DEF ByName
<1>3. \A i, j : <<"idx", i>> # <<"name", j>>
  OBVIOUS
<1>4. ASSUME ByIndex(C) = ByName(D) PROVE C = {} /\ D = {}
  <2>1. \A x \in ByIndex(C) : FALSE
    BY <1>3, <1>4 DEF ByIndex, ByName
  <2> QED BY <1>1, <1>2, <1>4, <2>1
<1> QED BY <1>1, <1>2, <1>4

Gain == [i \in Interfaces |-> bytes[i] - atSample[i]]

LEMMA CountersAre ==
  CollectorTypes => /\ IsFiniteSet(Interfaces) /\ Width \in Nat /\ Width > 0
                    /\ bytes \in [Interfaces -> Int] /\ atSample \in [Interfaces -> Int]
                    /\ Narrow(bytes) \in [Interfaces -> Int]
                    /\ Narrow(atSample) \in [Interfaces -> Int]
                    /\ Gain \in [Interfaces -> Int]
<1> SUFFICES ASSUME CollectorTypes
             PROVE  /\ IsFiniteSet(Interfaces) /\ Width \in Nat /\ Width > 0
                    /\ bytes \in [Interfaces -> Int] /\ atSample \in [Interfaces -> Int]
                    /\ Narrow(bytes) \in [Interfaces -> Int]
                    /\ Narrow(atSample) \in [Interfaces -> Int]
                    /\ Gain \in [Interfaces -> Int]
  OBVIOUS
<1>1. IsFiniteSet(Interfaces) /\ Width \in Nat /\ Width > 0 /\ MaxBytes \in Nat
  BY CollectorAssumption
<1>2. bytes \in [Interfaces -> Int] /\ atSample \in [Interfaces -> Int]
  BY <1>1 DEF CollectorTypes, Counters
<1>3. \A i \in Interfaces : bytes[i] % Width \in Int /\ atSample[i] % Width \in Int
                            /\ bytes[i] - atSample[i] \in Int
  BY <1>1, <1>2
<1> QED BY <1>1, <1>2, <1>3 DEF Narrow, Gain

\* A counter that did not wrap gained as much modulo the width.
LEMMA NarrowGain ==
  ASSUME NEW a \in Nat, NEW b \in Nat, NEW w \in Nat, w > 0, a \div w = b \div w
  PROVE  a - b = (a % w) - (b % w)
<1>1. a = w * (a \div w) + (a % w) /\ b = w * (b \div w) + (b % w)
  OBVIOUS
<1>2. a \div w \in Int /\ a % w \in Int /\ b % w \in Int
  OBVIOUS
<1> DEFINE q == a \div w
           p == w * q
<1>3. p \in Int
  BY <1>2
<1>4. a = p + (a % w) /\ b = p + (b % w)
  BY <1>1
<1> HIDE DEF q, p
<1> QED BY <1>2, <1>3, <1>4

LEMMA RateIsReal ==
  ASSUME CollectorInv, NEW reading \in Readings
  PROVE  LET r == Rate(previousNetwork, reading)
             a == Arrived(reading)
         IN  r # NoRate /\ a # Unknown => r = a
<1> DEFINE r == Rate(previousNetwork, reading)
           a == Arrived(reading)
           C == reading.covers
<1> SUFFICES ASSUME r # NoRate, a # Unknown PROVE r = a
  OBVIOUS
<1>1. CollectorTypes /\ SampleIsASum /\ SumOfCovered(reading)
  BY ReadingsAreSums DEF CollectorInv
<1>2. /\ previousNetwork.taken /\ previousNetwork.signature = reading.signature
      /\ r = reading.total - previousNetwork.total
  BY DEF Rate
<1>3. /\ a = Sum(Gain, C)
      /\ platform = "linux" => disturbed = {}
      /\ reading.signature = ByName(C) =>
           \A i \in C : bytes[i] \div Width = atSample[i] \div Width
  BY TotalIsSum DEF Arrived, Gain
<1>4. C \subseteq Interfaces
  BY <1>1 DEF SumOfCovered
<1>5. PICK D \in SUBSET Interfaces :
        IF platform = "linux" THEN SumOfTable(D) ELSE SumOfIndices(D) \/ SumOfNames(D)
  BY <1>1, <1>2 DEF SampleIsASum
<1> HIDE DEF r, a, C
<1>6. Sum(Gain, C) = Sum(bytes, C) - Sum(atSample, C)
  <2>1. \A i \in C : Gain[i] = bytes[i] - atSample[i]
    BY <1>4 DEF Gain
  <2> QED BY <1>1, <1>4, <2>1, CountersAre, SumDifference
<1>7. CASE platform = "linux"
  <2>1. SumOfTable(D)
    BY <1>5, <1>7
  <2>2. D = Present /\ C = Present
    BY <1>1, <1>3, <1>7, <2>1 DEF SumOfTable, SumOfCovered, C
  <2>3. reading.total = Sum(bytes, C) /\ previousNetwork.total = Sum(atSample, C)
    BY <1>1, <1>7, <2>1, <2>2 DEF SumOfTable, SumOfCovered, C
  <2> QED BY <1>2, <1>3, <1>6, <2>3
<1>8. CASE platform # "linux" /\ reading.signature = ByIndex(C) /\ reading.total = Sum(bytes, C)
  <2>1. CASE SumOfIndices(D)
    <3>1. C = D
      BY <1>2, <1>8, <2>1, SignaturesTell DEF SumOfIndices
    <3> QED BY <1>2, <1>3, <1>6, <1>8, <2>1, <3>1 DEF SumOfIndices
  <2>2. CASE SumOfNames(D)
    <3>1. C = {} /\ D = {}
      BY <1>2, <1>8, <2>2, SignaturesTell DEF SumOfNames
    <3>2. reading.total = 0 /\ previousNetwork.total = 0 /\ Sum(Gain, C) = 0
      BY <1>8, <2>2, <3>1, SumEmpty DEF SumOfNames
    <3> QED BY <1>2, <1>3, <3>2
  <2> QED BY <1>5, <1>8, <2>1, <2>2
<1>9. CASE platform # "linux" /\ reading.signature = ByName(C) /\ reading.total = Sum(Narrow(bytes), C)
  <2>1. CASE SumOfIndices(D)
    <3>1. C = {} /\ D = {}
      BY <1>2, <1>9, <2>1, SignaturesTell DEF SumOfIndices
    <3>2. reading.total = 0 /\ previousNetwork.total = 0 /\ Sum(Gain, C) = 0
      BY <1>9, <2>1, <3>1, SumEmpty DEF SumOfIndices
    <3> QED BY <1>2, <1>3, <3>2
  <2>2. CASE SumOfNames(D)
    <3>1. C = D
      BY <1>2, <1>9, <2>2, SignaturesTell DEF SumOfNames
    <3>2. \A i \in C : Gain[i] = Narrow(bytes)[i] - Narrow(atSample)[i]
      <4> SUFFICES ASSUME NEW i \in C PROVE Gain[i] = Narrow(bytes)[i] - Narrow(atSample)[i]
        OBVIOUS
      <4>1. bytes[i] \in Nat /\ atSample[i] \in Nat /\ i \in Interfaces
        BY <1>1, <1>4 DEF CollectorTypes, Counters
      <4>2. bytes[i] \div Width = atSample[i] \div Width /\ Width \in Nat /\ Width > 0
        BY <1>1, <1>3, <1>9, CountersAre
      <4>3. bytes[i] - atSample[i] = (bytes[i] % Width) - (atSample[i] % Width)
        BY <4>1, <4>2, NarrowGain
      <4> QED BY <4>1, <4>3 DEF Gain, Narrow
    <3>3. Sum(Gain, C) = Sum(Narrow(bytes), C) - Sum(Narrow(atSample), C)
      BY <1>1, <1>4, <3>2, CountersAre, SumDifference
    <3> QED BY <1>2, <1>3, <1>9, <2>2, <3>1, <3>3 DEF SumOfNames
  <2> QED BY <1>5, <1>9, <2>1, <2>2
<1> QED BY <1>1, <1>7, <1>8, <1>9 DEF SumOfCovered, C

LEMMA SampleTaken ==
  ASSUME CollectorInv, NEW reading \in Readings, TakeNetworkSample(reading)
  PROVE  CollectorTypes' /\ SampleIsASum'
<1>1. CollectorTypes /\ SumOfCovered(reading)
  BY ReadingsAreSums DEF CollectorInv
<1>2. /\ previousNetwork' = [taken |-> TRUE, total |-> reading.total, signature |-> reading.signature]
      /\ cache' = reading.cache /\ atSample' = bytes /\ disturbed' = {}
      /\ UNCHANGED <<platform, interface, bytes>>
  BY DEF TakeNetworkSample
<1>3. CollectorTypes'
  BY <1>1, <1>2 DEF CollectorTypes, SumOfCovered
<1> DEFINE C == reading.covers
<1>4. Present' = Present /\ C \in SUBSET Interfaces
  BY <1>1, <1>2 DEF Present, SumOfCovered
<1>5. previousNetwork'.total = reading.total /\ previousNetwork'.signature = reading.signature
  BY <1>2
<1>6. IF platform' = "linux" THEN SumOfTable(C)' ELSE SumOfIndices(C)' \/ SumOfNames(C)'
  <2>1. CASE platform = "linux"
    <3>1. C = Present /\ reading.signature = {} /\ reading.total = Sum(bytes, C)
      BY <1>1, <2>1 DEF SumOfCovered
    <3> QED BY <1>2, <1>4, <1>5, <2>1, <3>1 DEF SumOfTable
  <2>2. CASE platform # "linux" /\ reading.signature = ByIndex(C) /\ reading.total = Sum(bytes, C)
    BY <1>2, <1>5, <2>2 DEF SumOfIndices
  <2>3. CASE platform # "linux" /\ reading.signature = ByName(C) /\ reading.total = Sum(Narrow(bytes), C)
    BY <1>2, <1>5, <2>3 DEF SumOfNames
  <2> QED BY <1>1, <2>1, <2>2, <2>3 DEF SumOfCovered
<1> QED BY <1>3, <1>4, <1>6 DEF SampleIsASum

LEMMA CollectorStep == CollectorInv /\ CollectorNext => CollectorInv'
<1> SUFFICES ASSUME CollectorInv, CollectorNext PROVE CollectorInv'
  OBVIOUS
<1>1. ASSUME NEW i \in Interfaces, Traffic(i) PROVE CollectorInv'
  <2>1. /\ bytes[i] < MaxBytes /\ bytes' = [bytes EXCEPT ![i] = @ + 1]
        /\ UNCHANGED <<platform, interface, cache, previousNetwork, rate, atSample, disturbed, actual>>
    BY <1>1 DEF Traffic
  <2>2. bytes' \in Counters
    <3>1. bytes[i] + 1 \in 0..MaxBytes
      BY <2>1, CollectorAssumption DEF CollectorInv, CollectorTypes, Counters
    <3> QED BY <2>1, <3>1 DEF CollectorInv, CollectorTypes, Counters
  <2>3. Present' = Present
    BY <2>1 DEF Present
  <2>4. \A C : SumOfTable(C)' = SumOfTable(C) /\ SumOfIndices(C)' = SumOfIndices(C)
               /\ SumOfNames(C)' = SumOfNames(C)
    BY <2>1, <2>3 DEF SumOfTable, SumOfIndices, SumOfNames
  <2> QED BY <2>1, <2>2, <2>4 DEF CollectorInv, CollectorTypes, SampleIsASum, RatesAreReal
<1>2. ASSUME NEW i \in Interfaces, InterfaceChanges(i) PROVE CollectorInv'
  <2>1. PICK state \in Links :
          /\ interface' = [interface EXCEPT ![i] = state]
          /\ IF "absent" \in {state, interface[i]}
               THEN bytes' = [bytes EXCEPT ![i] = 0] /\ disturbed' = disturbed \cup {i}
               ELSE UNCHANGED <<bytes, disturbed>>
    BY <1>2 DEF InterfaceChanges
  <2>2. UNCHANGED <<platform, cache, previousNetwork, rate, atSample, actual>>
    BY <1>2 DEF InterfaceChanges
  <2>3. CollectorTypes'
    <3>1. bytes' \in Counters /\ disturbed' \subseteq Interfaces
      <4>1. 0 \in 0..MaxBytes
        BY CollectorAssumption
      <4> QED BY <2>1, <4>1 DEF CollectorInv, CollectorTypes, Counters
    <3> QED BY <2>1, <2>2, <3>1 DEF CollectorInv, CollectorTypes
  <2>4. Present' \ disturbed' = Present \ disturbed'  /\ disturbed \subseteq disturbed'
    <3>1. \A j \in Interfaces : interface'[j] = IF j = i THEN state ELSE interface[j]
      BY <2>1 DEF CollectorInv, CollectorTypes
    <3>2. CASE "absent" \in {state, interface[i]}
      BY <2>1, <3>1, <3>2 DEF Present
    <3>3. CASE "absent" \notin {state, interface[i]}
      BY <2>1, <3>1, <3>3 DEF Present
    <3> QED BY <3>2, <3>3
  <2>5. \A C : /\ SumOfTable(C) => SumOfTable(C)'
               /\ SumOfIndices(C) => SumOfIndices(C)'
               /\ SumOfNames(C) => SumOfNames(C)'
    BY <2>2, <2>4 DEF SumOfTable, SumOfIndices, SumOfNames
  <2>6. SampleIsASum'
    <3> SUFFICES ASSUME previousNetwork.taken
                 PROVE  \E C \in SUBSET Interfaces :
                          IF platform = "linux" THEN SumOfTable(C)'
                          ELSE SumOfIndices(C)' \/ SumOfNames(C)'
      BY <2>2 DEF SampleIsASum
    <3> QED BY <2>5 DEF CollectorInv, SampleIsASum
  <2> QED BY <2>2, <2>3, <2>6 DEF CollectorInv, RatesAreReal
<1>3. CASE CollectSnapshot
  <2>1. PICK reading \in Readings :
          /\ TakeNetworkSample(reading)
          /\ rate' = Rate(previousNetwork, reading) /\ actual' = Arrived(reading)
    BY <1>3 DEF CollectSnapshot
  <2>2. RatesAreReal'
    BY <2>1, RateIsReal DEF RatesAreReal
  <2> QED BY <2>1, <2>2, SampleTaken DEF CollectorInv
<1>4. CASE SnapshotFails
  <2>1. PICK reading \in Readings : TakeNetworkSample(reading) /\ rate' = NoRate
    BY <1>4 DEF SnapshotFails
  <2>2. RatesAreReal'
    BY <2>1 DEF RatesAreReal
  <2> QED BY <2>1, <2>2, SampleTaken DEF CollectorInv
<1> QED BY <1>1, <1>2, <1>3, <1>4 DEF CollectorNext

LEMMA InitCollector == Init => CollectorInv
<1> SUFFICES ASSUME CollectorInit PROVE CollectorInv
  BY DEF Init
<1>1. CollectorTypes
  <2>1. 0 \in 0..MaxBytes /\ bytes = [i \in Interfaces |-> 0] /\ atSample = bytes
    BY CollectorAssumption DEF CollectorInit
  <2>2. bytes \in Counters /\ atSample \in Counters
    BY <2>1 DEF Counters
  <2> QED BY <2>2 DEF CollectorInit, CollectorTypes, Links, EmptyCache
<1>2. SampleIsASum /\ RatesAreReal
  BY DEF CollectorInit, SampleIsASum, RatesAreReal, NoSample
<1> QED BY <1>1, <1>2 DEF CollectorInv

LEMMA CollectorInvariant == Spec => []CollectorInv
<1>1. CollectorInv /\ [Next]_vars => CollectorInv'
  <2> SUFFICES ASSUME CollectorInv, [Next]_vars PROVE CollectorInv'
    OBVIOUS
  <2>1. CASE UNCHANGED collectorVars
    <3>1. Present' = Present
      BY <2>1 DEF collectorVars, Present
    <3>2. \A C : SumOfTable(C)' = SumOfTable(C) /\ SumOfIndices(C)' = SumOfIndices(C)
                 /\ SumOfNames(C)' = SumOfNames(C)
      BY <2>1, <3>1 DEF collectorVars, SumOfTable, SumOfIndices, SumOfNames
    <3> QED BY <2>1, <3>2 DEF collectorVars, CollectorInv, CollectorTypes, SampleIsASum, RatesAreReal
  <2> QED BY <2>1, CollectorSteps, CollectorStep
<1> QED BY <1>1, InitCollector, PTL DEF Spec

\* A network rate that is reported is the traffic of the interfaces it is about, for any
\* set of interfaces, any width of the narrow counters and any sequence of changes and
\* failed calls; only counters that started anew or wrapped, and on Linux interfaces that
\* came or went, can distort it (collector_linux.rs, collector_macos.rs).
THEOREM RatesAreTraffic == Spec => []RatesAreReal
<1>1. CollectorInv => RatesAreReal
  BY DEF CollectorInv
<1> QED BY <1>1, CollectorInvariant, PTL


(***************************************************************************)
(* Reports.                                                                *)
(***************************************************************************)

\* What the recursive function inside of the fold of sanitize_snapshot is.
Start == [disks |-> <<>>, seen |-> {}, anomalies |-> 0]
Before(s) == s \ {Max(s)}
IsRun(d, S, g) ==
  g = [s \in SUBSET S |-> IF s = {} THEN Start ELSE AddDisk(g[Before(s)], d[Max(s)])]
Run(d, S) == CHOOSE g : IsRun(d, S, g)

LEMMA FoldIsRun == \A d : FoldLeft(AddDisk, Start, d) = Run(d, DOMAIN d)[DOMAIN d]
BY Zenon DEF FoldLeft, MapThenFoldSet, IsRun, Run, Before

LEMMA BeforeIn ==
  ASSUME NEW n \in Nat
  PROVE  \A s \in SUBSET (1..n) : s # {} => /\ Max(s) \in s /\ Before(s) \in SUBSET s
                                            /\ Before(s) # s
<1> SUFFICES ASSUME NEW s \in SUBSET (1..n), s # {}
             PROVE  Max(s) \in s /\ Before(s) \in SUBSET s /\ Before(s) # s
  OBVIOUS
<1>1. s \in SUBSET (0..n)
  OBVIOUS
<1>2. Max(s) \in s
  BY <1>1, MaxExists
<1> QED BY <1>2 DEF Before

LEMMA RunsAgree ==
  ASSUME NEW n \in Nat, NEW S \in SUBSET (1..n), NEW T \in SUBSET S, NEW d, NEW g, NEW h,
         IsRun(d, S, g), IsRun(d, T, h)
  PROVE  \A s \in SUBSET T : g[s] = h[s]
<1> DEFINE Good == {s \in SUBSET T : g[s] = h[s]}
<1>1. ASSUME NEW s \in SUBSET T, \A t \in SUBSET s : t # s => t \in Good
      PROVE  s \in Good
  <2>1. CASE s = {}
    <3>1. g[s] = Start /\ h[s] = Start
      BY <2>1 DEF IsRun
    <3> QED BY <3>1
  <2>2. CASE s # {}
    <3>1. g[Before(s)] = h[Before(s)]
      BY <1>1, <2>2, BeforeIn
    <3>2. g[s] = AddDisk(g[Before(s)], d[Max(s)])
      BY <2>2 DEF IsRun
    <3>3. h[s] = AddDisk(h[Before(s)], d[Max(s)])
      BY <2>2 DEF IsRun
    <3> QED BY <3>1, <3>2, <3>3
  <2> QED BY <2>1, <2>2
<1>2. IsFiniteSet(T)
  <2>1. IsFiniteSet(1..n) /\ T \subseteq 1..n
    BY FS_Interval
  <2> QED BY <2>1, FS_Subset
<1>3. \A s \in SUBSET T : s \in Good
  <2> HIDE DEF Good
  <2> QED BY <1>1, <1>2, SubsetInduction
<1> QED BY <1>3

LEMMA RunExists ==
  ASSUME NEW n \in Nat, NEW S \in SUBSET (1..n), NEW d
  PROVE  IsRun(d, S, Run(d, S))
<1> DEFINE Good == {s \in SUBSET S : \E g : IsRun(d, s, g)}
<1>1. ASSUME NEW s \in SUBSET S, \A t \in SUBSET s : t # s => t \in Good
      PROVE  s \in Good
  <2> DEFINE Part(t) == Run(d, t)[t]
             Value(t) == IF t = {} THEN Start ELSE AddDisk(Part(Before(t)), d[Max(t)])
             g == [t \in SUBSET s |-> Value(t)]
  <2>0. \A t \in SUBSET s : t \in SUBSET (1..n)
    OBVIOUS
  <2>1. ASSUME NEW t \in SUBSET s, t # s PROVE IsRun(d, t, Run(d, t))
    BY <1>1, <2>1 DEF Run
  <2>2. ASSUME NEW t \in SUBSET s, t # s PROVE Part(t) = Value(t)
    <3>1. CASE t = {}
      BY <2>1, <2>2, <3>1 DEF IsRun
    <3>2. CASE t # {}
      <4>1. Run(d, t)[t] = AddDisk(Run(d, t)[Before(t)], d[Max(t)])
        BY <2>1, <2>2, <3>2 DEF IsRun
      <4>2. Before(t) \in SUBSET t /\ Before(t) \in SUBSET s /\ Before(t) # s
        BY <2>0, <2>2, <3>2, BeforeIn
      <4>3. IsRun(d, Before(t), Run(d, Before(t)))
        BY <2>1, <4>2
      <4>4. \A r \in SUBSET Before(t) : Run(d, t)[r] = Run(d, Before(t))[r]
        <5>1. t \in SUBSET (1..n) /\ IsRun(d, t, Run(d, t))
          BY <2>0, <2>1, <2>2
        <5> HIDE DEF Good, Part, Value, g
        <5>2. Before(t) \in SUBSET t
          BY <4>2
        <5>3. \A r \in SUBSET Before(t) : Run(d, t)[r] = Run(d, Before(t))[r]
          BY <4>3, <5>1, <5>2, RunsAgree, SMT
        <5> QED BY <5>3
      <4>5. Run(d, t)[Before(t)] = Part(Before(t))
        BY <4>4
      <4> QED BY <3>2, <4>1, <4>5
    <3> QED BY <3>1, <3>2
  <2>3. \A t \in SUBSET s : t # {} => g[Before(t)] = Part(Before(t))
    <3> SUFFICES ASSUME NEW t \in SUBSET s, t # {} PROVE g[Before(t)] = Part(Before(t))
      OBVIOUS
    <3>1. Before(t) \in SUBSET s /\ Before(t) # s
      <4>1. t \in SUBSET (1..n)
        BY <2>0
      <4>2. Before(t) \in SUBSET t /\ Before(t) # t
        BY <4>1, BeforeIn
      <4> QED BY <4>2
    <3>2. Part(Before(t)) = Value(Before(t))
      BY <2>2, <3>1
    <3> HIDE DEF Part, Value
    <3> QED BY <3>1, <3>2
  <2>4. IsRun(d, s, g)
    <3> DEFINE h == [t \in SUBSET s |-> IF t = {} THEN Start ELSE AddDisk(g[Before(t)], d[Max(t)])]
    <3>1. \A t \in SUBSET s : h[t] = g[t]
      <4> HIDE DEF Part
      <4>1. \A t \in SUBSET s : t # {} => /\ h[t] = AddDisk(g[Before(t)], d[Max(t)])
                                          /\ g[t] = AddDisk(Part(Before(t)), d[Max(t)])
        BY DEF Value
      <4>2. \A t \in SUBSET s : t = {} => h[t] = Start /\ g[t] = Start
        BY DEF Value
      <4> HIDE DEF g, h, Value
      <4> QED BY <2>3, <4>1, <4>2
    <3>2. h = g
      <4> HIDE DEF Value
      <4> QED BY <3>1
    <3> HIDE DEF Value
    <3> QED BY <3>2 DEF IsRun
  <2> HIDE DEF g
  <2> QED BY <2>4
<1>2. IsFiniteSet(S)
  <2>1. IsFiniteSet(1..n)
    BY FS_Interval
  <2> QED BY <2>1, FS_Subset
<1>3. \A s \in SUBSET S : s \in Good
  <2> HIDE DEF Good
  <2> QED BY <1>1, <1>2, SubsetInduction
<1>4. \E g : IsRun(d, S, g)
  BY <1>3
<1> QED BY <1>4 DEF Run

\* The fold takes one disk after the other.
LEMMA FoldBySteps ==
  ASSUME NEW D, NEW d \in Seq(D)
  PROVE  \E f : /\ f[0] = Start /\ f[Len(d)] = FoldLeft(AddDisk, Start, d)
                /\ \A k \in 0..Len(d) - 1 : f[k + 1] = AddDisk(f[k], d[k + 1])
<1> DEFINE n == Len(d)
           g == Run(d, 1..n)
           f == [k \in 0..n |-> g[1..k]]
<1>1. n \in Nat /\ DOMAIN d = 1..n
  OBVIOUS
<1>2. IsRun(d, 1..n, g)
  <2> HIDE DEF n
  <2> QED BY <1>1, RunExists
<1>3. FoldLeft(AddDisk, Start, d) = g[1..n]
  BY <1>1, FoldIsRun, Zenon
<1> HIDE DEF n, g
<1>4. g[{}] = Start
  BY <1>2 DEF IsRun
<1>5. ASSUME NEW k \in 0..n - 1 PROVE g[1..k + 1] = AddDisk(g[1..k], d[k + 1])
  <2> DEFINE s == 1..k + 1
  <2>0. k \in Nat /\ k + 1 \in Nat /\ k + 1 <= n /\ n \in Nat
    BY <1>1
  <2>1. /\ s \in SUBSET (1..n) /\ s \in SUBSET (0..n) /\ k + 1 \in s
        /\ \A i \in s : i <= k + 1 /\ i \in Nat
    BY <2>0
  <2>2. s \ {k + 1} = 1..k
    BY <1>1
  <2> HIDE DEF s
  <2>3. Max(s) \in s /\ \A i \in s : i <= Max(s)
    BY <2>0, <2>1, MaxExists
  <2>4. Max(s) = k + 1
    <3>1. Max(s) \in Nat /\ Max(s) <= k + 1
      BY <2>1, <2>3
    <3>2. k + 1 <= Max(s)
      BY <2>1, <2>3
    <3> QED BY <2>0, <3>1, <3>2
  <2>5. g[s] = AddDisk(g[Before(s)], d[Max(s)])
    BY <1>2, <2>1 DEF IsRun
  <2>6. Before(s) = 1..k
    BY <2>2, <2>4 DEF Before
  <2> QED BY <2>4, <2>5, <2>6 DEF s
<1>6. f[0] = Start /\ f[n] = g[1..n]
  <2>1. 1..0 = {} /\ 0 \in 0..n /\ n \in 0..n
    BY <1>1
  <2> QED BY <1>4, <2>1
<1>7. \A k \in 0..n - 1 : f[k + 1] = AddDisk(f[k], d[k + 1])
  BY <1>1, <1>5
<1> HIDE DEF f
<1> QED BY <1>3, <1>6, <1>7 DEF n


\* The disks of a report, as records of numbers.
DiskRecords ==
  [device : Nat, point : Nat, total : Nat, available : Nat, used : Nat, hidden : BOOLEAN]
MemoryRecords == [total : Nat, available : Nat, used : Nat, swap : Nat, swapUsed : Nat]
Fits(n) == n.used + n.available <= n.total
Identity(d) == <<d.device, d.total>>

\* A disk whose names nobody has to cut.
Named(d) == d.device # 0 /\ d.point # 0 /\ ~TooLong(d.device) /\ ~TooLong(d.point)
Plain(d) == d.device # 0 /\ d.device % 3 = 0 /\ d.point # 0 /\ d.point % 3 = 0

LEMMA LeastIs == \A a, b \in Nat : Least(a, b) \in Nat /\ Least(a, b) <= b
                                   /\ (a <= b => Least(a, b) = a)
BY DEF Least

LEMMA LessIs == \A a, b \in Nat : Less(a, b) \in Nat /\ Less(a, b) <= a
                                  /\ (b <= a => Less(a, b) + b = a)
BY DEF Less

LEMMA NameIs ==
  ASSUME NEW n \in Nat
  PROVE  /\ Cut(Trimmed(n)) \in Nat /\ ~TooLong(Cut(Trimmed(n)))
         /\ Trimmed(n) # 0 => Cut(Trimmed(n)) # 0
         /\ n % 3 = 0 => Trimmed(n) = n /\ Cut(n) = n /\ ~TooLong(n)
<1>1. /\ n % 3 \in {0, 1, 2}
      /\ n % 3 = 1 => n # 0 /\ (n - 1) % 3 = 0
      /\ n % 3 = 2 => (n + 1) % 3 = 0
  OBVIOUS
<1>2. /\ n % 3 = 0 => Trimmed(n) = n
      /\ n % 3 = 1 => Trimmed(n) = n - 1
      /\ n % 3 = 2 => Trimmed(n) = n
  BY DEF Trimmed
<1> QED BY <1>1, <1>2 DEF Cut, TooLong

LEMMA DiskSanitized ==
  ASSUME NEW d \in DiskRecords
  PROVE  /\ SanitizeDisk(d) \in DiskRecords /\ Fits(SanitizeDisk(d))
         /\ SanitizeDisk(d).hidden = d.hidden
         /\ ~Blank(d) => Named(SanitizeDisk(d))
         /\ Fits(d) /\ Plain(d) => SanitizeDisk(d) = d /\ Repairs(d) = 0 /\ ~Blank(d)
<1> DEFINE used == Least(d.used, d.total)
           available == Least(d.available, d.total)
           newUsed == IF used + available > d.total THEN d.total - available ELSE used
           device == Cut(Trimmed(d.device))
           point == Cut(Trimmed(d.point))
<1>1. /\ d.total \in Nat /\ d.available \in Nat /\ d.used \in Nat
      /\ d.device \in Nat /\ d.point \in Nat /\ d.hidden \in BOOLEAN
  BY DEF DiskRecords
<1>2. /\ used \in Nat /\ used <= d.total /\ available \in Nat /\ available <= d.total
      /\ d.used <= d.total => used = d.used
      /\ d.available <= d.total => available = d.available
  BY <1>1, LeastIs
<1>3. SanitizeDisk(d) = [d EXCEPT !.device = device, !.point = point,
                                  !.available = available, !.used = newUsed]
  BY DEF SanitizeDisk
<1>4. /\ device \in Nat /\ ~TooLong(device) /\ (Trimmed(d.device) # 0 => device # 0)
      /\ d.device % 3 = 0 => device = d.device /\ Trimmed(d.device) = d.device /\ ~TooLong(d.device)
  BY <1>1, NameIs
<1>5. /\ point \in Nat /\ ~TooLong(point) /\ (Trimmed(d.point) # 0 => point # 0)
      /\ d.point % 3 = 0 => point = d.point /\ Trimmed(d.point) = d.point /\ ~TooLong(d.point)
  BY <1>1, NameIs
<1> HIDE DEF used, available, device, point
<1>6. newUsed \in Nat /\ newUsed + available <= d.total
      /\ (d.used + d.available <= d.total => newUsed = d.used /\ available = d.available)
  BY <1>1, <1>2
<1> HIDE DEF newUsed
<1>7. /\ SanitizeDisk(d) \in DiskRecords
      /\ SanitizeDisk(d).used = newUsed /\ SanitizeDisk(d).available = available
      /\ SanitizeDisk(d).total = d.total /\ SanitizeDisk(d).hidden = d.hidden
      /\ SanitizeDisk(d).device = device /\ SanitizeDisk(d).point = point
  BY <1>2, <1>3, <1>4, <1>5, <1>6 DEF DiskRecords
<1>8. Fits(SanitizeDisk(d))
  BY <1>6, <1>7 DEF Fits
<1>9. ~Blank(d) => Named(SanitizeDisk(d))
  BY <1>4, <1>5, <1>7 DEF Blank, Named
<1>10. ASSUME Fits(d), Plain(d) PROVE SanitizeDisk(d) = d /\ Repairs(d) = 0 /\ ~Blank(d)
  <2>1. newUsed = d.used /\ available = d.available
    BY <1>6, <1>10 DEF Fits
  <2>2. /\ device = d.device /\ point = d.point /\ ~TooLong(d.device) /\ ~TooLong(d.point)
        /\ Trimmed(d.device) # 0 /\ Trimmed(d.point) # 0
    BY <1>4, <1>5, <1>10 DEF Plain
  <2>3. SanitizeDisk(d) = d
    BY <1>3, <2>1, <2>2 DEF DiskRecords
  <2>4. Repairs(d) = 0
    <3>1. Repairs(d) = Once(FALSE) + Once(FALSE)
      BY <2>2, <2>3 DEF Repairs
    <3> QED BY <3>1 DEF Once
  <2> QED BY <2>2, <2>3, <2>4 DEF Blank
<1> QED BY <1>7, <1>8, <1>9, <1>10

LEMMA MemorySanitized ==
  ASSUME NEW m \in MemoryRecords
  PROVE  /\ SanitizeMemory(m) \in MemoryRecords /\ Fits(SanitizeMemory(m))
         /\ SanitizeMemory(m).swapUsed <= SanitizeMemory(m).swap
         /\ Fits(m) /\ m.swapUsed <= m.swap => SanitizeMemory(m) = m
<1> DEFINE used == Least(m.used, m.total)
           available == Least(m.available, m.total)
           left == IF used + available > m.total THEN m.total - used ELSE available
           swapped == Least(m.swapUsed, m.swap)
<1>1. /\ m.total \in Nat /\ m.available \in Nat /\ m.used \in Nat
      /\ m.swap \in Nat /\ m.swapUsed \in Nat
  BY DEF MemoryRecords
<1>2. /\ used \in Nat /\ used <= m.total /\ available \in Nat /\ available <= m.total
      /\ m.used <= m.total => used = m.used
      /\ m.available <= m.total => available = m.available
      /\ swapped \in Nat /\ swapped <= m.swap /\ (m.swapUsed <= m.swap => swapped = m.swapUsed)
  BY <1>1, LeastIs
<1>3. SanitizeMemory(m) = [m EXCEPT !.used = used, !.swapUsed = swapped, !.available = left]
  BY DEF SanitizeMemory
<1> HIDE DEF used, available, swapped
<1>4. left \in Nat /\ used + left <= m.total
      /\ (m.used + m.available <= m.total => used = m.used /\ left = m.available)
  BY <1>1, <1>2
<1> HIDE DEF left
<1>5. /\ SanitizeMemory(m) \in MemoryRecords
      /\ SanitizeMemory(m).used = used /\ SanitizeMemory(m).available = left
      /\ SanitizeMemory(m).total = m.total /\ SanitizeMemory(m).swap = m.swap
      /\ SanitizeMemory(m).swapUsed = swapped
      /\ used = m.used /\ left = m.available /\ swapped = m.swapUsed => SanitizeMemory(m) = m
  BY <1>2, <1>3, <1>4 DEF MemoryRecords
<1> QED BY <1>2, <1>4, <1>5 DEF Fits

\* What the loop over the disks has done when it has taken some.
DoneRecords == [disks : Seq(DiskRecords), seen : SUBSET (Nat \X Nat), anomalies : Nat]
Proper(d) == Fits(d) /\ Named(d) /\ ~d.hidden
Sound(done) ==
  /\ done \in DoneRecords /\ Len(done.disks) <= MaxDisks
  /\ \A i \in 1..Len(done.disks) : Proper(done.disks[i]) /\ Identity(done.disks[i]) \in done.seen
  /\ \A i, j \in 1..Len(done.disks) :
       Identity(done.disks[i]) = Identity(done.disks[j]) => i = j

LEMMA ReportsBounds ==
  /\ MaxDisks \in Nat /\ MaxDisks > 0 /\ AnomalyLimit \in Nat /\ AnomalyLimit > 0
  /\ MaxMounts \in Nat /\ MaxMounts > 0 /\ MaxReportTime \in Nat /\ AnomalyWindow \in Nat
BY ReportsAssumption

LEMMA SoundStart == Sound(Start) /\ Len(Start.disks) = 0
<1>1. Start \in DoneRecords /\ Start.disks = <<>> /\ Len(Start.disks) = 0
  BY DEF Start, DoneRecords
<1> QED BY <1>1, ReportsBounds DEF Sound

LEMMA SoundStep ==
  ASSUME NEW done, Sound(done), NEW d \in DiskRecords
  PROVE  /\ Sound(AddDisk(done, d))
         /\ Len(AddDisk(done, d).disks) <= Len(done.disks) + 1
<1> DEFINE disk == SanitizeDisk(d)
           id == Identity(disk)
           after == AddDisk(done, d)
           full == id \in done.seen \/ Len(done.disks) >= MaxDisks
<1>1. /\ disk \in DiskRecords /\ Fits(disk) /\ disk.hidden = d.hidden
      /\ ~Blank(d) => Named(disk)
      /\ id = <<disk.device, disk.total>>
  BY DiskSanitized DEF Identity
<1>2. id \in Nat \X Nat
  BY <1>1 DEF Identity, DiskRecords
<1>3. /\ done \in DoneRecords /\ done.disks \in Seq(DiskRecords) /\ Len(done.disks) \in Nat
      /\ done.anomalies \in Nat /\ done.seen \in SUBSET (Nat \X Nat)
  BY DEF Sound, DoneRecords
<1>4. Repairs(d) \in Nat
  <2>1. \A c \in BOOLEAN : Once(c) \in Nat
    BY DEF Once
  <2>2. PICK b \in BOOLEAN, c \in BOOLEAN : Repairs(d) = Once(b) + Once(c)
    BY Zenon DEF Repairs
  <2> QED BY <2>1, <2>2
<1>5. after = IF d.hidden THEN done
              ELSE IF Blank(d) THEN [done EXCEPT !.anomalies = @ + 1]
              ELSE IF full
              THEN [done EXCEPT !.anomalies = @ + 1 + Repairs(d), !.seen = @ \cup {id}]
              ELSE [done EXCEPT !.anomalies = @ + Repairs(d), !.seen = @ \cup {id},
                                !.disks = Append(@, disk)]
  BY <1>1, Zenon DEF AddDisk
<1> HIDE DEF after, disk, id, full
<1>6. CASE after.disks = done.disks /\ after \in DoneRecords /\ done.seen \subseteq after.seen
  BY <1>3, <1>6 DEF Sound, after
<1>7. CASE d.hidden
  <2>1. after = done
    BY <1>5, <1>7
  <2> QED BY <1>3, <1>6, <2>1
<1>8. CASE ~d.hidden /\ Blank(d)
  <2>1. after = [done EXCEPT !.anomalies = done.anomalies + 1]
    BY <1>5, <1>8
  <2>2. after.disks = done.disks /\ after \in DoneRecords /\ after.seen = done.seen
    BY <1>3, <2>1 DEF DoneRecords
  <2> QED BY <1>6, <2>2
<1>9. CASE ~d.hidden /\ ~Blank(d) /\ full
  <2>1. after = [done EXCEPT !.anomalies = done.anomalies + 1 + Repairs(d),
                             !.seen = done.seen \cup {id}]
    BY <1>5, <1>9
  <2>2. done.anomalies + 1 + Repairs(d) \in Nat /\ done.seen \cup {id} \in SUBSET (Nat \X Nat)
    BY <1>2, <1>3, <1>4
  <2>3. after.disks = done.disks /\ after \in DoneRecords /\ after.seen = done.seen \cup {id}
    BY <1>3, <2>1, <2>2 DEF DoneRecords
  <2> QED BY <1>6, <2>3
<1>10. CASE ~d.hidden /\ ~Blank(d) /\ ~full
  <2>1. after = [done EXCEPT !.anomalies = done.anomalies + Repairs(d),
                             !.seen = done.seen \cup {id}, !.disks = Append(done.disks, disk)]
    BY <1>5, <1>10
  <2>2. done.anomalies + Repairs(d) \in Nat /\ done.seen \cup {id} \in SUBSET (Nat \X Nat)
    BY <1>2, <1>3, <1>4
  <2>3. /\ Append(done.disks, disk) \in Seq(DiskRecords)
        /\ Len(Append(done.disks, disk)) = Len(done.disks) + 1
        /\ \A i \in 1..Len(done.disks) : Append(done.disks, disk)[i] = done.disks[i]
        /\ Append(done.disks, disk)[Len(done.disks) + 1] = disk
    BY <1>1, <1>3
  <2>4. after.disks = Append(done.disks, disk) /\ after \in DoneRecords
        /\ after.seen = done.seen \cup {id}
    BY <1>3, <2>1, <2>2, <2>3 DEF DoneRecords
  <2> DEFINE n == Len(done.disks)
  <2>5. /\ Len(after.disks) = n + 1 /\ n \in Nat /\ after.disks[n + 1] = disk
        /\ \A i \in 1..n : after.disks[i] = done.disks[i]
    BY <1>3, <2>3, <2>4
  <2>6. n < MaxDisks /\ id \notin done.seen
    BY <1>3, <1>10, ReportsBounds DEF full
  <2>7. \A i \in 1..n : Proper(done.disks[i]) /\ Identity(done.disks[i]) \in done.seen
    BY DEF Sound
  <2>8. \A i, j \in 1..n : Identity(done.disks[i]) = Identity(done.disks[j]) => i = j
    BY DEF Sound
  <2>9. Proper(disk) /\ Identity(disk) = id
    BY <1>1, <1>10 DEF Proper, id
  <2> HIDE DEF n
  <2>10. \A i \in 1..n + 1 : i \in 1..n \/ i = n + 1
    BY <2>5
  <2>11. \A i \in 1..n + 1 : Proper(after.disks[i]) /\ Identity(after.disks[i]) \in after.seen
    BY <2>4, <2>5, <2>7, <2>9, <2>10
  <2>12. \A i, j \in 1..n + 1 : Identity(after.disks[i]) = Identity(after.disks[j]) => i = j
    <3>1. \A i \in 1..n : Identity(after.disks[i]) = Identity(done.disks[i])
                           /\ Identity(after.disks[i]) # Identity(after.disks[n + 1])
      BY <2>5, <2>6, <2>7, <2>9
    <3>2. \A i, j \in 1..n : Identity(after.disks[i]) = Identity(after.disks[j]) => i = j
      BY <2>8, <3>1
    <3> QED BY <2>10, <3>1, <3>2
  <2>13. n + 1 <= MaxDisks
    BY <2>5, <2>6, ReportsBounds
  <2> QED BY <2>4, <2>5, <2>11, <2>12, <2>13 DEF Sound, after, n
<1> QED BY <1>7, <1>8, <1>9, <1>10

\* The rows of any report.
LEMMA FoldIsSound ==
  ASSUME NEW d \in Seq(DiskRecords)
  PROVE  Sound(FoldLeft(AddDisk, Start, d)) /\ Len(FoldLeft(AddDisk, Start, d).disks) <= Len(d)
<1>1. PICK f : /\ f[0] = Start /\ f[Len(d)] = FoldLeft(AddDisk, Start, d)
               /\ \A k \in 0..Len(d) - 1 : f[k + 1] = AddDisk(f[k], d[k + 1])
  BY FoldBySteps
<1> DEFINE n == Len(d)
           Good(k) == Sound(f[k]) /\ Len(f[k].disks) <= k
           Bad == {k \in 0..n : ~Good(k)}
<1>2. n \in Nat /\ \A k \in 1..n : d[k] \in DiskRecords
  BY ElementOfSeq
<1>3. Good(0)
  BY <1>1, SoundStart
<1>4. ASSUME NEW k \in 0..n - 1, Good(k) PROVE Good(k + 1)
  <2>1. f[k + 1] = AddDisk(f[k], d[k + 1]) /\ d[k + 1] \in DiskRecords /\ k \in Nat
    BY <1>1, <1>2
  <2>2. Sound(f[k + 1]) /\ Len(f[k + 1].disks) <= Len(f[k].disks) + 1
    BY <1>4, <2>1, SoundStep
  <2>3. Len(f[k].disks) \in Nat /\ Len(f[k + 1].disks) \in Nat
    BY <1>4, <2>2 DEF Sound, DoneRecords
  <2> QED BY <1>4, <2>1, <2>2, <2>3
<1> HIDE DEF Good
<1>5. Bad = {}
  <2> SUFFICES ASSUME Bad # {} PROVE FALSE
    OBVIOUS
  <2>1. Bad \in SUBSET Nat /\ \A k \in Bad : k <= n
    BY <1>2
  <2>2. PICK m \in Bad : \A k \in Bad : m <= k
    BY <2>1, LeastNat
  <2>3. m # 0 /\ m \in 0..n
    BY <1>3, <2>2
  <2>4. m - 1 \in 0..n - 1 /\ m - 1 \in 0..n /\ m - 1 + 1 = m /\ ~(m <= m - 1)
    BY <1>2, <2>3
  <2>5. Good(m - 1)
    BY <2>2, <2>4
  <2>6. Good(m - 1 + 1)
    BY <1>4, <2>4, <2>5
  <2> QED BY <2>2, <2>4, <2>6
<1>6. n \in 0..n
  BY <1>2
<1> QED BY <1>1, <1>5, <1>6 DEF Good


\* The rows of a report that says of no disk more than once, of none too much, and calls
\* all of them by plain names: they are its disks, but for the hidden ones.
LEMMA FoldKeepsOrdinary ==
  ASSUME NEW d \in Seq(DiskRecords), Len(d) <= MaxDisks,
         \A i \in 1..Len(d) : Fits(d[i]) /\ Plain(d[i]),
         \A i, j \in 1..Len(d) : Identity(d[i]) = Identity(d[j]) => i = j
  PROVE  LET done == FoldLeft(AddDisk, Start, d)
         IN done.anomalies = 0 /\ ToSet(done.disks) = {x \in ToSet(d) : ~x.hidden}
<1>1. PICK f : /\ f[0] = Start /\ f[Len(d)] = FoldLeft(AddDisk, Start, d)
               /\ \A k \in 0..Len(d) - 1 : f[k + 1] = AddDisk(f[k], d[k + 1])
  BY FoldBySteps
<1> DEFINE n == Len(d)
           Good(k) == /\ f[k] \in DoneRecords /\ Len(f[k].disks) <= k /\ f[k].anomalies = 0
                      /\ \A i \in 1..Len(f[k].disks) :
                           \E j \in 1..k : f[k].disks[i] = d[j] /\ ~d[j].hidden
                      /\ \A j \in 1..k :
                           ~d[j].hidden => \E i \in 1..Len(f[k].disks) : f[k].disks[i] = d[j]
                      /\ \A x \in f[k].seen : \E i \in 1..k : x = Identity(d[i])
           Bad == {k \in 0..n : ~Good(k)}
<1>2. n \in Nat /\ \A k \in 1..n : d[k] \in DiskRecords
  BY ElementOfSeq
<1>3. Good(0)
  <2>1. Start \in DoneRecords /\ Start.disks = <<>> /\ Len(Start.disks) = 0 /\ Start.anomalies = 0
        /\ Start.seen = {}
    BY DEF Start, DoneRecords
  <2>2. 1..0 = {}
    OBVIOUS
  <2> QED BY <1>1, <2>1, <2>2
<1>4. ASSUME NEW k \in 0..n - 1, Good(k) PROVE Good(k + 1)
  <2> DEFINE e == d[k + 1]
             done == f[k]
             after == f[k + 1]
             m == Len(done.disks)
  <2>1. /\ after = AddDisk(done, e) /\ e \in DiskRecords /\ k \in Nat /\ k + 1 \in 1..n
        /\ k < MaxDisks /\ Fits(e) /\ Plain(e)
    <3>1. k \in Nat /\ k + 1 \in 1..n /\ k < MaxDisks
      BY <1>2, ReportsBounds
    <3>2. Fits(d[k + 1]) /\ Plain(d[k + 1])
      BY <3>1
    <3> QED BY <1>1, <1>2, <3>1, <3>2
  <2>2. SanitizeDisk(e) = e /\ Repairs(e) = 0 /\ ~Blank(e)
    BY <2>1, DiskSanitized
  <2>3. Identity(e) \notin done.seen
    <3>1. ASSUME Identity(e) \in done.seen PROVE FALSE
      <4>1. PICK i \in 1..k : Identity(e) = Identity(d[i])
        BY <1>4, <3>1
      <4>2. i \in 1..n /\ i # k + 1
        BY <1>2, <2>1
      <4> QED BY <2>1, <4>1, <4>2
    <3> QED BY <3>1
  <2>4. /\ done \in DoneRecords /\ m <= k /\ done.anomalies = 0
        /\ \A i \in 1..m : \E j \in 1..k : done.disks[i] = d[j] /\ ~d[j].hidden
        /\ \A j \in 1..k : ~d[j].hidden => \E i \in 1..m : done.disks[i] = d[j]
        /\ \A x \in done.seen : \E i \in 1..k : x = Identity(d[i])
    BY <1>4
  <2>5. 1..k \subseteq 1..k + 1 /\ k + 1 \in 1..k + 1 /\ \A i \in 1..k + 1 : i \in 1..k \/ i = k + 1
    BY <2>1
  <2>6. done.disks \in Seq(DiskRecords) /\ done.seen \in SUBSET (Nat \X Nat) /\ m \in Nat
    BY <2>4 DEF DoneRecords
  <2>7. CASE e.hidden
    <3>1. after = done
      BY <2>1, <2>7 DEF AddDisk
    <3>2. m <= k + 1
      BY <2>1, <2>4, <2>6
    <3>3. /\ \A i \in 1..m : \E j \in 1..k + 1 : done.disks[i] = d[j] /\ ~d[j].hidden
          /\ \A x \in done.seen : \E i \in 1..k + 1 : x = Identity(d[i])
      BY <2>4, <2>5
    <3>4. \A j \in 1..k + 1 : ~d[j].hidden => \E i \in 1..m : done.disks[i] = d[j]
      BY <2>4, <2>5, <2>7
    <3> HIDE DEF done, after
    <3> QED BY <2>4, <3>1, <3>2, <3>3, <3>4 DEF after, done
  <2>8. CASE ~e.hidden
    <3>1. after = [done EXCEPT !.anomalies = 0, !.seen = done.seen \cup {Identity(e)},
                               !.disks = Append(done.disks, e)]
      <4>1. ~(m >= MaxDisks)
        BY <2>1, <2>4, <2>6, ReportsBounds
      <4>2. done.anomalies + Repairs(e) = 0
        BY <2>2, <2>4
      <4> HIDE DEF done, e, after
      <4>3. AddDisk(done, e) =
              [done EXCEPT !.anomalies = done.anomalies + Repairs(e),
                           !.seen = done.seen \cup {Identity(e)}, !.disks = Append(done.disks, e)]
        BY <2>2, <2>3, <2>8, <4>1 DEF AddDisk, Identity
      <4> QED BY <2>1, <4>2, <4>3
    <3> HIDE DEF done, after, m
    <3>2. /\ Append(done.disks, e) \in Seq(DiskRecords) /\ Len(Append(done.disks, e)) = m + 1
          /\ \A i \in 1..m : Append(done.disks, e)[i] = done.disks[i]
          /\ Append(done.disks, e)[m + 1] = e
      BY <2>1, <2>6 DEF m
    <3>3. Identity(e) \in Nat \X Nat
      BY <2>1 DEF Identity, DiskRecords
    <3>4. /\ after \in DoneRecords /\ after.disks = Append(done.disks, e) /\ after.anomalies = 0
          /\ after.seen = done.seen \cup {Identity(e)}
      BY <2>4, <2>6, <3>1, <3>2, <3>3 DEF DoneRecords
    <3>5. /\ 1..m \subseteq 1..m + 1 /\ m + 1 \in 1..m + 1
          /\ \A i \in 1..m + 1 : i \in 1..m \/ i = m + 1
      BY <2>6
    <3>6. Len(after.disks) = m + 1 /\ m + 1 <= k + 1
      BY <2>1, <2>4, <2>6, <3>2, <3>4
    <3>7. \A i \in 1..m + 1 : \E j \in 1..k + 1 : after.disks[i] = d[j] /\ ~d[j].hidden
      BY <2>4, <2>5, <2>8, <3>2, <3>4, <3>5
    <3>8. \A j \in 1..k + 1 : ~d[j].hidden => \E i \in 1..m + 1 : after.disks[i] = d[j]
      BY <2>4, <2>5, <3>2, <3>4, <3>5
    <3>9. \A x \in after.seen : \E i \in 1..k + 1 : x = Identity(d[i])
      BY <2>4, <2>5, <3>4
    <3>10. /\ after \in DoneRecords /\ Len(after.disks) <= k + 1 /\ after.anomalies = 0
           /\ \A i \in 1..Len(after.disks) :
                \E j \in 1..k + 1 : after.disks[i] = d[j] /\ ~d[j].hidden
           /\ \A j \in 1..k + 1 :
                ~d[j].hidden => \E i \in 1..Len(after.disks) : after.disks[i] = d[j]
           /\ \A x \in after.seen : \E i \in 1..k + 1 : x = Identity(d[i])
      BY <3>4, <3>6, <3>7, <3>8, <3>9
    <3> QED BY <3>10 DEF after
  <2> QED BY <2>1, <2>7, <2>8 DEF DiskRecords
<1> HIDE DEF Good
<1>5. Bad = {}
  <2> SUFFICES ASSUME Bad # {} PROVE FALSE
    OBVIOUS
  <2>1. Bad \in SUBSET Nat /\ \A k \in Bad : k <= n
    BY <1>2
  <2>2. PICK m \in Bad : \A k \in Bad : m <= k
    BY <2>1, LeastNat
  <2>3. m # 0 /\ m \in 0..n
    BY <1>3, <2>2
  <2>4. m - 1 \in 0..n - 1 /\ m - 1 \in 0..n /\ m - 1 + 1 = m /\ ~(m <= m - 1)
    BY <1>2, <2>3
  <2>5. Good(m - 1)
    BY <2>2, <2>4
  <2>6. Good(m - 1 + 1)
    BY <1>4, <2>4, <2>5
  <2> QED BY <2>2, <2>4, <2>6
<1>6. Good(n)
  BY <1>2, <1>5
<1> DEFINE rows == f[n].disks
<1>7. ToSet(rows) = {x \in ToSet(d) : ~x.hidden}
  <2>1. /\ \A i \in 1..Len(rows) : \E j \in 1..n : rows[i] = d[j] /\ ~d[j].hidden
        /\ \A j \in 1..n : ~d[j].hidden => \E i \in 1..Len(rows) : rows[i] = d[j]
        /\ rows \in Seq(DiskRecords)
    BY <1>6 DEF Good, DoneRecords
  <2>2. /\ ToSet(rows) = {rows[i] : i \in 1..Len(rows)}
        /\ ToSet(d) = {d[i] : i \in 1..n}
    BY <2>1 DEF ToSet
  <2>3. ASSUME NEW x PROVE x \in ToSet(rows) <=> x \in ToSet(d) /\ ~x.hidden
    <3> HIDE DEF n, rows
    <3>1. ASSUME x \in ToSet(rows) PROVE x \in ToSet(d) /\ ~x.hidden
      <4>1. PICK i \in 1..Len(rows) : x = rows[i]
        BY <2>2, <3>1
      <4>2. PICK j \in 1..n : rows[i] = d[j] /\ ~d[j].hidden
        BY <2>1
      <4> QED BY <2>2, <4>1, <4>2
    <3>2. ASSUME x \in ToSet(d), ~x.hidden PROVE x \in ToSet(rows)
      <4>1. PICK j \in 1..n : x = d[j]
        BY <2>2, <3>2
      <4>2. \E i \in 1..Len(rows) : rows[i] = d[j]
        BY <2>1, <3>2, <4>1
      <4> QED BY <2>2, <4>1, <4>2
    <3> QED BY <3>1, <3>2
  <2> HIDE DEF n, rows
  <2> QED BY <2>3
<1> QED BY <1>1, <1>6, <1>7 DEF Good

Place(T, p, i) == Cardinality({j \in T : p[j] <= p[i]})

\* The places of finitely many different numbers are 1 to their number.
LEMMA PlacesAre ==
  ASSUME NEW T, IsFiniteSet(T), NEW p \in [T -> Nat], \A i, j \in T : p[i] = p[j] => i = j
  PROVE  \A k \in 1..Cardinality(T) : \E i \in T : Place(T, p, i) = k
<1> DEFINE below(i) == {j \in T : p[j] <= p[i]}
           n == Cardinality(T)
           f == [i \in T |-> Cardinality(below(i))]
<1>1. n \in Nat
  BY FS_CardinalityType
<1>2. ASSUME NEW i \in T PROVE IsFiniteSet(below(i)) /\ f[i] \in 1..n
  <2>1. IsFiniteSet(below(i)) /\ Cardinality(below(i)) <= n
    BY FS_Subset
  <2>2. i \in below(i)
    OBVIOUS
  <2>3. Cardinality(below(i)) \in Nat /\ Cardinality(below(i)) # 0
    <3> HIDE DEF below
    <3> QED BY <2>1, <2>2, FS_CardinalityType, FS_EmptySet
  <2> HIDE DEF below
  <2> QED BY <1>1, <2>1, <2>3
<1>3. ASSUME NEW i \in T, NEW j \in T, p[i] < p[j] PROVE f[i] # f[j]
  <2>1. below(i) \subseteq below(j) /\ j \in below(j) /\ j \notin below(i)
    BY <1>3
  <2>2. below(i) # below(j) /\ below(i) \in SUBSET below(j) /\ IsFiniteSet(below(j))
    BY <1>2, <2>1
  <2> HIDE DEF below
  <2>3. Cardinality(below(j)) # Cardinality(below(i))
    BY <2>2, FS_Subset
  <2> QED BY <2>3
<1>4. f \in Injection(T, 1..n)
  <2>1. f \in [T -> 1..n]
    <3>1. \A i \in T : f[i] \in 1..n
      BY <1>2
    <3> HIDE DEF below
    <3> QED BY <3>1
  <2>2. \A i, j \in T : f[i] = f[j] => i = j
    <3> SUFFICES ASSUME NEW i \in T, NEW j \in T, f[i] = f[j] PROVE i = j
      OBVIOUS
    <3>1. p[i] = p[j] \/ p[i] < p[j] \/ p[j] < p[i]
      OBVIOUS
    <3> HIDE DEF f
    <3> QED BY <1>3, <3>1
  <2> HIDE DEF f
  <2> QED BY <2>1, <2>2 DEF Injection, IsInjective
<1>5. IsFiniteSet(1..n) /\ Cardinality(1..n) = n
  <2>1. IsFiniteSet(1..n) /\ Cardinality(1..n) = IF 1 > n THEN 0 ELSE n - 1 + 1
    BY <1>1, FS_Interval
  <2> QED BY <1>1, <2>1
<1>6. f \in Surjection(T, 1..n)
  <2> HIDE DEF f
  <2> QED BY <1>4, <1>5, FS_Injection
<1>7. \A k \in 1..n : \E i \in T : f[i] = k
  <2> HIDE DEF f
  <2> QED BY <1>6 DEF Surjection
<1> QED BY <1>7 DEF Place


\* What a collector may report.
LEMMA CollectedIs ==
  ASSUME NEW h \in Hosts, NEW t \in Tables
  PROVE  LET d == CollectDisks(h, t)
         IN /\ d \in Seq(DiskRecords) /\ Len(d) <= MaxMounts
            /\ \A i \in 1..Len(d) : d[i].available <= d[i].total => Fits(d[i])
            /\ h = "linux" =>
                 \A i, j \in 1..Len(d) : Identity(d[i]) = Identity(d[j]) => i = j
<1> DEFINE same(i, j) == t[i].device = t[j].device /\ t[i].total = t[j].total
           taken == {i \in FirstMounts(t) :
                       h = "linux" => \A j \in FirstMounts(t) : j < i => ~same(i, j)}
           place(i) == Cardinality({j \in taken : t[j].point <= t[i].point})
           disk(i) == [device |-> t[i].device, point |-> t[i].point,
                       total |-> t[i].total, available |-> t[i].available,
                       used |-> Less(t[i].total, t[i].available),
                       hidden |-> t[i].kind = "hidden"]
           n == Cardinality(taken)
           pick(k) == CHOOSE i \in taken : place(i) = k
           d == CollectDisks(h, t)
<1>1. d = [k \in 1..n |-> disk(pick(k))]
  BY Zenon DEF CollectDisks
<1>2. PICK m \in 0..MaxMounts : t \in [1..m -> Mounts]
  BY DEF Tables
<1>3. m \in Nat /\ m <= MaxMounts /\ DOMAIN t = 1..m
  BY <1>2, ReportsBounds
<1>4. \A i \in 1..m : /\ t[i].device \in Nat /\ t[i].point \in Nat /\ t[i].total \in Nat
                      /\ t[i].available \in Nat
  BY <1>2 DEF Mounts
<1>5. taken \subseteq 1..m
  BY <1>3 DEF FirstMounts
<1>6. \A i, j \in taken : t[i].point = t[j].point => i = j
  <2>1. \A i, j \in taken : j < i => t[i].point # t[j].point
    BY <1>3, <1>5 DEF FirstMounts
  <2>2. \A i, j \in taken : i < j \/ j < i \/ i = j
    BY <1>5
  <2> HIDE DEF taken
  <2> QED BY <2>1, <2>2
<1>7. h = "linux" => \A i, j \in taken : same(i, j) => i = j
  <2> SUFFICES ASSUME h = "linux", NEW i \in taken, NEW j \in taken, same(i, j) PROVE i = j
    OBVIOUS
  <2>1. i < j \/ j < i \/ i = j
    BY <1>5
  <2> QED BY <2>1
<1>8. IsFiniteSet(taken) /\ n \in Nat /\ n <= MaxMounts
  <2>1. IsFiniteSet(1..m) /\ Cardinality(1..m) = m
    <3>1. IsFiniteSet(1..m) /\ Cardinality(1..m) = IF 1 > m THEN 0 ELSE m - 1 + 1
      BY <1>3, FS_Interval
    <3> QED BY <1>3, <3>1
  <2>2. IsFiniteSet(taken) /\ n <= Cardinality(1..m)
    <3> HIDE DEF taken
    <3> QED BY <1>5, <2>1, FS_Subset
  <2>3. n \in Nat
    <3> HIDE DEF taken
    <3> QED BY <2>2, FS_CardinalityType
  <2> HIDE DEF n
  <2> QED BY <1>3, <2>1, <2>2, <2>3, ReportsBounds
<1> HIDE DEF taken
<1>9. ASSUME NEW k \in 1..n PROVE pick(k) \in taken /\ place(pick(k)) = k
  <2> DEFINE p == [i \in taken |-> t[i].point]
  <2>1. p \in [taken -> Nat] /\ \A i, j \in taken : p[i] = p[j] => i = j
    BY <1>4, <1>5, <1>6
  <2>2. \E i \in taken : Place(taken, p, i) = k
    <3> HIDE DEF p
    <3>1. IsFiniteSet(taken)
      BY <1>8
    <3>2. \A c \in 1..Cardinality(taken) : \E i \in taken : Place(taken, p, i) = c
      BY <2>1, <3>1, PlacesAre
    <3> QED BY <3>2
  <2>3. \A i \in taken : {j \in taken : p[j] <= p[i]} = {j \in taken : t[j].point <= t[i].point}
    OBVIOUS
  <2>4. \E i \in taken : place(i) = k
    <3> HIDE DEF p
    <3> QED BY <2>2, <2>3 DEF Place
  <2> HIDE DEF place
  <2> QED BY <2>4
<1>10. \A i \in taken : /\ disk(i) \in DiskRecords
                        /\ disk(i).available <= disk(i).total => Fits(disk(i))
                        /\ Identity(disk(i)) = <<t[i].device, t[i].total>>
  <2> SUFFICES ASSUME NEW i \in taken
               PROVE  /\ disk(i) \in DiskRecords
                      /\ disk(i).available <= disk(i).total => Fits(disk(i))
                      /\ Identity(disk(i)) = <<t[i].device, t[i].total>>
    OBVIOUS
  <2> DEFINE used == Less(t[i].total, t[i].available)
             hidden == t[i].kind = "hidden"
  <2>1. /\ t[i].device \in Nat /\ t[i].point \in Nat /\ t[i].total \in Nat
        /\ t[i].available \in Nat
    BY <1>4, <1>5
  <2>2. /\ used \in Nat
        /\ t[i].available <= t[i].total => used + t[i].available <= t[i].total
    <3> DEFINE total == t[i].total
               available == t[i].available
    <3>1. total \in Nat /\ available \in Nat
      BY <2>1
    <3> HIDE DEF total, available
    <3>2. /\ Less(total, available) \in Nat
          /\ available <= total => Less(total, available) + available <= total
      BY <3>1, LessIs
    <3> QED BY <3>2 DEF total, available
  <2>3. hidden \in BOOLEAN
    OBVIOUS
  <2> HIDE DEF used, hidden
  <2> QED BY <2>1, <2>2, <2>3 DEF DiskRecords, Fits, Identity, used, hidden
<1> HIDE DEF pick, place, disk
<1>11. \A k \in 1..n : d[k] = disk(pick(k)) /\ pick(k) \in taken
  <2> HIDE DEF n, d
  <2> QED BY <1>1, <1>9
<1>12. d \in Seq(DiskRecords) /\ Len(d) = n
  <2>1. \A k \in 1..n : disk(pick(k)) \in DiskRecords
    BY <1>9, <1>10
  <2> HIDE DEF n, d
  <2>2. d \in [1..n -> DiskRecords]
    BY <1>1, <2>1
  <2> QED BY <1>8, <2>2, SeqDef, LenProperties
<1>13. \A i \in 1..n : d[i].available <= d[i].total => Fits(d[i])
  <2> HIDE DEF n, d
  <2> QED BY <1>10, <1>11
<1>14. ASSUME h = "linux", NEW i \in 1..n, NEW j \in 1..n, Identity(d[i]) = Identity(d[j])
       PROVE  i = j
  <2>1. <<t[pick(i)].device, t[pick(i)].total>> = <<t[pick(j)].device, t[pick(j)].total>>
    BY <1>10, <1>11, <1>14
  <2>2. same(pick(i), pick(j))
    BY <2>1
  <2>3. pick(i) = pick(j)
    <3> HIDE DEF same
    <3> QED BY <1>7, <1>11, <1>14, <2>2
  <2> QED BY <1>9, <2>3
<1> HIDE DEF d, n
<1> QED BY <1>8, <1>12, <1>13, <1>14 DEF d

LEMMA MemoryReadIs ==
  ASSUME NEW h, NEW k \in Kernels
  PROVE  LET m == MemoryRead(h, k)
         IN /\ m \in MemoryRecords /\ m.swapUsed <= m.swap
            /\ m.available <= m.total => Fits(m)
<1> DEFINE available == IF h = "macos" THEN Least(k.available, k.total) ELSE k.available
           used == Less(k.total, available)
           swapUsed == Less(k.swap, k.swapFree)
<1>1. k.total \in Nat /\ k.available \in Nat /\ k.swap \in Nat /\ k.swapFree \in Nat
  BY DEF Kernels
<1>2. available \in Nat
  BY <1>1, LeastIs
<1>3. MemoryRead(h, k) = [total |-> k.total, available |-> available, used |-> used,
                          swap |-> k.swap, swapUsed |-> swapUsed]
  BY DEF MemoryRead
<1> HIDE DEF available
<1>4. /\ used \in Nat /\ (available <= k.total => used + available <= k.total)
      /\ swapUsed \in Nat /\ swapUsed <= k.swap
  <2> DEFINE total == k.total
             swap == k.swap
             free == k.swapFree
  <2>1. total \in Nat /\ swap \in Nat /\ free \in Nat
    BY <1>1
  <2> HIDE DEF total, swap, free
  <2>2. /\ Less(total, available) \in Nat
        /\ available <= total => Less(total, available) + available <= total
    BY <1>2, <2>1, LessIs
  <2>3. Less(swap, free) \in Nat /\ Less(swap, free) <= swap
    BY <2>1, LessIs
  <2> QED BY <2>2, <2>3 DEF total, swap, free
<1> HIDE DEF used, swapUsed
<1> QED BY <1>1, <1>2, <1>3, <1>4 DEF MemoryRecords, Fits

ReportRecords == [memory : MemoryRecords, disks : Seq(DiskRecords), strange : BOOLEAN]

\* What any host may report.
LEMMA ReportableIs ==
  ASSUME NEW h \in Hosts, NEW report \in Reportable[h]
  PROVE  /\ report \in ReportRecords
         /\ h # "any" => Len(report.disks) <= MaxMounts
         /\ h = "linux" =>
              /\ report.memory.swapUsed <= report.memory.swap
              /\ report.memory.available <= report.memory.total => Fits(report.memory)
              /\ \A i \in 1..Len(report.disks) :
                   report.disks[i].available <= report.disks[i].total => Fits(report.disks[i])
              /\ \A i, j \in 1..Len(report.disks) :
                   Identity(report.disks[i]) = Identity(report.disks[j]) => i = j
<1> DEFINE memories == IF h = "any" THEN Memories ELSE {MemoryRead(h, k) : k \in Kernels}
           faulty == UNION {[1..n -> WrongDisks] \cup [1..n -> OddDisks] : n \in 1..2}
           tables == IF h = "any" THEN faulty ELSE {CollectDisks(h, t) : t \in Tables}
<1>1. report \in [memory : memories, disks : {<<>>}, strange : BOOLEAN]
                   \cup [memory : {UsualMemory}, disks : tables, strange : {FALSE}]
  BY DEF Reportable
<1> DEFINE Usual(m) == /\ m \in MemoryRecords
                       /\ h = "linux" => /\ m.swapUsed <= m.swap
                                         /\ m.available <= m.total => Fits(m)
<1>2. Usual(UsualMemory)
  <2>1. [total |-> 2, available |-> 1, swap |-> 1, swapFree |-> 0] \in Kernels
    BY DEF Kernels
  <2> QED BY <2>1, MemoryReadIs DEF UsualMemory
<1>3. \A m \in memories : Usual(m)
  <2>1. CASE h = "any"
    <3>1. Memories \subseteq MemoryRecords
      BY DEF Memories, Sizes, MemoryRecords
    <3> QED BY <2>1, <3>1
  <2>2. CASE h # "any"
    BY <2>2, MemoryReadIs
  <2> QED BY <2>1, <2>2
<1> DEFINE Few(d) == /\ d \in Seq(DiskRecords) /\ (h # "any" => Len(d) <= MaxMounts)
                     /\ h = "linux" =>
                          /\ \A i \in 1..Len(d) : d[i].available <= d[i].total => Fits(d[i])
                          /\ \A i, j \in 1..Len(d) : Identity(d[i]) = Identity(d[j]) => i = j
<1>4. Few(<<>>)
  <2>1. <<>> \in Seq(DiskRecords) /\ Len(<<>>) = 0 /\ 1..0 = {}
    OBVIOUS
  <2> QED BY <2>1, ReportsBounds
<1>5. \A d \in tables : Few(d)
  <2>1. CASE h = "any"
    <3>1. WrongDisks \subseteq DiskRecords /\ OddDisks \subseteq DiskRecords
      <4> DEFINE Shown == {FALSE}
      <4>1. Shown \subseteq BOOLEAN
        OBVIOUS
      <4>2. WrongDisks = [device : {3, 6}, point : {3}, total : {2}, available : Sizes,
                          used : Sizes, hidden : Shown]
        BY Zenon DEF WrongDisks
      <4> HIDE DEF Shown
      <4>3. WrongDisks \subseteq DiskRecords
        BY <4>1, <4>2 DEF Sizes, DiskRecords
      <4>4. OddDisks \subseteq DiskRecords
        BY DEF OddDisks, DiskRecords
      <4> QED BY <4>3, <4>4
    <3>2. ASSUME NEW n \in 1..2, NEW d \in [1..n -> WrongDisks] \cup [1..n -> OddDisks]
          PROVE  d \in Seq(DiskRecords)
      <4>1. d \in [1..n -> DiskRecords] /\ n \in Nat
        BY <3>1
      <4> QED BY <4>1, SeqDef
    <3>3. \A d \in faulty : d \in Seq(DiskRecords)
      BY <3>2
    <3> HIDE DEF faulty
    <3> QED BY <2>1, <3>3
  <2>2. CASE h # "any"
    <3>1. \A t \in Tables : Few(CollectDisks(h, t))
      BY CollectedIs
    <3> HIDE DEF Few
    <3> QED BY <2>2, <3>1
  <2> QED BY <2>1, <2>2
<1> HIDE DEF memories, tables
<1>6. report.memory \in memories \cup {UsualMemory} /\ report.disks \in tables \cup {<<>>}
      /\ report.strange \in BOOLEAN
  BY <1>1
<1>7. report = [memory |-> report.memory, disks |-> report.disks, strange |-> report.strange]
  BY <1>1
<1>8. Usual(report.memory) /\ Few(report.disks)
  <2> HIDE DEF Usual, Few
  <2> QED BY <1>2, <1>3, <1>4, <1>5, <1>6
<1>9. report \in ReportRecords
  BY <1>6, <1>7, <1>8 DEF ReportRecords
<1> QED BY <1>8, <1>9

\* What the server makes of it.
LEMMA SanitizedIs ==
  ASSUME NEW h \in Hosts, NEW report \in Reportable[h]
  PROVE  LET row == Sanitized(report).report
         IN /\ Fits(row.memory) /\ row.memory.swapUsed <= row.memory.swap /\ row.strange = FALSE
            /\ row.disks \in Seq(DiskRecords) /\ Len(row.disks) <= MaxDisks
            /\ Len(row.disks) <= Len(report.disks)
            /\ \A i \in 1..Len(row.disks) : Proper(row.disks[i])
            /\ \A i, j \in 1..Len(row.disks) :
                 Identity(row.disks[i]) = Identity(row.disks[j]) => i = j
            /\ Sanitized(report).anomalies \in Nat
            /\ h = "linux" /\ Ordinary(report) =>
                 /\ Sanitized(report).anomalies = 0 /\ row.memory = report.memory
                 /\ ToSet(row.disks) = {d \in ToSet(report.disks) : ~d.hidden}
<1> DEFINE done == FoldLeft(AddDisk, Start, report.disks)
           memory == SanitizeMemory(report.memory)
           repairs == done.anomalies + Once(memory # report.memory) + Once(report.strange)
<1>1. Sanitized(report) =
        [report |-> [memory |-> memory, disks |-> done.disks, strange |-> FALSE],
         anomalies |-> repairs]
  BY Zenon DEF Sanitized, Start
<1>2. /\ report.memory \in MemoryRecords /\ report.disks \in Seq(DiskRecords)
      /\ report.strange \in BOOLEAN
  BY ReportableIs DEF ReportRecords
<1>3. Sound(done) /\ Len(done.disks) <= Len(report.disks)
  BY <1>2, FoldIsSound
<1>4. Fits(memory) /\ memory.swapUsed <= memory.swap
  BY <1>2, MemorySanitized
<1>5. ASSUME h = "linux", Ordinary(report)
      PROVE  /\ done.anomalies = 0 /\ memory = report.memory /\ ~report.strange
             /\ ToSet(done.disks) = {d \in ToSet(report.disks) : ~d.hidden}
  <2> DEFINE d == report.disks
  <2>1. /\ report.memory.swapUsed <= report.memory.swap
        /\ report.memory.available <= report.memory.total => Fits(report.memory)
        /\ \A i \in 1..Len(d) : d[i].available <= d[i].total => Fits(d[i])
        /\ \A i, j \in 1..Len(d) : Identity(d[i]) = Identity(d[j]) => i = j
    BY <1>5, ReportableIs
  <2>2. /\ ~report.strange /\ report.memory.available <= report.memory.total
        /\ Len(d) <= MaxDisks /\ DOMAIN d = 1..Len(d)
        /\ \A i \in DOMAIN d :
             /\ d[i].available <= d[i].total
             /\ \A name \in {d[i].device, d[i].point} : name # 0 /\ name % 3 = 0
    BY <1>2, <1>5 DEF Ordinary
  <2> HIDE DEF d
  <2>3. \A i \in 1..Len(d) : Fits(d[i]) /\ Plain(d[i])
    BY <2>1, <2>2 DEF Plain
  <2>4. d \in Seq(DiskRecords)
    BY <1>2 DEF d
  <2>5. /\ FoldLeft(AddDisk, Start, d).anomalies = 0
        /\ ToSet(FoldLeft(AddDisk, Start, d).disks) = {x \in ToSet(d) : ~x.hidden}
    BY <2>1, <2>2, <2>3, <2>4, FoldKeepsOrdinary
  <2>6. memory = report.memory
    BY <1>2, <2>1, <2>2, MemorySanitized
  <2> QED BY <2>2, <2>5, <2>6 DEF d
<1> HIDE DEF done, memory
<1>6. done.anomalies \in Nat /\ done.disks \in Seq(DiskRecords)
  BY <1>3 DEF Sound, DoneRecords
<1>7. /\ repairs \in Nat
      /\ done.anomalies = 0 /\ memory = report.memory /\ ~report.strange => repairs = 0
  <2>1. \A c \in BOOLEAN : Once(c) \in Nat /\ (~c => Once(c) = 0)
    BY DEF Once
  <2>2. (memory # report.memory) \in BOOLEAN
    OBVIOUS
  <2>3. /\ Once(memory # report.memory) \in Nat /\ Once(report.strange) \in Nat
        /\ memory = report.memory => Once(memory # report.memory) = 0
        /\ ~report.strange => Once(report.strange) = 0
    BY <1>2, <2>1, <2>2
  <2> QED BY <1>6, <2>3
<1> HIDE DEF repairs
<1>8. /\ Sanitized(report).report.memory = memory /\ Sanitized(report).report.disks = done.disks
      /\ Sanitized(report).report.strange = FALSE
      /\ Sanitized(report).anomalies = repairs
  BY <1>1
<1> QED BY <1>3, <1>4, <1>5, <1>6, <1>7, <1>8 DEF Sound


ReportsTypes ==
  /\ host \in Hosts /\ reporting \in BOOLEAN /\ instant \in 0..MaxReportTime
  /\ window \in Seq(0..MaxReportTime) /\ Len(window) <= AnomalyLimit
  /\ reporting <=> Len(window) < AnomalyLimit

RowLengths ==
  /\ host = "any" => Len(kept.disks) <= MaxDisks
  /\ host # "any" => Len(kept.disks) <= MaxMounts
  /\ Len(sent.disks) <= MaxMounts

RowFits ==
  /\ Fits(kept.memory) /\ kept.memory.swapUsed <= kept.memory.swap /\ ~kept.strange
  /\ kept.disks \in Seq(DiskRecords) /\ Len(kept.disks) <= MaxDisks
  /\ \A i \in 1..Len(kept.disks) : Proper(kept.disks[i])
  /\ \A i, j \in 1..Len(kept.disks) :
       Identity(kept.disks[i]) = Identity(kept.disks[j]) => i = j

\* A window w holds the end of the history r of repairs: those that were at most
\* AnomalyWindow old at the last of them.
Recent(w, r, now) ==
  /\ r \in Seq(0..MaxReportTime) /\ Len(w) <= Len(r)
  /\ \A i \in 1..Len(r) : r[i] <= now
  /\ \A i, j \in 1..Len(r) : i <= j => r[i] <= r[j]
  /\ \A i \in 1..Len(w) : w[i] = r[Len(r) - Len(w) + i]
  /\ \A i \in 1..Len(r) - Len(w) : r[Len(r)] - r[i] > AnomalyWindow
  /\ \A i \in 1..Len(w) : r[Len(r)] - w[i] <= AnomalyWindow

\* The inductive invariant of the reports.
ReportsInv ==
  ReportsTypes /\ RowLengths /\ RowFits /\ Recent(window, repaired, instant) /\ OrdinaryReportsPass

LEMMA ReportsSteps == [Next]_vars => ReportsNext \/ UNCHANGED reportVars
BY DEF Next, vars, hostVars, RunAdmission, RunInstall, RunLogin, RunSettings, RunAgent,
       RunCollector, RunReports, RunDelivery

LEMMA NothingRepaired == \A now : Recent(<<>>, <<>>, now)
<1>1. <<>> \in Seq(0..MaxReportTime) /\ Len(<<>>) = 0 /\ 1..0 = {}
  OBVIOUS
<1>2. 0 - 0 = 0
  OBVIOUS
<1> QED BY <1>1, <1>2 DEF Recent

LEMMA InitReports == Init => ReportsInv
<1> SUFFICES ASSUME ReportsInit PROVE ReportsInv
  BY DEF Init
<1>1. /\ NoReport.disks = <<>> /\ Fits(NoReport.memory) /\ ~NoReport.strange
      /\ NoReport.memory.swapUsed <= NoReport.memory.swap
      /\ <<>> \in Seq(DiskRecords) /\ Len(<<>>) = 0 /\ <<>> \in Seq(0..MaxReportTime)
  BY DEF NoReport, Fits
<1>2. kept = NoReport /\ sent = NoReport /\ window = <<>> /\ instant = 0 /\ reporting = TRUE
      /\ host \in Hosts /\ repaired = <<>>
  BY DEF ReportsInit
<1>3. ReportsTypes
  BY <1>1, <1>2, ReportsBounds DEF ReportsTypes
<1>4. RowLengths
  BY <1>1, <1>2, ReportsBounds DEF RowLengths
<1>5. RowFits
  <2>1. kept.disks = <<>> /\ Fits(kept.memory) /\ ~kept.strange
        /\ kept.memory.swapUsed <= kept.memory.swap
    BY <1>1, <1>2
  <2>2. Len(kept.disks) = 0 /\ kept.disks \in Seq(DiskRecords)
    BY <1>1, <2>1
  <2>3. Len(kept.disks) <= MaxDisks
    BY <2>2, ReportsBounds
  <2>4. 1..Len(kept.disks) = {}
    BY <2>2
  <2> QED BY <2>1, <2>2, <2>3, <2>4 DEF RowFits
<1> QED BY <1>2, <1>3, <1>4, <1>5, NothingRepaired DEF ReportsInv, OrdinaryReportsPass

\* What is too old leaves the window, and one anomaly more enters it.
LEMMA WindowIs ==
  ASSUME ReportsTypes, Recent(window, repaired, instant), reporting
  PROVE  /\ WindowWith(instant) \in Seq(0..MaxReportTime)
         /\ Len(WindowWith(instant)) <= AnomalyLimit
         /\ Recent(WindowWith(instant), Append(repaired, instant), instant)
<1> DEFINE n == Len(window)
           old == {k \in 0..n : \A i \in 1..k : instant - window[i] > AnomalyWindow}
           m == Max(old)
           rest == SubSeq(window, m + 1, n)
           Times == 0..MaxReportTime
           size == Len(repaired)
           w == WindowWith(instant)
           r == Append(repaired, instant)
<1>1. /\ window \in Seq(Times) /\ n \in Nat /\ n < AnomalyLimit /\ instant \in Times
      /\ repaired \in Seq(Times) /\ size \in Nat /\ n <= size
  BY DEF ReportsTypes, Recent
<1>2. w = Append(rest, instant)
  BY DEF WindowWith
<1>3. old \in SUBSET (0..n) /\ 0 \in old
  BY <1>1
<1>4. m \in old /\ \A k \in old : k <= m
  <2> HIDE DEF old
  <2> QED BY <1>1, <1>3, MaxExists
<1>5. m \in 0..n /\ \A i \in 1..m : instant - window[i] > AnomalyWindow
  BY <1>4
<1>6. m < n => ~(instant - window[m + 1] > AnomalyWindow)
  <2> SUFFICES ASSUME m < n, instant - window[m + 1] > AnomalyWindow PROVE FALSE
    OBVIOUS
  <2>1. m + 1 \in 0..n /\ \A i \in 1..m + 1 : i \in 1..m \/ i = m + 1
    <3>1. m \in 0..n /\ n \in Nat /\ m < n
      BY <1>1, <1>5
    <3> HIDE DEF m, n, old
    <3> QED BY <3>1
  <2>2. m + 1 \in old
    <3> HIDE DEF m
    <3> QED BY <1>5, <2>1
  <2> QED BY <1>1, <1>4, <1>5, <2>2
<1> HIDE DEF old
<1>7. \A i \in 1..n : window[i] \in Times
  BY <1>1, ElementOfSeq
<1> HIDE DEF m, n
<1>8. rest \in Seq(Times) /\ Len(rest) = n - m /\ \A i \in 1..n - m : rest[i] = window[m + i]
  <2> HIDE DEF Times
  <2>1. m + 1 \in Int /\ n \in Int /\ \A i \in m + 1..n : window[i] \in Times
    BY <1>1, <1>5, <1>7
  <2>2. /\ rest \in Seq(Times) /\ Len(rest) = IF m + 1 <= n THEN n - (m + 1) + 1 ELSE 0
        /\ \A i \in 1..n - (m + 1) + 1 : rest[i] = window[m + 1 + i - 1]
    BY <2>1, SubSeqProperties
  <2>3. \A i \in 1..n - m : m + 1 + i - 1 = m + i /\ i \in 1..n - (m + 1) + 1
    BY <1>1, <1>5
  <2> QED BY <1>1, <1>5, <2>2, <2>3
<1> HIDE DEF rest, w, r, Times
<1>9. /\ w \in Seq(Times) /\ Len(w) = n - m + 1 /\ w[n - m + 1] = instant
      /\ \A i \in 1..n - m : w[i] = window[m + i]
  <2>1. n - m \in Nat /\ \A i \in 1..n - m : i \in 1..n - m + 1
    BY <1>1, <1>5
  <2>2. /\ Append(rest, instant) \in Seq(Times)
        /\ Len(Append(rest, instant)) = Len(rest) + 1
        /\ Append(rest, instant)[Len(rest) + 1] = instant
        /\ \A i \in 1..Len(rest) : Append(rest, instant)[i] = rest[i]
    BY <1>1, <1>8
  <2> QED BY <1>2, <1>8, <2>1, <2>2
<1>10. n - m + 1 <= AnomalyLimit
  BY <1>1, <1>5, ReportsBounds
<1>11. /\ r \in Seq(Times) /\ Len(r) = size + 1 /\ r[size + 1] = instant
       /\ \A i \in 1..size : r[i] = repaired[i]
  BY <1>1 DEF r
<1>12. /\ \A i \in 1..size : repaired[i] <= instant
       /\ \A i, j \in 1..size : i <= j => repaired[i] <= repaired[j]
       /\ \A i \in 1..n : window[i] = repaired[size - n + i]
       /\ \A i \in 1..size - n : repaired[size] - repaired[i] > AnomalyWindow
  BY DEF Recent, n
<1>13. \A i \in 1..size : repaired[i] \in Nat
  <2>1. \A i \in 1..size : repaired[i] \in Times
    BY <1>1, ElementOfSeq
  <2> QED BY <2>1, ReportsBounds DEF Times
<1>14. instant \in Nat
  BY <1>1, ReportsBounds DEF Times
<1> HIDE DEF size
<1>15. \A i \in 1..size + 1 : r[i] <= instant
  BY <1>1, <1>11, <1>12, <1>14
<1>16. \A i, j \in 1..size + 1 : i <= j => r[i] <= r[j]
  <2> SUFFICES ASSUME NEW i \in 1..size + 1, NEW j \in 1..size + 1, i <= j PROVE r[i] <= r[j]
    OBVIOUS
  <2>1. CASE j = size + 1
    BY <1>11, <1>15, <2>1
  <2>2. CASE j # size + 1
    <3>1. i \in 1..size /\ j \in 1..size
      BY <1>1, <2>2
    <3> QED BY <1>11, <1>12, <3>1
  <2> QED BY <2>1, <2>2
<1>17. \A i \in 1..n - m + 1 : w[i] = r[size + 1 - (n - m + 1) + i]
  <2> SUFFICES ASSUME NEW i \in 1..n - m + 1 PROVE w[i] = r[size + 1 - (n - m + 1) + i]
    OBVIOUS
  <2>1. size + 1 - (n - m + 1) + i = size - n + (m + i)
    BY <1>1, <1>5
  <2>2. CASE i = n - m + 1
    <3>1. size - n + (m + i) = size + 1
      BY <1>1, <1>5, <2>2
    <3> QED BY <1>9, <1>11, <2>1, <2>2, <3>1
  <2>3. CASE i # n - m + 1
    <3>1. i \in 1..n - m /\ m + i \in 1..n /\ size - n + (m + i) \in 1..size
      BY <1>1, <1>5, <2>3
    <3> QED BY <1>9, <1>11, <1>12, <2>1, <3>1
  <2> QED BY <2>2, <2>3
<1>18. \A i \in 1..size - n + m : instant - r[i] > AnomalyWindow
  <2> SUFFICES ASSUME NEW i \in 1..size - n + m PROVE instant - r[i] > AnomalyWindow
    OBVIOUS
  <2>1. i \in 1..size /\ r[i] = repaired[i] /\ repaired[i] \in Nat /\ size \in 1..size
    BY <1>1, <1>5, <1>11, <1>13
  <2>2. CASE i \in 1..size - n
    <3>1. repaired[size] - repaired[i] > AnomalyWindow /\ repaired[size] <= instant
          /\ repaired[size] \in Nat
      BY <1>12, <1>13, <2>1, <2>2
    <3> QED BY <1>14, <2>1, <3>1, ReportsBounds
  <2>3. CASE i \notin 1..size - n
    <3>1. i - (size - n) \in 1..m /\ i - (size - n) \in 1..n /\ size - n + (i - (size - n)) = i
      BY <1>1, <1>5, <2>1, <2>3
    <3>2. window[i - (size - n)] = repaired[i]
      BY <1>12, <3>1
    <3>3. instant - window[i - (size - n)] > AnomalyWindow
      BY <1>5, <3>1
    <3> QED BY <2>1, <3>2, <3>3
  <2> QED BY <2>2, <2>3
<1>19. \A i \in 1..n - m + 1 : instant - w[i] <= AnomalyWindow
  <2> SUFFICES ASSUME NEW i \in 1..n - m + 1 PROVE instant - w[i] <= AnomalyWindow
    OBVIOUS
  <2>1. CASE i = n - m + 1
    <3>1. instant - instant <= AnomalyWindow
      BY <1>14, ReportsBounds
    <3> QED BY <1>9, <2>1, <3>1
  <2>2. CASE i # n - m + 1
    <3>1. /\ i \in 1..n - m /\ m < n /\ m + 1 \in 1..n /\ m + i \in 1..n /\ m + 1 <= m + i
          /\ size - n + (m + 1) \in 1..size /\ size - n + (m + i) \in 1..size
          /\ size - n + (m + 1) <= size - n + (m + i)
      BY <1>1, <1>5, <2>2
    <3>2. /\ w[i] = repaired[size - n + (m + i)]
          /\ window[m + 1] = repaired[size - n + (m + 1)]
      BY <1>9, <1>12, <3>1
    <3> DEFINE first == repaired[size - n + (m + 1)]
               this == repaired[size - n + (m + i)]
    <3>3. first \in Nat /\ this \in Nat /\ first <= this
      BY <1>12, <1>13, <3>1
    <3>4. ~(instant - first > AnomalyWindow)
      BY <1>6, <3>1, <3>2
    <3> HIDE DEF first, this
    <3>5. instant - this <= AnomalyWindow
      BY <1>14, <3>3, <3>4, ReportsBounds
    <3> QED BY <3>2, <3>5 DEF this
  <2> QED BY <2>1, <2>2
<1>20. Recent(w, r, instant)
  <2>1. size + 1 - (n - m + 1) = size - n + m /\ n - m + 1 <= size + 1
    BY <1>1, <1>5
  <2>2. /\ Len(w) <= Len(r) /\ Len(r) - Len(w) = size - n + m
        /\ r[Len(r)] = instant /\ r \in Seq(0..MaxReportTime)
    <3>1. Len(w) = n - m + 1 /\ Len(r) = size + 1 /\ r[Len(r)] = instant
      BY <1>9, <1>11
    <3>2. r \in Seq(0..MaxReportTime)
      BY <1>11 DEF Times
    <3>3. n \in Nat /\ m \in Nat /\ size \in Nat
      BY <1>1, <1>5
    <3>4. Len(w) <= Len(r) /\ Len(r) - Len(w) = size - n + m
      BY <2>1, <3>1, <3>3
    <3> QED BY <3>1, <3>2, <3>4
  <2>3. \A i \in 1..Len(w) : w[i] = r[Len(r) - Len(w) + i]
    <3>1. Len(w) = n - m + 1 /\ Len(r) = size + 1 /\ n \in Nat /\ m \in Nat /\ size \in Nat
      BY <1>1, <1>5, <1>9, <1>11
    <3> QED BY <1>17, <3>1
  <2>4. /\ \A i \in 1..Len(r) : r[i] <= instant
        /\ \A i, j \in 1..Len(r) : i <= j => r[i] <= r[j]
    BY <1>11, <1>15, <1>16
  <2>5. /\ \A i \in 1..Len(r) - Len(w) : r[Len(r)] - r[i] > AnomalyWindow
        /\ \A i \in 1..Len(w) : r[Len(r)] - w[i] <= AnomalyWindow
    BY <1>9, <1>18, <1>19, <2>2
  <2> QED BY <2>2, <2>3, <2>4, <2>5 DEF Recent
<1> QED BY <1>9, <1>10, <1>20 DEF w, r, Times

LEMMA ReportTaken ==
  ASSUME ReportsInv, NEW report \in Reportable[host], TakeReport(report)
  PROVE  ReportsInv'
<1> DEFINE row == Sanitized(report).report
           anomalies == Sanitized(report).anomalies
<1>0. /\ ReportsTypes /\ RowLengths /\ RowFits /\ OrdinaryReportsPass /\ host \in Hosts
      /\ Recent(window, repaired, instant)
  BY DEF ReportsInv, ReportsTypes
<1>1. /\ reporting /\ UNCHANGED <<host, instant>>
      /\ window' = IF anomalies > 0 THEN WindowWith(instant) ELSE window
      /\ reporting' = ~(anomalies > 0 /\ Len(window') >= AnomalyLimit)
      /\ kept' = IF reporting' THEN row ELSE kept
      /\ sent' = IF host = "linux" /\ Ordinary(report) THEN report ELSE NoReport
      /\ repaired' = IF anomalies > 0 THEN Append(repaired, instant) ELSE repaired
  BY DEF TakeReport
<1>2. /\ Fits(row.memory) /\ row.memory.swapUsed <= row.memory.swap /\ row.strange = FALSE
      /\ row.disks \in Seq(DiskRecords) /\ Len(row.disks) <= MaxDisks
      /\ Len(row.disks) <= Len(report.disks)
      /\ \A i \in 1..Len(row.disks) : Proper(row.disks[i])
      /\ \A i, j \in 1..Len(row.disks) : Identity(row.disks[i]) = Identity(row.disks[j]) => i = j
      /\ anomalies \in Nat
      /\ host = "linux" /\ Ordinary(report) =>
           /\ anomalies = 0 /\ row.memory = report.memory
           /\ ToSet(row.disks) = {d \in ToSet(report.disks) : ~d.hidden}
  BY <1>0, SanitizedIs
<1>3. /\ report.disks \in Seq(DiskRecords) /\ Len(report.disks) \in Nat
      /\ host # "any" => Len(report.disks) <= MaxMounts
  BY <1>0, ReportableIs DEF ReportRecords
<1> HIDE DEF row, anomalies
<1>4. ReportsTypes' /\ Recent(window, repaired, instant)'
  <2>1. CASE anomalies > 0
    <3>1. window' = WindowWith(instant) /\ repaired' = Append(repaired, instant)
      BY <1>1, <2>1
    <3>2. window' \in Seq(0..MaxReportTime) /\ Len(window') <= AnomalyLimit
          /\ Recent(window', repaired', instant)
      BY <1>0, <1>1, <3>1, WindowIs
    <3>3. Len(window') \in Nat /\ reporting' = ~(Len(window') >= AnomalyLimit)
      BY <1>1, <2>1, <3>2
    <3>4. reporting' <=> Len(window') < AnomalyLimit
      <4>1. ~(Len(window') >= AnomalyLimit) <=> Len(window') < AnomalyLimit
        BY <3>3, ReportsBounds
      <4> QED BY <3>3, <4>1, Zenon
    <3> QED BY <1>0, <1>1, <3>2, <3>3, <3>4 DEF ReportsTypes
  <2>2. CASE ~(anomalies > 0)
    <3>1. window' = window /\ repaired' = repaired /\ reporting' = TRUE /\ reporting = TRUE
      BY <1>0, <1>1, <2>2 DEF ReportsTypes
    <3> QED BY <1>0, <1>1, <3>1 DEF ReportsTypes
  <2> QED BY <2>1, <2>2
<1>5. RowFits'
  <2>1. CASE reporting'
    BY <1>1, <1>2, <2>1 DEF RowFits
  <2>2. CASE ~reporting'
    BY <1>0, <1>1, <2>2 DEF RowFits
  <2> QED BY <2>1, <2>2
<1>6. RowLengths'
  <2>1. Len(sent'.disks) <= MaxMounts
    <3>1. Len(NoReport.disks) = 0
      BY DEF NoReport
    <3>2. CASE host = "linux" /\ Ordinary(report)
      BY <1>1, <1>3, <3>2
    <3>3. CASE ~(host = "linux" /\ Ordinary(report))
      <4>1. sent' = NoReport
        BY <1>1, <3>3
      <4> QED BY <3>1, <4>1, ReportsBounds
    <3> QED BY <3>2, <3>3
  <2>2. host = "any" => Len(kept'.disks) <= MaxDisks
    BY <1>0, <1>1, <1>2 DEF RowLengths
  <2>3. host # "any" => Len(kept'.disks) <= MaxMounts
    <3>1. Len(row.disks) \in Nat
      BY <1>2
    <3>2. host # "any" => Len(row.disks) <= MaxMounts
      BY <1>2, <1>3, <3>1, ReportsBounds
    <3> QED BY <1>0, <1>1, <3>2 DEF RowLengths
  <2> QED BY <1>1, <2>1, <2>2, <2>3 DEF RowLengths
<1>7. OrdinaryReportsPass'
  <2>1. CASE host = "linux" /\ Ordinary(report)
    <3>1. ~(anomalies > 0) /\ row.memory = report.memory
          /\ ToSet(row.disks) = {d \in ToSet(report.disks) : ~d.hidden}
      BY <1>2, <2>1
    <3>2. sent' = report /\ reporting' /\ kept' = row
      BY <1>1, <2>1, <3>1
    <3> QED BY <3>1, <3>2 DEF OrdinaryReportsPass
  <2>2. CASE ~(host = "linux" /\ Ordinary(report))
    BY <1>1, <2>2 DEF OrdinaryReportsPass, NoReport
  <2> QED BY <2>1, <2>2
<1> QED BY <1>4, <1>5, <1>6, <1>7 DEF ReportsInv

LEMMA ReportsStep == ReportsInv /\ ReportsNext => ReportsInv'
<1> SUFFICES ASSUME ReportsInv, ReportsNext PROVE ReportsInv'
  OBVIOUS
<1>0. /\ ReportsTypes /\ RowLengths /\ RowFits /\ OrdinaryReportsPass
      /\ Recent(window, repaired, instant)
  BY DEF ReportsInv
<1>1. CASE Reconnects
  <2>1. /\ ~reporting /\ reporting' = TRUE /\ window' = <<>> /\ repaired' = <<>>
        /\ UNCHANGED <<host, kept, sent, instant>>
    BY <1>1 DEF Reconnects
  <2>2. <<>> \in Seq(0..MaxReportTime) /\ Len(<<>>) = 0
    OBVIOUS
  <2>3. ReportsTypes'
    BY <1>0, <2>1, <2>2, ReportsBounds DEF ReportsTypes
  <2>4. Recent(window, repaired, instant)'
    BY <2>1, NothingRepaired
  <2>5. OrdinaryReportsPass'
    BY <1>0, <2>1 DEF OrdinaryReportsPass, NoReport
  <2> QED BY <1>0, <2>1, <2>3, <2>4, <2>5 DEF ReportsInv, RowLengths, RowFits
<1>2. CASE InstantPasses
  <2>1. instant < MaxReportTime /\ instant' = instant + 1
        /\ UNCHANGED <<host, reporting, window, kept, sent, repaired>>
    BY <1>2 DEF InstantPasses
  <2>2. instant \in Nat /\ instant' \in 0..MaxReportTime
    <3>1. instant \in 0..MaxReportTime
      BY <1>0 DEF ReportsTypes
    <3> QED BY <2>1, <3>1, ReportsBounds
  <2>3. ReportsTypes'
    BY <1>0, <2>1, <2>2 DEF ReportsTypes
  <2>4. Recent(window, repaired, instant')
    <3>1. \A i \in 1..Len(repaired) : repaired[i] \in 0..MaxReportTime /\ repaired[i] <= instant
      BY <1>0, ElementOfSeq DEF Recent
    <3>2. \A t \in 0..MaxReportTime : t <= instant => t <= instant + 1
      BY <2>2, ReportsBounds
    <3>3. \A i \in 1..Len(repaired) : repaired[i] <= instant'
      BY <2>1, <3>1, <3>2
    <3> QED BY <1>0, <3>3 DEF Recent
  <2>5. OrdinaryReportsPass'
    BY <1>0, <2>1 DEF OrdinaryReportsPass, NoReport
  <2> QED BY <1>0, <2>1, <2>3, <2>4, <2>5 DEF ReportsInv, RowLengths, RowFits
<1> QED BY <1>1, <1>2, ReportTaken DEF ReportsNext

LEMMA ReportsInvariant == Spec => []ReportsInv
<1>1. ReportsInv /\ [Next]_vars => ReportsInv'
  <2>1. ReportsInv /\ UNCHANGED reportVars => ReportsInv'
    BY DEF reportVars, ReportsInv, ReportsTypes, RowLengths, RowFits, OrdinaryReportsPass, NoReport
  <2> QED BY <2>1, ReportsSteps, ReportsStep
<1> QED BY <1>1, InitReports, PTL DEF Spec

\* A session ends exactly when as many of its reports as the limit were repaired within
\* one window, however long it lasts and however its repairs are spread over time
\* (update_metric_anomaly_window, should_disconnect_for_metric_anomalies).
THEOREM CutOffsEarned == Spec => []CutOffsAreEarned
<1>1. ReportsInv => CutOffsAreEarned
  <2> DEFINE n == Len(repaired)
             m == Len(window)
             last == repaired[n]
             since == n - AnomalyLimit + 1
  <2> SUFFICES ASSUME ReportsInv
               PROVE  reporting <=> ~(n >= AnomalyLimit /\ last - repaired[since] <= AnomalyWindow)
    BY DEF CutOffsAreEarned
  <2>1. /\ reporting \in BOOLEAN /\ m <= AnomalyLimit /\ (reporting <=> m < AnomalyLimit)
        /\ m \in Nat /\ n \in Nat /\ m <= n
    BY DEF ReportsInv, ReportsTypes, Recent
  <2>2. /\ \A i \in 1..m : window[i] = repaired[n - m + i]
        /\ \A i \in 1..n - m : last - repaired[i] > AnomalyWindow
        /\ \A i \in 1..m : last - window[i] <= AnomalyWindow
    BY DEF ReportsInv, Recent
  <2>3. \A i \in 1..n : repaired[i] \in Int
    <3>1. repaired \in Seq(0..MaxReportTime)
      BY DEF ReportsInv, Recent
    <3>2. \A i \in 1..n : repaired[i] \in 0..MaxReportTime
      BY <3>1, ElementOfSeq
    <3> QED BY <3>2, ReportsBounds
  <2> HIDE DEF n, m
  <2>4. CASE m < AnomalyLimit
    <3> SUFFICES ASSUME n >= AnomalyLimit PROVE ~(last - repaired[since] <= AnomalyWindow)
      BY <2>1, <2>4
    <3>1. since \in 1..n - m /\ since \in 1..n /\ n \in 1..n
      BY <2>1, <2>4, ReportsBounds
    <3>2. last - repaired[since] > AnomalyWindow /\ last \in Int /\ repaired[since] \in Int
      BY <2>2, <2>3, <3>1
    <3> HIDE DEF last, since
    <3> QED BY <3>2, ReportsBounds
  <2>5. CASE m = AnomalyLimit
    <3>1. 1 \in 1..m /\ n - m + 1 = since /\ n >= AnomalyLimit
      BY <2>1, <2>5, ReportsBounds
    <3>2. window[1] = repaired[since] /\ last - window[1] <= AnomalyWindow
      BY <2>2, <3>1
    <3>3. ~reporting
      BY <2>1, <2>5
    <3> QED BY <3>1, <3>2, <3>3
  <2> QED BY <2>1, <2>4, <2>5, ReportsBounds
<1> QED BY <1>1, ReportsInvariant, PTL

\* Whatever an agent reports, however many disks, the numbers of its row agree with each
\* other, its names are neither blank nor too long, and no disk counts twice; an ordinary
\* report of a Linux host, at most MaxDisks disks with plain names and no figure out of
\* range, is kept as it was sent but for hidden disks, and its session stays open; and a
\* session ends by frequent repairs only (sanitize_snapshot, handle_metrics_message,
\* collect_disks).
THEOREM RowsAreTrusted == Spec => []RowsCanBeTrusted
<1>1. ReportsInv => KeptIsConsistent /\ OrdinaryReportsPass
  <2> SUFFICES ASSUME ReportsInv PROVE KeptIsConsistent
    BY DEF ReportsInv
  <2>1. RowFits /\ DOMAIN kept.disks = 1..Len(kept.disks)
    BY DEF ReportsInv, RowFits
  <2>2. \A i, j \in 1..Len(kept.disks) :
          kept.disks[i].device = kept.disks[j].device /\ kept.disks[i].total = kept.disks[j].total
            => i = j
    BY <2>1 DEF RowFits, Identity
  <2>3. \A i \in 1..Len(kept.disks) :
          /\ kept.disks[i].used + kept.disks[i].available <= kept.disks[i].total
          /\ ~kept.disks[i].hidden
          /\ \A name \in {kept.disks[i].device, kept.disks[i].point} : name # 0 /\ ~TooLong(name)
    BY <2>1 DEF RowFits, Proper, Fits, Named
  <2> QED BY <2>1, <2>2, <2>3 DEF KeptIsConsistent, RowFits, Fits
<1>2. KeptIsConsistent /\ OrdinaryReportsPass /\ CutOffsAreEarned => RowsCanBeTrusted
  BY DEF RowsCanBeTrusted
<1> QED BY <1>1, <1>2, ReportsInvariant, CutOffsEarned, PTL

(***************************************************************************)
(* Types of the services.                                                  *)
(***************************************************************************)

\* What the types of the agent say beyond its two invariants.
AgentNumbers ==
  /\ registryToken <= MaxTokens /\ connects \in 0..MaxConnects
  /\ tokenExpired \in BOOLEAN /\ tokenLost \in BOOLEAN
  /\ serverStep \in {"none", "open", "rotated"}

LEMMA AgentNumbersStep ==
  SessionTypes /\ AgentNumbers /\ AgentNext => AgentNumbers'
<1> SUFFICES ASSUME SessionTypes, AgentNumbers, AgentNext PROVE AgentNumbers'
  OBVIOUS
<1>0. MaxTokens \in Nat /\ MaxConnects \in Nat /\ registryToken \in Nat
  BY AgentAssumption DEF SessionTypes
<1>1. connects' \in 0..MaxConnects
  <2>1. connects' = connects \/ (connects < MaxConnects /\ connects' = connects + 1)
    BY DEF AgentNext, BackoffEnds, ConnectFails, ConnectAndHello, Authenticated, Refused,
           TokenArrives, PersistToken, FlushBatch, FlushEnds, LinkErrorSeen, LinkBreaks,
           AgentStops, AgentStarts, ServerTakesHello, ServerTakesLog, ServerRotates,
           ServerSendsToken, ServerEnds, TokenExpires, Reinstall
  <2> QED BY <1>0, <2>1 DEF AgentNumbers
<1>2. registryToken' <= MaxTokens
  <2>1. registryToken' = registryToken
          \/ (registryToken < MaxTokens /\ registryToken' = registryToken + 1)
    BY DEF AgentNext, BackoffEnds, ConnectFails, ConnectAndHello, Authenticated, Refused,
           TokenArrives, PersistToken, FlushBatch, FlushEnds, LinkErrorSeen, LinkBreaks,
           AgentStops, AgentStarts, ServerTakesHello, ServerTakesLog, ServerRotates,
           ServerSendsToken, ServerEnds, TokenExpires, Reinstall, tokens
  <2> QED BY <1>0, <2>1 DEF AgentNumbers
<1>3. serverStep' \in {"none", "open", "rotated"}
  BY DEF AgentNumbers, AgentNext, BackoffEnds, ConnectFails, ConnectAndHello, Authenticated,
         Refused, TokenArrives, PersistToken, FlushBatch, FlushEnds, LinkErrorSeen, LinkBreaks,
         AgentStops, AgentStarts, ServerTakesHello, ServerTakesLog, ServerRotates,
         ServerSendsToken, ServerEnds, TokenExpires, Reinstall
<1>4. tokenExpired' \in BOOLEAN
  BY Zenon DEF AgentNumbers, AgentNext, BackoffEnds, ConnectFails, ConnectAndHello, Authenticated,
         Refused, TokenArrives, PersistToken, FlushBatch, FlushEnds, LinkErrorSeen, LinkBreaks,
         AgentStops, AgentStarts, ServerTakesHello, ServerTakesLog, ServerRotates,
         ServerSendsToken, ServerEnds, TokenExpires, Reinstall, tokens
<1>5. tokenLost' \in BOOLEAN
  BY Zenon DEF AgentNumbers, AgentNext, BackoffEnds, ConnectFails, ConnectAndHello, Authenticated,
         Refused, TokenArrives, PersistToken, FlushBatch, FlushEnds, LinkErrorSeen, LinkBreaks,
         AgentStops, AgentStarts, ServerTakesHello, ServerTakesLog, ServerRotates,
         ServerSendsToken, ServerEnds, TokenExpires, Reinstall, tokens
<1> QED BY <1>1, <1>2, <1>3, <1>4, <1>5 DEF AgentNumbers

LEMMA AgentNumbersAre == Spec => []AgentNumbers
<1>1. Init => AgentNumbers
  <2> SUFFICES ASSUME Init PROVE AgentNumbers
    OBVIOUS
  <2>1. /\ registryToken = 0 /\ connects = 0 /\ tokenExpired = FALSE /\ tokenLost = FALSE
        /\ serverStep = "none"
    BY DEF Init, AgentInit
  <2>2. 0 <= MaxTokens /\ 0 \in 0..MaxConnects
    BY AgentAssumption
  <2> QED BY <2>1, <2>2 DEF AgentNumbers
<1>2. TokenInv /\ AgentNumbers /\ [Next]_vars => AgentNumbers'
  <2>1. AgentNumbers /\ UNCHANGED agentVars => AgentNumbers'
    BY DEF AgentNumbers, agentVars, tokens
  <2> QED BY <2>1, AgentSteps1, AgentNumbersStep DEF TokenInv
<1> QED BY <1>1, <1>2, AgentInvariant, PTL DEF Spec

LEMMA AgentTyped == TokenInv /\ LinesInv /\ AgentNumbers => AgentTypeOK
<1> SUFFICES ASSUME TokenInv, LinesInv, AgentNumbers PROVE AgentTypeOK
  OBVIOUS
<1>1. SessionTypes /\ TokensRise /\ LineTypes
  BY DEF TokenInv, LinesInv
<1>2. memoryToken \in 0..MaxTokens /\ diskToken \in 0..MaxTokens /\ registryToken \in 0..MaxTokens
  BY <1>1, AgentAssumption DEF SessionTypes, TokensRise, AgentNumbers
<1>3. agent \in AgentRecords /\ link \in BOOLEAN /\ attached \in BOOLEAN
  BY <1>1 DEF SessionTypes
<1> QED BY <1>1, <1>2, <1>3 DEF AgentTypeOK, AgentNumbers, AgentRecords, LineTypes

\* What is accepted belongs to an attempt.
AcceptedOnce ==
  /\ \A c \in Channels : Len(accepted[c]) <= attempts[c]
  /\ step \in {"greeting", "mail", "rcpt", "data", "body"} =>
       Len(accepted["smtp"]) < attempts["smtp"]

LEMMA AcceptedStep == DeliveryTypes /\ Dialogue /\ AcceptedOnce /\ DeliveryNext => AcceptedOnce'
<1> SUFFICES ASSUME DeliveryTypes, Dialogue, AcceptedOnce, DeliveryNext PROVE AcceptedOnce'
  OBVIOUS
<1>0. /\ attempts \in [Channels -> Nat] /\ accepted \in [Channels -> Seq(Nat)]
      /\ \A c \in Channels : Len(accepted[c]) \in Nat
  BY DeliveryAssumption DEF DeliveryTypes
<1>c. "webhook" \in Channels /\ "smtp" \in Channels
  BY DEF Channels
<1>1. ASSUME UNCHANGED <<attempts, accepted>>,
             step' \in {"greeting", "mail", "rcpt", "data", "body"} =>
               step \in {"greeting", "mail", "rcpt", "data", "body"}
      PROVE  AcceptedOnce'
  BY <1>1 DEF AcceptedOnce
\* An attempt is counted.
<1>2. ASSUME NEW c \in Channels, channel = c, CountAttempt
      PROVE  attempts' \in [Channels -> Nat] /\ attempts'[c] = attempts[c] + 1
             /\ \A d \in Channels : attempts[d] <= attempts'[d]
  <2>1. attempts' = [attempts EXCEPT ![c] = attempts[c] + 1]
    BY <1>2 DEF CountAttempt
  <2>2. attempts[c] + 1 \in Nat
    BY <1>0
  <2>3. attempts' \in [Channels -> Nat] /\ attempts'[c] = attempts[c] + 1
        /\ \A d \in Channels : d # c => attempts'[d] = attempts[d]
    BY <1>0, <2>1, <2>2
  <2>4. \A d \in Channels : attempts[d] <= attempts'[d]
    BY <1>0, <2>3
  <2> QED BY <2>3, <2>4
<1>3. ASSUME NEW c \in Channels, channel = c, CountAttempt, UNCHANGED accepted
      PROVE  /\ \A d \in Channels : Len(accepted'[d]) <= attempts'[d]
             /\ Len(accepted'[c]) < attempts'[c]
  <2>1. \A d \in Channels : attempts[d] \in Nat /\ attempts'[d] \in Nat
                            /\ attempts[d] <= attempts'[d] /\ Len(accepted[d]) <= attempts[d]
    BY <1>0, <1>2, <1>3 DEF AcceptedOnce
  <2>2. attempts'[c] = attempts[c] + 1
    BY <1>2, <1>3
  <2>3. \A d \in Channels : Len(accepted[d]) <= attempts'[d]
    BY <1>0, <2>1
  <2>4. Len(accepted[c]) < attempts'[c]
    BY <1>0, <2>1, <2>2
  <2> QED BY <1>3, <2>3, <2>4
<1>4. CASE BuildFails
  <2>1. channel \in Channels /\ CountAttempt /\ UNCHANGED accepted /\ step' = "idle"
    BY <1>4 DEF BuildFails, AttemptEnds
  <2> QED BY <1>3, <2>1 DEF AcceptedOnce
<1>5. CASE WebhookAttempt
  <2>1. /\ channel = "webhook" /\ CountAttempt /\ step' = "idle"
        /\ \/ UNCHANGED accepted
           \/ accepted' = [accepted EXCEPT !["webhook"] = Append(@, 1)]
    BY <1>5 DEF WebhookAttempt, CanTry, AttemptEnds, Accept
  <2>2. CASE UNCHANGED accepted
    BY <1>3, <1>c, <2>1, <2>2 DEF AcceptedOnce
  <2>3. CASE accepted' = [accepted EXCEPT !["webhook"] = Append(@, 1)]
    <3>1. accepted["webhook"] \in Seq(Nat)
      BY <1>0, <1>c
    <3>2. Len(Append(accepted["webhook"], 1)) = Len(accepted["webhook"]) + 1
      BY <3>1, MessageAdded
    <3>3. /\ Len(accepted'["webhook"]) = Len(accepted["webhook"]) + 1
          /\ accepted'["smtp"] = accepted["smtp"]
      BY <1>0, <1>c, <2>3, <3>2
    <3>4. /\ attempts'["webhook"] = attempts["webhook"] + 1 /\ attempts["smtp"] <= attempts'["smtp"]
          /\ attempts'["smtp"] \in Nat
      BY <1>2, <1>c, <2>1
    <3>5. Len(accepted["webhook"]) <= attempts["webhook"] /\ Len(accepted["smtp"]) <= attempts["smtp"]
      BY <1>c DEF AcceptedOnce
    <3>6. Len(accepted'["webhook"]) <= attempts'["webhook"]
      BY <1>0, <1>c, <3>3, <3>4, <3>5
    <3>7. Len(accepted'["smtp"]) <= attempts'["smtp"]
      BY <1>0, <1>c, <3>3, <3>4, <3>5
    <3> QED BY <2>1, <3>6, <3>7 DEF AcceptedOnce, Channels
  <2> QED BY <2>1, <2>2, <2>3
<1>6. CASE SmtpConnect
  <2>1. channel = "smtp" /\ CountAttempt /\ UNCHANGED accepted
    BY <1>6 DEF SmtpConnect, CanTry
  <2> QED BY <1>3, <1>c, <2>1 DEF AcceptedOnce
<1>7. CASE BodyAccepted
  <2>1. /\ step = "body" /\ step' = "answer" /\ UNCHANGED <<channel, attempts>>
        /\ accepted' = [accepted EXCEPT ![channel] = Append(@, envelope)]
    BY <1>7 DEF BodyAccepted, Accept
  <2>2. channel = "smtp" /\ envelope \in Nat /\ accepted["smtp"] \in Seq(Nat)
    BY <1>0, <1>c, <2>1, DeliveryAssumption DEF Dialogue, DeliveryTypes
  <2>3. Len(Append(accepted["smtp"], envelope)) = Len(accepted["smtp"]) + 1
    BY <2>2, MessageAdded
  <2>4. /\ Len(accepted'["smtp"]) = Len(accepted["smtp"]) + 1
        /\ accepted'["webhook"] = accepted["webhook"]
    BY <1>0, <1>c, <2>1, <2>2, <2>3
  <2>5. Len(accepted["smtp"]) < attempts["smtp"] /\ Len(accepted["webhook"]) <= attempts["webhook"]
    BY <1>c, <2>1 DEF AcceptedOnce
  <2>6. Len(accepted'["smtp"]) <= attempts["smtp"]
    BY <1>0, <1>c, <2>4, <2>5
  <2> QED BY <2>1, <2>4, <2>5, <2>6 DEF AcceptedOnce, Channels
<1>8. CASE Skip \/ Ended
  <2>1. UNCHANGED <<attempts, accepted, step>>
    BY <1>8 DEF Skip, Ended, deliveryVars
  <2> QED BY <1>1, <2>1
<1>9. CASE Greet \/ MailFrom \/ Data \/ AnswerArrives \/ RecipientAccepted
  <2>1. /\ UNCHANGED <<attempts, accepted>>
        /\ step \in {"greeting", "mail", "rcpt", "data"} \/ step' = "quit"
    BY <1>9 DEF Greet, MailFrom, Data, AnswerArrives, RecipientAccepted, Advance
  <2> QED BY <1>1, <2>1
<1>10. CASE Quit \/ SmtpRefuses \/ DialogueBreaks
  <2>1. UNCHANGED <<attempts, accepted>> /\ step' = "idle"
    BY <1>10 DEF Quit, SmtpRefuses, DialogueBreaks, AttemptEnds
  <2> QED BY <1>1, <2>1
<1> QED BY <1>4, <1>5, <1>6, <1>7, <1>8, <1>9, <1>10 DEF DeliveryNext

LEMMA AcceptedAre == Spec => []AcceptedOnce
<1>1. Init => AcceptedOnce
  <2> SUFFICES ASSUME Init PROVE AcceptedOnce
    OBVIOUS
  <2>1. step = "idle" /\ \A c \in Channels : attempts[c] = 0 /\ accepted[c] = <<>>
    BY DEF Init, DeliveryInit
  <2>2. Len(<<>>) = 0
    OBVIOUS
  <2> QED BY <2>1, <2>2 DEF AcceptedOnce
<1>2. DeliveryInv /\ AcceptedOnce /\ [Next]_vars => AcceptedOnce'
  <2> SUFFICES ASSUME DeliveryInv, AcceptedOnce, [Next]_vars PROVE AcceptedOnce'
    OBVIOUS
  <2>1. CASE DeliveryNext
    BY <2>1, AcceptedStep DEF DeliveryInv
  <2>2. CASE UNCHANGED deliveryVars
    BY <2>2 DEF deliveryVars, AcceptedOnce
  <2> QED BY <2>1, <2>2, DeliverySteps
<1> QED BY <1>1, <1>2, DeliveryInvariant, PTL DEF Spec

LEMMA DeliveryTyped == DeliveryInv /\ AcceptedOnce => DeliveryTypeOK
<1> SUFFICES ASSUME DeliveryInv, AcceptedOnce PROVE DeliveryTypeOK
  OBVIOUS
<1>1. DeliveryTypes
  BY DEF DeliveryInv
<1>2. \A c \in Channels : Len(accepted[c]) <= MaxDeliveryAttempts
  <2> SUFFICES ASSUME NEW c \in Channels PROVE Len(accepted[c]) <= MaxDeliveryAttempts
    OBVIOUS
  <2>1. Len(accepted[c]) <= attempts[c] /\ attempts[c] \in 0..MaxDeliveryAttempts
        /\ Len(accepted[c]) \in Nat
    BY <1>1 DEF DeliveryTypes, AcceptedOnce
  <2> QED BY <2>1, DeliveryAssumption
<1> QED BY <1>1, <1>2 DEF DeliveryTypes, DeliveryTypeOK, Results, DialogueSteps

\* The list of interfaces has an entry for each and one for its addresses.
CacheFits == cache.len \in 0..2 * Cardinality(Interfaces)

LEMMA ListFits == ListLength \in 0..2 * Cardinality(Interfaces)
<1> DEFINE A == {i \in Interfaces : interface[i] = "addressed"}
<1>1. IsFiniteSet(Interfaces) /\ Present \subseteq Interfaces /\ A \subseteq Interfaces
  BY CollectorAssumption DEF Present
<1>2. /\ Cardinality(Present) \in Nat /\ Cardinality(Present) <= Cardinality(Interfaces)
      /\ Cardinality(A) \in Nat /\ Cardinality(A) <= Cardinality(Interfaces)
  <2>1. IsFiniteSet(Present) /\ IsFiniteSet(A)
    BY <1>1, FS_Subset
  <2>2. Cardinality(Present) <= Cardinality(Interfaces)
    BY <1>1, FS_Subset
  <2>3. Cardinality(A) <= Cardinality(Interfaces)
    BY <1>1, FS_Subset
  <2> QED BY <2>1, <2>2, <2>3, FS_CardinalityType
<1>3. Cardinality(Interfaces) \in Nat
  BY <1>1, FS_CardinalityType
<1>4. ListLength = Cardinality(Present) + Cardinality(A)
  BY DEF ListLength
<1> HIDE DEF A
<1> QED BY <1>2, <1>3, <1>4

LEMMA CacheKept == CacheFits /\ CollectorNext => CacheFits'
<1> SUFFICES ASSUME CacheFits, CollectorNext PROVE CacheFits'
  OBVIOUS
<1>1. 0 \in 0..2 * Cardinality(Interfaces)
  <2>1. Cardinality(Interfaces) \in Nat
    BY CollectorAssumption, FS_CardinalityType
  <2> QED BY <2>1
<1>2. ASSUME NEW reading \in Readings
      PROVE  reading.cache = cache \/ reading.cache = EmptyCache
             \/ reading.cache = [len |-> ListLength, indices |-> Running]
  BY <1>2 DEF Readings, WholeTable, InterfaceList, Addresses, Zeros, CachedIndices
<1>3. UNCHANGED cache \/ \E reading \in Readings : cache' = reading.cache
  BY DEF CollectorNext, Traffic, InterfaceChanges, CollectSnapshot, SnapshotFails,
         TakeNetworkSample
<1>4. cache'.len \in {cache.len, 0, ListLength}
  BY <1>2, <1>3 DEF EmptyCache
<1> QED BY <1>1, <1>4, ListFits DEF CacheFits

LEMMA CacheAlwaysFits == Spec => []CacheFits
<1>1. Init => CacheFits
  <2>1. Cardinality(Interfaces) \in Nat
    BY CollectorAssumption, FS_CardinalityType
  <2>2. 0 \in 0..2 * Cardinality(Interfaces)
    BY <2>1
  <2> QED BY <2>2 DEF Init, CollectorInit, EmptyCache, CacheFits
<1>2. CacheFits /\ [Next]_vars => CacheFits'
  <2>1. CacheFits /\ UNCHANGED collectorVars => CacheFits'
    BY DEF CacheFits, collectorVars
  <2> QED BY <2>1, CollectorSteps, CacheKept
<1> QED BY <1>1, <1>2, PTL DEF Spec

LEMMA CollectorTyped == CollectorInv /\ CacheFits => CollectorTypeOK
BY DEF CollectorInv, CollectorTypes, Counters, CacheFits, CollectorTypeOK

LEMMA ReportsTyped == ReportsInv => ReportsTypeOK
<1> SUFFICES ASSUME ReportsInv PROVE ReportsTypeOK
  OBVIOUS
<1>1. ReportsTypes /\ RowLengths /\ repaired \in Seq(0..MaxReportTime)
  BY DEF ReportsInv, Recent
<1>2. Len(kept.disks) <= IF host = "any" THEN MaxDisks ELSE MaxMounts
  BY <1>1 DEF RowLengths
<1> QED BY <1>1, <1>2 DEF ReportsTypes, RowLengths, ReportsTypeOK

\* Which part runs does not change.
LEMMA PartIs == Spec => [](part \in Parts)
<1>1. Init => part \in Parts
  BY DEF Init
<1>2. part \in Parts /\ [Next]_vars => (part \in Parts)'
  BY DEF Next, vars, RunAdmission, RunInstall, RunLogin, RunSettings, RunAgent, RunCollector,
         RunReports, RunDelivery
<1> QED BY <1>1, <1>2, PTL DEF Spec

\* The services keep their types, with any bounds: tables of failures within their hard
\* limit, permits counted, tokens, attempts, disks and cached interfaces within theirs.
THEOREM ServicesTypes == Spec => []TypeOK
<1>1. AdmissionInv /\ InstallInv /\ SettingsInv /\ SpentInv /\ LoginInv
      /\ TokenInv /\ LinesInv /\ AgentNumbers /\ CollectorInv /\ CacheFits
      /\ ReportsInv /\ DeliveryInv /\ AcceptedOnce /\ part \in Parts
        => TypeOK
  <2> SUFFICES ASSUME AdmissionInv, InstallInv, SettingsInv, SpentInv, LoginInv,
                      TokenInv, LinesInv, AgentNumbers, CollectorInv, CacheFits,
                      ReportsInv, DeliveryInv, AcceptedOnce, part \in Parts
               PROVE  TypeOK
    OBVIOUS
  <2>1. /\ AdmissionTypeOK /\ PermitsMatchSockets /\ InstallTypeOK /\ LoginTypeOK
        /\ SettingsTypeOK /\ AgentTypeOK /\ CollectorTypeOK /\ ReportsTypeOK /\ DeliveryTypeOK
    BY AdmissionTyped, InstallTyped, LoginTyped, AgentTyped, CollectorTyped, ReportsTyped,
       DeliveryTyped
  <2> QED BY <2>1 DEF TypeOK, Parts
<1> QED
  BY <1>1, AdmissionInvariant, InstallInvariant, SettingsInvariant, SpentInvariant,
     LoginInvariant, AgentInvariant, AgentNumbersAre, CollectorInvariant, CacheAlwaysFits,
     ReportsInvariant, AcceptedAre, DeliveryInvariant, PartIs, PTL

================================================================================
