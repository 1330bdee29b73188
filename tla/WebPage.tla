------------------------------- MODULE WebPage ---------------------------------
(***************************************************************************)
(* WebClient and Dashboard composed: the socket carries the messages, and  *)
(* what was on its way is lost with it.                                    *)
(***************************************************************************)
EXTENDS WebClient, Dashboard

pageVars == <<clientVars, dashboardVars>>

PageInit == ClientInit /\ DashboardInit
Opens ==
  /\ SocketOpens /\ SessionStarts
  /\ UNCHANGED <<viewVars, mounted, fallback, storeVars, restVars>>

Ends(end) ==
  /\ end
  /\ wire' = <<>> /\ sent' = Nothing
  /\ UNCHANGED <<viewVars, mounted, fallback, storeVars, restVars>>

Fails == Ends(HandshakeFails)
Completes == Ends(CloseCompletes)
Breaks == Ends(ConnectionBreaks)

ClientStep(step) == step /\ UNCHANGED <<viewVars, dashboardVars>>

Retries == ClientStep(RetryTimer)
Pings == ClientStep(PingTimer)
TimesOut == ClientStep(PongTimeout)

Pushes == alive /\ Push /\ UNCHANGED <<viewVars, clientVars>>
Arrives == Deliver /\ UNCHANGED <<viewVars, clientVars>>

PageNext ==
  \/ Opens \/ Fails \/ Completes \/ Breaks
  \/ Retries \/ Pings \/ TimesOut \/ Pushes \/ Arrives
  \/ ClientStep(PongArrives \/ GoesSilent \/ Hide \/ Show \/ NetworkChanges)
  \/ RouteStep /\ UNCHANGED <<viewVars, clientVars>>

--------------------------------------------------------------------------------
\* Types of client and dashboard, and one socket at a time.
PageTypeOK == ClientTypeOK /\ DashboardTypeOK

\* A dashboard that stays in view, with a server that stays reachable, ends up
\* with the rows and totals of the registry, whatever its socket has been
\* through (silent peers, tabs hidden and shown, messages lost with a socket),
\* unless the client has given up after three handshakes, or it has missed an
\* InitialState or had it overwritten by a late REST answer.
PageFollows ==
  <>[](~hidden /\ reachable /\ mounted) =>
    <>[](\/ state = "failed" \/ ~watched
         \/ nodesById = rows /\ stats = Overview(rows))
================================================================================
