------------------------------- MODULE MCViews ---------------------------------
(***************************************************************************)
(* HTTP clients, browser sessions and the web page read the rows, share    *)
(* nothing else and change none of them, so the model checker lets the     *)
(* clients of one kind be active in a behaviour.  A body is compared as a  *)
(* whole, and the page's nodes are independent of each other, so these two *)
(* make do with one node that changes; browser sessions send single rows   *)
(* and need two.                                                           *)
(***************************************************************************)
EXTENDS ViewClients, WebPage

CONSTANTS
  FewNodes,      \* the nodes that change while no browser session is active
  PageChanges    \* bound: changes of the rows while the page is active

ASSUME FewNodesAssumption == FewNodes \subseteq Nodes

VARIABLE clients     \* the kind of clients that is active

mcVars == <<vars, pageVars, clients>>

Changing == IF clients = "browser" THEN Nodes ELSE FewNodes

MCInit ==
  /\ Init /\ PageInit
  /\ clients \in {"http", "browser", "page"}
  /\ \A n \in Nodes \ Changing : rows[n] = Absent
  /\ clients # "http" => \A r \in Readers : kind[r] = "nodes"
  /\ clients = "page" => \A n \in FewNodes : rows[n].known
  /\ clients # "page" => hidden /\ reachable /\ mounted

NotPage == UNCHANGED <<cacheVars, browserVars, clients>>
NotBrowser == UNCHANGED <<viewVars, cacheVars, pageVars, clients>>

MCRows ==
  /\ clients = "page" => changes < PageChanges
  /\ RowsChange(Changing)
  /\ UNCHANGED <<pageVars, clients>>

MCHttp == clients = "http" /\ HttpStep /\ UNCHANGED <<pageVars, clients>>
MCBrowser == clients = "browser" /\ BrowserStep /\ UNCHANGED <<pageVars, clients>>
MCPage == clients = "page" /\ PageNext /\ NotPage

MCNext == MCRows \/ MCHttp \/ MCBrowser \/ MCPage

MCSpec == MCInit /\ [][MCNext]_mcVars

\* A browser session that can go on is run, and its sends end, well or badly.
SessionsAreRun ==
  \A b \in Browsers : WF_mcVars(clients = "browser" /\ Serve(b) /\ NotBrowser)

\* Timers of the page fire; handshakes and the closing of a socket end; the
\* server pushes what has changed, and what it has sent arrives.
PageIsRun ==
  /\ WF_mcVars(clients = "page" /\ Opens /\ NotPage)
  /\ WF_mcVars(clients = "page" /\ Fails /\ NotPage)
  /\ WF_mcVars(clients = "page" /\ Completes /\ NotPage)
  /\ WF_mcVars(clients = "page" /\ Retries /\ NotPage)
  /\ WF_mcVars(clients = "page" /\ Pings /\ NotPage)
  /\ WF_mcVars(clients = "page" /\ TimesOut /\ NotPage)
  /\ WF_mcVars(clients = "page" /\ Pushes /\ NotPage)
  /\ WF_mcVars(clients = "page" /\ Arrives /\ NotPage)

\* Nothing is assumed of requests, agents and browsers.
FairSpec == MCSpec /\ SessionsAreRun /\ PageIsRun
================================================================================
