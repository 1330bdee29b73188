----------------------------- MODULE BrowserPush -------------------------------
(***************************************************************************)
(* The sessions of /ws/browser (ws/browser.rs): subscribe to the dirty     *)
(* signals, send all rows, then on every debounce tick after a signal send *)
(* the rows that differ from those sent last, and the overview.            *)
(*                                                                         *)
(* The broadcast channel keeps the last ChannelCapacity signals; a session *)
(* has a position in it.  One that has fallen behind finds that out with   *)
(* its next receive, which moves it to the oldest signal that is kept.     *)
(*                                                                         *)
(* `list` holds the rows a session has read and is about to send.  Closing *)
(* is a client that leaves or a send that fails; a browser then comes back *)
(* with a new session.  Rows that vanish are part of the difference, but   *)
(* the registry never removes a row.                                       *)
(*                                                                         *)
(* LaggedIgnored and other operators that no action uses are faulty        *)
(* variants of the definition after them, which a run refutes (README).    *)
(***************************************************************************)
EXTENDS NodeViews

CONSTANTS
  Browsers,
  ChannelCapacity   \* BROWSER_VIEW_DIRTY_CHANNEL_CAPACITY

ASSUME CapacityAssumption == ChannelCapacity \in Nat \ {0}

VARIABLES
  at,        \* where the session of a browser is
  position,  \* number of signals it has received or skipped
  dirty,     \* a signal has arrived since the last push
  list,      \* the rows it has read from the registry
  last,      \* last_nodes
  outgoing,  \* nodes whose rows are still to be sent
  shown,     \* the rows the browser has
  overview   \* the overview the browser has

sessionVars == <<position, dirty, list, last, outgoing>>
browserVars == <<at, position, dirty, list, last, outgoing, shown, overview>>

NoRows == [n \in Nodes |-> Absent]
Places == {"closed", "subscribed", "listed", "loop", "pushing"}

BrowserTypeOK ==
  /\ at \in [Browsers -> Places]
  /\ position \in [Browsers -> Nat]
  /\ dirty \in [Browsers -> BOOLEAN]
  /\ list \in [Browsers -> [Nodes -> Row]]
  /\ last \in [Browsers -> [Nodes -> Row]]
  /\ outgoing \in [Browsers -> SUBSET Nodes]
  /\ shown \in [Browsers -> [Nodes -> Row]]
  /\ \A b \in Browsers : position[b] <= signals

BrowserInit ==
  /\ at = [b \in Browsers |-> "closed"]
  /\ position = [b \in Browsers |-> 0]
  /\ dirty = [b \in Browsers |-> FALSE]
  /\ list = [b \in Browsers |-> NoRows]
  /\ last = [b \in Browsers |-> NoRows]
  /\ outgoing = [b \in Browsers |-> {}]
  /\ shown = [b \in Browsers |-> NoRows]
  /\ overview = [b \in Browsers |-> Overview(NoRows)]

Move(b, from, to) == at[b] = from /\ at' = [at EXCEPT ![b] = to]

\* The rows are read before the session subscribes.
ConnectAfterReading(b) ==
  /\ \/ /\ Move(b, "closed", "subscribed")
        /\ list' = [list EXCEPT ![b] = rows]
        /\ UNCHANGED <<position, dirty>>
     \/ /\ Move(b, "subscribed", "listed")
        /\ position' = [position EXCEPT ![b] = signals]
        /\ dirty' = [dirty EXCEPT ![b] = FALSE]
        /\ UNCHANGED list
  /\ UNCHANGED <<last, outgoing, shown, overview>>

\* subscribe_browser_updates: only signals from now on are received.
Connect(b) ==
  /\ Move(b, "closed", "subscribed")
  /\ position' = [position EXCEPT ![b] = signals]
  /\ dirty' = [dirty EXCEPT ![b] = FALSE]
  /\ UNCHANGED <<list, last, outgoing, shown, overview>>

\* send_initial_state, first half: list_node_summaries.
ListRows(b) ==
  /\ Move(b, "subscribed", "listed")
  /\ list' = [list EXCEPT ![b] = rows]
  /\ UNCHANGED <<position, dirty, last, outgoing, shown, overview>>

\* Second half: the overview is read under the lock anew, all is sent.
SendInitialState(b) ==
  /\ Move(b, "listed", "loop")
  /\ shown' = [shown EXCEPT ![b] = list[b]]
  /\ overview' = [overview EXCEPT ![b] = Overview(rows)]
  /\ last' = [last EXCEPT ![b] = list[b]]
  /\ dirty' = [dirty EXCEPT ![b] = FALSE]
  /\ UNCHANGED <<position, list, outgoing>>

Unread(b) == signals - position[b]

ReceiveSignal(b) ==
  /\ at[b] = "loop"
  /\ Unread(b) \in 1..ChannelCapacity
  /\ position' = [position EXCEPT ![b] = @ + 1]
  /\ dirty' = [dirty EXCEPT ![b] = TRUE]
  /\ UNCHANGED <<at, list, last, outgoing, shown, overview>>

\* A lost signal is ignored, and the channel emptied.
LaggedIgnored(b) ==
  /\ Unread(b) > ChannelCapacity
  /\ at[b] = "loop" /\ UNCHANGED at
  /\ position' = [position EXCEPT ![b] = signals]
  /\ UNCHANGED <<dirty, list, last, outgoing, shown, overview>>

\* Lagged: signals were lost, everything is sent again.
Lagged(b) ==
  /\ Unread(b) > ChannelCapacity
  /\ Move(b, "loop", "subscribed")
  /\ position' = [position EXCEPT ![b] = signals - ChannelCapacity]
  /\ UNCHANGED <<dirty, list, last, outgoing, shown, overview>>

\* select! is biased: a tick is taken only when no signal is waiting.
DebounceTick(b) ==
  /\ Unread(b) = 0 /\ dirty[b]
  /\ Move(b, "loop", "pushing")
  /\ dirty' = [dirty EXCEPT ![b] = FALSE]
  /\ list' = [list EXCEPT ![b] = rows]
  /\ outgoing' = [outgoing EXCEPT ![b] = {n \in Nodes : rows[n] # last[b][n]}]
  /\ UNCHANGED <<position, last, shown, overview>>

\* NodeUpsert; the rows are sent one by one.
SendRow(b) ==
  /\ at[b] = "pushing"
  /\ \E n \in outgoing[b] :
       /\ shown' = [shown EXCEPT ![b][n] = list[b][n]]
       /\ outgoing' = [outgoing EXCEPT ![b] = @ \ {n}]
  /\ UNCHANGED <<at, position, dirty, list, last, overview>>

\* OverviewUpdate, after last_nodes has been replaced.
SendOverview(b) ==
  /\ outgoing[b] = {}
  /\ Move(b, "pushing", "loop")
  /\ last' = [last EXCEPT ![b] = list[b]]
  /\ overview' = [overview EXCEPT ![b] = Overview(rows)]
  /\ UNCHANGED <<position, dirty, list, outgoing, shown>>

Close(b) ==
  /\ at[b] # "closed"
  /\ at' = [at EXCEPT ![b] = "closed"]
  /\ outgoing' = [outgoing EXCEPT ![b] = {}]
  /\ UNCHANGED <<position, dirty, list, last, shown, overview>>

Serve(b) ==
  \/ ListRows(b) \/ SendInitialState(b)
  \/ ReceiveSignal(b) \/ Lagged(b)
  \/ DebounceTick(b) \/ SendRow(b) \/ SendOverview(b)

BrowserNext ==
  /\ \E b \in Browsers : Connect(b) \/ Serve(b) \/ Close(b)
  /\ UNCHANGED viewVars

--------------------------------------------------------------------------------
Connected(b) == at[b] # "closed"
InLoop(b) == at[b] \in {"loop", "pushing"}

\* A session whose rows are out of date knows it: a signal is waiting in the
\* channel or has been noted, also when the rows changed while it was sending
\* or when signals were lost (subscription before the initial state, Lagged).
StaleMeansNotified ==
  \A b \in Browsers :
    /\ at[b] = "loop" /\ last[b] # rows => dirty[b] \/ Unread(b) > 0
    /\ at[b] \in {"listed", "pushing"} /\ list[b] # rows => Unread(b) > 0

\* A browser that stays connected ends up with the rows and the overview of the
\* registry once they stop changing.
BrowserConverges ==
  \A b \in Browsers :
    <>[]Connected(b) => <>[](shown[b] = rows /\ overview[b] = Overview(rows))
================================================================================
