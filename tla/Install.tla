--------------------------------- MODULE Install ---------------------------------
(***************************************************************************)
(* The request by which an installation script exchanges its install token *)
(* for the configuration of an agent (install_bootstrap).  Clients with    *)
(* too many wrong tokens are blocked by a table of their own.  Between the *)
(* check of the client and the verdict on its token the request waits for  *)
(* the registry, and other requests go on.                                 *)
(***************************************************************************)
EXTENDS AuthFailures

CONSTANTS
  Requesters,     \* HTTP requests
  Tokens,         \* install tokens of the registry
  MaxInstallTime  \* bound of the model: the clock

ASSUME InstallAssumption == MaxInstallTime \in Nat \ {0}

VARIABLES
  moment,           \* Instant::now
  installFailures,  \* auth_failures of InstallAdmissionController
  unused,           \* install tokens that have not been consumed
  install,          \* where each request is, and its client
  configured        \* the clients that have got a configuration, by token

installVars == <<moment, installFailures, unused, install, configured>>

NoInstall == [step |-> "none", client |-> 0, token |-> 0]

InstallTypeOK ==
  /\ moment \in 0..MaxInstallTime /\ IsTable(installFailures)
  /\ unused \subseteq Tokens /\ configured \in [Tokens -> SUBSET Clients]
  /\ install \in [Requesters -> [step : {"none", "checked", "consumed"},
                                 client : Clients \cup {0}, token : Tokens \cup {0}]]

InstallInit ==
  /\ moment = 0 /\ installFailures = EmptyTable /\ unused = Tokens
  /\ install = [r \in Requesters |-> NoInstall] /\ configured = [k \in Tokens |-> {}]

\* The admission of install_bootstrap: check, and the answer of a blocked client.
InstallCheck(r, c) ==
  /\ install[r] = NoInstall
  /\ installFailures' = Checked(installFailures, c, moment)
  /\ install' = IF BlockedAt(installFailures, c, moment) THEN install
                ELSE [install EXCEPT ![r] = [NoInstall EXCEPT !.step = "checked", !.client = c]]
  /\ UNCHANGED <<moment, unused, configured>>

\* record_install_token_failure: no token, a malformed one, or none that the registry
\* knows, which is one consumed before as well.
TokenRefused(r) ==
  /\ install[r].step = "checked"
  /\ installFailures' = WithFailure(installFailures, install[r].client, moment)
  /\ install' = [install EXCEPT ![r] = NoInstall]
  /\ UNCHANGED <<moment, unused, configured>>

\* consume_install_token succeeds (TokenRegistry shows its steps).
ConsumeToken(r, k) ==
  /\ install[r].step = "checked" /\ k \in unused
  /\ unused' = unused \ {k}
  /\ install' = [install EXCEPT ![r].step = "consumed", ![r].token = k]
  /\ UNCHANGED <<moment, installFailures, configured>>

\* The registry cannot be read or written: no verdict on the client.
RegistryFails(r) ==
  /\ install[r].step = "checked"
  /\ install' = [install EXCEPT ![r] = NoInstall]
  /\ UNCHANGED <<moment, installFailures, unused, configured>>

\* clear_auth_failures and render_agent_bootstrap_response, which may fail, or whose
\* answer may be lost: the token is spent all the same.
Answer(r) ==
  /\ install[r].step = "consumed"
  /\ installFailures' = Cleared(installFailures, install[r].client)
  /\ install' = [install EXCEPT ![r] = NoInstall]
  /\ configured' \in {configured,
                      [configured EXCEPT ![install[r].token] = @ \cup {install[r].client}]}
  /\ UNCHANGED <<moment, unused>>

MomentPasses ==
  /\ moment < MaxInstallTime
  /\ moment' = moment + 1
  /\ UNCHANGED <<installFailures, unused, install, configured>>

InstallNext ==
  \/ \E r \in Requesters :
       \/ \E c \in Clients : InstallCheck(r, c)
       \/ TokenRefused(r) \/ RegistryFails(r) \/ Answer(r)
       \/ \E k \in Tokens : ConsumeToken(r, k)
  \/ MomentPasses

--------------------------------------------------------------------------------
\* The block of a client ends early only when a request of the same client, admitted
\* before the block began, turns out to hold a good token, or for room in the table.
InstallBlockLasts ==
  [][\A c \in Clients :
       LET answered == \E r \in Requesters : install[r].client = c
                          /\ install[r].step = "consumed" /\ install'[r] = NoInstall
       IN BlockKept(installFailures, installFailures', c, moment', answered)]_installVars
================================================================================
