------------------------------- MODULE MCServices -------------------------------
(***************************************************************************)
(* The services around the core: admission of connections and of install   *)
(* requests, the login and the settings of the panel, the session loop     *)
(* and the collector of an agent, the sanitising of its reports, and one   *)
(* delivery of an alert.  They share no state but the authentication of    *)
(* the panel, which settings and login have in common, so the model        *)
(* checker lets one of them run in a behaviour.                            *)
(***************************************************************************)
EXTENDS Admission, Install, PanelSettings, AgentSession, Collector, Reports, Delivery

VARIABLE part   \* the part that runs

panelVars == <<loginVars, settingsVars>>
hostVars == <<agentVars, collectorVars, reportVars>>
vars == <<admissionVars, installVars, panelVars, hostVars, deliveryVars, part>>

Parts == {"admission", "install", "login", "settings", "agent", "collector", "reports", "delivery"}

\* The variables of the part that runs have their types; the counters of admission,
\* which are limits, are also the number of the sockets that hold a permit.
TypeOK ==
  CASE part = "admission" -> AdmissionTypeOK /\ PermitsMatchSockets
    [] part = "install" -> InstallTypeOK
    [] part = "login" -> LoginTypeOK
    [] part = "settings" -> LoginTypeOK /\ SettingsTypeOK
    [] part = "agent" -> AgentTypeOK
    [] part = "collector" -> CollectorTypeOK
    [] part = "reports" -> ReportsTypeOK
    [] part = "delivery" -> DeliveryTypeOK

\* A part that does not run has one initial state.
Init ==
  /\ part \in Parts
  /\ AdmissionInit /\ InstallInit /\ LoginInit /\ SettingsInit /\ AgentInit
  /\ CollectorInit
  /\ part # "collector" => platform = "linux" /\ Present = {}
  /\ ReportsInit
  /\ part # "reports" => host = "linux"
  /\ DeliveryInit
  /\ part # "delivery" => kind = "triggered" /\ settings = Unrouted

RunAdmission ==
  /\ part = "admission" /\ AdmissionNext
  /\ UNCHANGED <<installVars, panelVars, hostVars, deliveryVars, part>>

RunInstall ==
  /\ part = "install" /\ InstallNext
  /\ UNCHANGED <<admissionVars, panelVars, hostVars, deliveryVars, part>>

RunLogin ==
  /\ part = "login" /\ LoginNext
  /\ UNCHANGED <<admissionVars, installVars, settingsVars, hostVars, deliveryVars, part>>

\* Edits beside the passing of time; requests of tabs are the part before this one.
RunSettings ==
  /\ part = "settings" /\ SettingsNext /\ requests' = requests
  /\ UNCHANGED <<admissionVars, installVars, hostVars, deliveryVars, part>>

RunAgent ==
  /\ part = "agent" /\ AgentNext
  /\ UNCHANGED <<admissionVars, installVars, panelVars, collectorVars, reportVars,
                 deliveryVars, part>>

RunCollector ==
  /\ part = "collector" /\ CollectorNext
  /\ UNCHANGED <<admissionVars, installVars, panelVars, agentVars, reportVars,
                 deliveryVars, part>>

RunReports ==
  /\ part = "reports" /\ ReportsNext
  /\ UNCHANGED <<admissionVars, installVars, panelVars, agentVars, collectorVars,
                 deliveryVars, part>>

RunDelivery ==
  /\ part = "delivery" /\ DeliveryNext
  /\ UNCHANGED <<admissionVars, installVars, panelVars, hostVars, part>>

Next ==
  \/ RunAdmission \/ RunInstall \/ RunLogin \/ RunSettings
  \/ RunAgent \/ RunCollector \/ RunReports \/ RunDelivery

Spec == Init /\ [][Next]_vars

\* Neither table of failed clients forgets a block that has not ended (BlockKept).
BlocksLast == BlockLasts /\ InstallBlockLasts
================================================================================
