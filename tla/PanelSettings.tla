------------------------------ MODULE PanelSettings -------------------------------
(***************************************************************************)
(* The settings that the panel edits (handlers/settings): password, second *)
(* factor and alerting.  An edit copies the running configuration,         *)
(* confirms the user, rewrites one section of server.toml through a        *)
(* temporary file whose name is always the same, and then replaces the     *)
(* running copy.  Nothing holds a lock from the first step to the last,    *)
(* and the process may stop at any point.                                  *)
(*                                                                         *)
(* A file is what its name leads to: inodes are numbered in the order of   *)
(* their creation, and an editor writes into the inode it opened.          *)
(***************************************************************************)
EXTENDS PanelLogin

CONSTANTS
  Editors,   \* settings requests that can be under way at once
  MaxEdits   \* bound of the model: edits begun

ASSUME SettingsAssumption == MaxEdits \in Nat

VARIABLES
  alerting,    \* the running alerting configuration, as a number
  configFile,  \* the inode of server.toml
  configTmp,   \* the inode of server.toml.tmp, 0 for none
  inode,       \* what each inode holds, Partial while it is being written
  edit,        \* what each editor does
  edits,       \* counts the edits, and makes the values that they set
  overlapped   \* history: two edits were under way at once

configDisk == <<configFile, configTmp, inode>>
settingsVars == <<alerting, configDisk, edit, edits, overlapped>>

Kinds == {"password", "enable", "disable", "alerting"}
Partial == [password |-> 0, secret |-> 0, alerting |-> 0, whole |-> FALSE]
NoEdit == [step |-> "idle", kind |-> "password", next |-> [password |-> 0, secret |-> 0],
           value |-> 0, content |-> Partial, fd |-> 0]
EditSteps == {"idle", "confirmed", "read", "open", "written", "saved", "clear"}
Contents == [password : 0..MaxEdits, secret : 0..MaxEdits + 1, alerting : 0..MaxEdits,
             whole : BOOLEAN]

SettingsTypeOK ==
  /\ alerting \in 0..MaxEdits /\ edits \in 0..MaxEdits
  /\ inode \in Seq(Contents)
  /\ configFile \in DOMAIN inode /\ configTmp \in DOMAIN inode \cup {0}
  /\ configTmp # configFile
  /\ \A e \in Editors : edit[e].step \in EditSteps /\ edit[e].content \in Contents

SettingsInit ==
  /\ alerting = 0 /\ configFile = 1 /\ configTmp = 0
  /\ inode = <<[password |-> 0, secret |-> 1, alerting |-> 0, whole |-> TRUE]>>
  /\ edit = [e \in Editors |-> NoEdit] /\ edits = 0 /\ overlapped = FALSE

At(e, step) == edit[e].step = step
MoveEdit(e, step) == edit' = [edit EXCEPT ![e].step = step]
EndEdit(e) == edit' = [edit EXCEPT ![e] = NoEdit]
Editing == {e \in Editors : ~At(e, "idle")}

\* update_auth_password, update_auth_2fa, update_alerting_settings: the edited section
\* is replaced and the rest of the file kept.
Edited(content, kind, next, value) ==
  CASE kind = "password" -> [content EXCEPT !.password = next.password]
    [] kind \in {"enable", "disable"} -> [content EXCEPT !.secret = next.secret]
    [] kind = "alerting" -> [content EXCEPT !.alerting = value]

\* change_readonly_password, enable_two_factor, disable_two_factor and
\* update_alert_settings up to the confirmation, with a right password; a wrong one
\* changes nothing.  The configuration is copied and its lock released.
BeginEdit(e, kind) ==
  /\ At(e, "idle") /\ edits < MaxEdits
  /\ kind = "disable" => auth.secret # 0
  /\ edits' = edits + 1
  /\ overlapped' = (overlapped \/ Editing # {})
  /\ edit' = [edit EXCEPT ![e] =
       [NoEdit EXCEPT !.step = "confirmed", !.kind = kind, !.value = edits',
          !.next = CASE kind = "password" -> [auth EXCEPT !.password = edits']
                     [] kind = "enable" -> [auth EXCEPT !.secret = edits' + 1]
                     [] kind = "disable" -> [auth EXCEPT !.secret = 0]
                     [] kind = "alerting" -> auth]]
  /\ UNCHANGED <<alerting, configDisk, loginVars>>

\* With a second factor, and to switch it on or off, a code of the current step that is
\* not used yet is needed, and marked at once.
ConfirmEdit(e) ==
  /\ At(e, "confirmed")
  /\ IF edit[e].kind \in {"enable", "disable"}
          \/ (edit[e].kind = "alerting" /\ edit[e].next.secret # 0)
     THEN IF StepUsed(Wall) THEN EndEdit(e) /\ UNCHANGED <<usedSteps, spent>>
          ELSE MarkUsed(Wall) /\ MoveEdit(e, "read")
     ELSE MoveEdit(e, "read") /\ UNCHANGED <<usedSteps, spent>>
  /\ UNCHANGED <<loginClock, auth, pending, authenticated, loginTables, tab, requests,
                 alerting, configDisk, edits, overlapped>>

\* Faulty: the running copy is replaced when the confirmation is through.
ApplyFirst(e) ==
  /\ At(e, "read") /\ edit[e].kind # "alerting"
  /\ auth' = edit[e].next
  /\ LET content == inode[configFile]
     IN edit' = [edit EXCEPT ![e].step = "open", ![e].content =
                   Edited(content, edit[e].kind, edit[e].next, edit[e].value)]
  /\ UNCHANGED <<loginClock, sessionStore, loginTables, tab, requests, alerting,
                 configDisk, edits, overlapped>>

\* The file is read, edited and validated; a file that is not whole is refused.
ReadConfig(e) ==
  /\ At(e, "read")
  /\ LET content == inode[configFile]
     IN IF ~content.whole THEN EndEdit(e)
        ELSE edit' = [edit EXCEPT ![e].step = "open", ![e].content =
                        Edited(content, edit[e].kind, edit[e].next, edit[e].value)]
  /\ UNCHANGED <<loginVars, alerting, configDisk, edits, overlapped>>

\* fs::write creates the temporary file, or truncates the one that is there.
OpenTmp(e) ==
  /\ At(e, "open") /\ edit[e].fd = 0
  /\ LET fd == IF configTmp = 0 THEN Len(inode) + 1 ELSE configTmp
     IN /\ inode' = IF configTmp = 0 THEN Append(inode, Partial)
                    ELSE [inode EXCEPT ![fd] = Partial]
        /\ configTmp' = fd
        /\ edit' = [edit EXCEPT ![e].fd = fd]
  /\ UNCHANGED <<loginVars, alerting, configFile, edits, overlapped>>

WriteTmp(e) ==
  /\ At(e, "open") /\ edit[e].fd # 0
  /\ inode' = [inode EXCEPT ![edit[e].fd] = edit[e].content]
  /\ MoveEdit(e, "written")
  /\ UNCHANGED <<loginVars, alerting, configFile, configTmp, edits, overlapped>>

\* Any of the operations on files can fail, and the edit with it.
EditFails(e) ==
  /\ edit[e].step \in {"read", "open", "written"}
  /\ EndEdit(e)
  /\ UNCHANGED <<loginVars, alerting, configDisk, edits, overlapped>>

\* The name may lead to the file of another edit by now, or to none.
RenameTmp(e) ==
  /\ At(e, "written")
  /\ IF configTmp = 0 THEN EndEdit(e) /\ UNCHANGED configDisk
     ELSE configFile' = configTmp /\ configTmp' = 0 /\ MoveEdit(e, "saved") /\ UNCHANGED inode
  /\ UNCHANGED <<loginVars, alerting, edits, overlapped>>

\* The running copy follows: all of the copied authentication, or the alerting.
ApplyEdit(e) ==
  /\ At(e, "saved")
  /\ IF edit[e].kind = "alerting"
     THEN alerting' = edit[e].value /\ EndEdit(e) /\ UNCHANGED auth
     ELSE auth' = edit[e].next /\ MoveEdit(e, "clear") /\ UNCHANGED alerting
  /\ UNCHANGED <<loginClock, sessionStore, loginTables, tab, requests, configDisk, edits,
                 overlapped>>

\* clear_authenticated ends every session; who enabled the second factor gets a new
\* one, on a tab of its own.
ClearSessions(e) ==
  /\ At(e, "clear")
  /\ \E own \in Tabs :
       authenticated' = [t \in Tabs |-> IF edit[e].kind = "enable" /\ t = own
                                        THEN clock + SessionLife ELSE 0]
  /\ EndEdit(e)
  /\ UNCHANGED <<loginClock, auth, pending, usedSteps, spent, loginTables, tab, requests,
                 alerting, configDisk, edits, overlapped>>

\* The process stops and starts again from the file, if it can be read.
Restart ==
  /\ inode[configFile].whole
  /\ Editing # {}
  /\ auth' = [password |-> inode[configFile].password, secret |-> inode[configFile].secret]
  /\ alerting' = inode[configFile].alerting
  /\ edit' = [e \in Editors |-> NoEdit] /\ overlapped' = FALSE
  /\ pending' = [t \in Tabs |-> NoPending] /\ authenticated' = [t \in Tabs |-> 0]
  /\ usedSteps' = {} /\ spent' = {}
  /\ loginFailures' = EmptyTable /\ sensitiveFailures' = EmptyTable
  /\ verifyFailures' = EmptyTable /\ tab' = [t \in Tabs |-> NoRequest]
  /\ UNCHANGED <<loginClock, requests, configDisk, edits>>

EditNext ==
  \/ \E e \in Editors :
       \/ \E kind \in Kinds : BeginEdit(e, kind)
       \/ ConfirmEdit(e) \/ ReadConfig(e) \/ OpenTmp(e) \/ WriteTmp(e) \/ EditFails(e)
       \/ RenameTmp(e) \/ ApplyEdit(e) \/ ClearSessions(e)
  \/ Restart

SettingsNext == EditNext \/ (LoginNext /\ UNCHANGED settingsVars)

--------------------------------------------------------------------------------
RuntimeMatchesFile ==
  LET content == inode[configFile]
  IN Editing = {} =>
       content = [password |-> auth.password, secret |-> auth.secret,
                  alerting |-> alerting, whole |-> TRUE]

\* When no edit is under way, what the server runs with is what server.toml says, and
\* the file is whole, whatever failed or crashed half way; only edits that overlap can
\* make them differ (persist_updated_content, change_readonly_password).
RuntimeFollowsFile == overlapped \/ RuntimeMatchesFile

================================================================================
