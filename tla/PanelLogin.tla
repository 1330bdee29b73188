-------------------------------- MODULE PanelLogin --------------------------------
(***************************************************************************)
(* Read-only login of the panel (auth.rs, handlers/auth_routes.rs): the    *)
(* middleware judges the password and issues a pending session, and        *)
(* /api/verify-2fa exchanges it and a one-time code for an authenticated   *)
(* session.  The store of sessions has one lock, but a verification takes  *)
(* it once for every question, so the tabs of a browser interleave.        *)
(*                                                                         *)
(* Time is counted in steps of a one-time code, 30 seconds each.  The      *)
(* number of a step comes from the wall clock, which may be set back;      *)
(* lifetimes run on the monotonic clock.  All tabs have one address, and   *)
(* each keeps its own cookies.                                             *)
(***************************************************************************)
EXTENDS AuthFailures

CONSTANTS
  Tabs,
  PendingLife,     \* TWO_FACTOR_PENDING_SECS
  SessionLife,     \* TWO_FACTOR_AUTH_SECS
  ReplayRetention, \* TWO_FACTOR_TOTP_REPLAY_RETENTION_SECS
  MaxWrongCodes,   \* TWO_FACTOR_MAX_FAILED_ATTEMPTS
  MaxSetback,      \* bound on how far the wall clock is set back
  MaxClock,        \* bounds of the model: the monotonic clock, requests of tabs
  MaxRequests

Browser == 1

ASSUME LoginAssumption ==
  /\ Browser \in Clients
  /\ {PendingLife, SessionLife, MaxWrongCodes} \subseteq Nat \ {0}
  /\ {MaxSetback, MaxClock, MaxRequests} \subseteq Nat
  /\ ReplayRetention \in Nat /\ ReplayRetention > MaxSetback

VARIABLES
  clock, setback,
  auth,           \* readonly_auth: password and secret, 0 for no second factor
  pending,        \* the pending session of each tab: its end and its wrong codes
  authenticated,  \* the end of the authenticated session of each tab, 0 for none
  usedSteps,      \* used_totp_steps
  loginFailures, sensitiveFailures, verifyFailures,  \* the three admission tables
  tab,            \* the request of each tab
  spent,          \* history: every step marked as used
  requests        \* counts the requests of tabs

loginTables == <<loginFailures, sensitiveFailures, verifyFailures>>
sessionStore == <<pending, authenticated, usedSteps, spent>>
loginClock == <<clock, setback>>
loginVars == <<loginClock, auth, sessionStore, loginTables, tab, requests>>

NoPending == [expires |-> 0, wrong |-> 0]
NoRequest == [step |-> "idle", ok |-> FALSE, sensitive |-> FALSE, second |-> FALSE, code |-> 0]
TabSteps == {"idle", "judged", "limited", "code", "mark", "open", "finish"}
Wall == clock - setback + MaxSetback

LoginTypeOK ==
  /\ clock \in 0..MaxClock /\ setback \in 0..MaxSetback
  /\ requests \in 0..MaxRequests
  /\ auth \in [password : Nat, secret : Nat]
  /\ pending \in [Tabs -> [expires : Nat, wrong : 0..MaxWrongCodes - 1]]
  /\ authenticated \in [Tabs -> Nat]
  /\ \A u \in usedSteps : u \in [code : Nat, expires : Nat]
  /\ IsTable(loginFailures) /\ IsTable(sensitiveFailures) /\ IsTable(verifyFailures)
  /\ tab \in [Tabs -> [step : TabSteps, ok : BOOLEAN, sensitive : BOOLEAN,
                       second : BOOLEAN, code : Nat]]

LoginInit ==
  /\ clock = 0 /\ setback = 0 /\ requests = 0
  /\ auth = [password |-> 0, secret |-> 1]
  /\ pending = [t \in Tabs |-> NoPending] /\ authenticated = [t \in Tabs |-> 0]
  /\ usedSteps = {} /\ spent = {}
  /\ loginFailures = EmptyTable /\ sensitiveFailures = EmptyTable
  /\ verifyFailures = EmptyTable
  /\ tab = [t \in Tabs |-> NoRequest]

InStep(t, step) == tab[t].step = step
Request(t) == InStep(t, "idle") /\ requests < MaxRequests /\ requests' = requests + 1
EndRequest(t) == tab' = [tab EXCEPT ![t] = NoRequest]
Pends(t) == pending[t].expires > clock
SignedIn(t) == authenticated[t] > clock

\* prune_expired_sessions, for the used steps; an expired session counts as none.
Unexpired == {u \in usedSteps : u.expires > clock}

StepUsed(n) == \E u \in usedSteps : u.code = n /\ u.expires > clock

\* Faulty: a step is kept for as long as it lasts.
MarkUsedBriefly(n) ==
  /\ usedSteps' = Unexpired \cup {[code |-> n, expires |-> clock + 1]}
  /\ spent' = spent \cup {n}

\* mark_totp_step_used.  The lock is not the one that is_totp_step_used took.
MarkUsed(n) ==
  /\ usedSteps' = Unexpired \cup {[code |-> n, expires |-> clock + ReplayRetention]}
  /\ spent' = spent \cup {n}

\* evaluate_readonly_auth, under the read lock of the configuration.  A tab with an
\* authenticated session passes.
Judge(t, ok, sensitive) ==
  /\ Request(t) /\ ~(auth.secret # 0 /\ SignedIn(t))
  /\ tab' = [tab EXCEPT ![t] = [NoRequest EXCEPT !.step = "judged", !.ok = ok,
                                  !.sensitive = sensitive, !.second = auth.secret # 0]]
  /\ UNCHANGED <<loginClock, auth, sessionStore, loginTables>>

\* enforce_readonly_auth_limits.
CheckLimits(t) ==
  LET barred == BlockedAt(loginFailures, Browser, clock)
      sensitive == tab[t].sensitive /\ ~barred
  IN /\ InStep(t, "judged")
     /\ loginFailures' = Checked(loginFailures, Browser, clock)
     /\ sensitiveFailures' = IF sensitive THEN Checked(sensitiveFailures, Browser, clock)
                             ELSE sensitiveFailures
     /\ IF barred \/ (sensitive /\ BlockedAt(sensitiveFailures, Browser, clock))
        THEN EndRequest(t) ELSE tab' = [tab EXCEPT ![t].step = "limited"]
     /\ UNCHANGED <<loginClock, auth, sessionStore, verifyFailures, requests>>

\* clear_readonly_auth_failures and issue_two_factor_redirect, or
\* record_readonly_login_failure.
Conclude(t) ==
  /\ InStep(t, "limited")
  /\ LET after(table) == IF tab[t].ok THEN Cleared(table, Browser)
                         ELSE WithFailure(table, Browser, clock)
     IN /\ loginFailures' = after(loginFailures)
        /\ sensitiveFailures' = IF tab[t].sensitive THEN after(sensitiveFailures)
                                ELSE sensitiveFailures
  /\ IF tab[t].ok /\ tab[t].second
     THEN /\ pending' = [pending EXCEPT ![t] = [expires |-> clock + PendingLife, wrong |-> 0]]
          /\ authenticated' = [authenticated EXCEPT ![t] = 0]   \* its cookie expires
     ELSE UNCHANGED <<pending, authenticated>>
  /\ EndRequest(t)
  /\ UNCHANGED <<loginClock, auth, usedSteps, spent, verifyFailures,
                 requests>>

\* verify_2fa_api: ensure_verify_2fa_not_blocked, then require_pending_token.
BeginVerify(t) ==
  /\ Request(t)
  /\ IF BlockedAt(verifyFailures, Browser, clock)
     THEN verifyFailures' = Checked(verifyFailures, Browser, clock) /\ UNCHANGED tab
     ELSE IF Pends(t)
     THEN /\ verifyFailures' = Checked(verifyFailures, Browser, clock)
          /\ tab' = [tab EXCEPT ![t].step = "code"]
     ELSE verifyFailures' = WithFailure(verifyFailures, Browser, clock) /\ UNCHANGED tab
  /\ UNCHANGED <<loginClock, auth, sessionStore, loginFailures, sensitiveFailures>>

\* current_unused_totp_step: a right code is one of the current step.
CodeAccepted(t) ==
  /\ InStep(t, "code") /\ auth.secret # 0 /\ ~StepUsed(Wall)
  /\ tab' = [tab EXCEPT ![t].step = "mark", ![t].code = Wall]
  /\ UNCHANGED <<loginClock, auth, sessionStore, loginTables, requests>>

\* record_failed_attempt: one wrong code more, and the pending session ends at the last.
WrongCode(t) ==
  LET wrong == pending[t].wrong + 1
  IN pending' = [pending EXCEPT ![t] =
                   IF Pends(t) /\ wrong < MaxWrongCodes THEN [pending[t] EXCEPT !.wrong = wrong]
                   ELSE NoPending]

\* handle_invalid_totp.
CodeRefused(t) ==
  /\ InStep(t, "code")
  /\ WrongCode(t)
  /\ verifyFailures' = WithFailure(verifyFailures, Browser, clock)
  /\ EndRequest(t)
  /\ UNCHANGED <<loginClock, auth, authenticated, usedSteps, spent, loginFailures,
                 sensitiveFailures, requests>>

MarkStep(t) ==
  /\ InStep(t, "mark")
  /\ MarkUsed(tab[t].code)
  /\ tab' = [tab EXCEPT ![t].step = "open"]
  /\ UNCHANGED <<loginClock, auth, pending, authenticated, loginTables, requests>>

\* create_authenticated.
OpenSession(t) ==
  /\ InStep(t, "open")
  /\ authenticated' = [authenticated EXCEPT ![t] = clock + SessionLife]
  /\ tab' = [tab EXCEPT ![t].step = "finish"]
  /\ UNCHANGED <<loginClock, auth, pending, usedSteps, spent, loginTables, requests>>

\* consume_pending and clear_auth_failures.
FinishVerify(t) ==
  /\ InStep(t, "finish")
  /\ pending' = [pending EXCEPT ![t] = NoPending]
  /\ verifyFailures' = Cleared(verifyFailures, Browser)
  /\ EndRequest(t)
  /\ UNCHANGED <<loginClock, auth, authenticated, usedSteps, spent, loginFailures,
                 sensitiveFailures, requests>>

\* logout_and_reauth.
Logout(t) ==
  /\ InStep(t, "idle") /\ authenticated[t] # 0
  /\ authenticated' = [authenticated EXCEPT ![t] = 0]
  /\ UNCHANGED <<loginClock, auth, pending, usedSteps, spent, loginTables, tab, requests>>

ClockTicks ==
  /\ clock < MaxClock
  /\ clock' = clock + 1
  /\ UNCHANGED <<setback, auth, sessionStore, loginTables, tab, requests>>

WallSetBack ==
  /\ setback < MaxSetback
  /\ setback' = setback + 1
  /\ UNCHANGED <<clock, auth, sessionStore, loginTables, tab, requests>>

LoginNext ==
  \/ \E t \in Tabs :
       \/ \E ok, sensitive \in BOOLEAN : Judge(t, ok, sensitive)
       \/ CheckLimits(t) \/ Conclude(t) \/ BeginVerify(t) \/ CodeAccepted(t)
       \/ CodeRefused(t) \/ MarkStep(t) \/ OpenSession(t) \/ FinishVerify(t) \/ Logout(t)
  \/ ClockTicks \/ WallSetBack

--------------------------------------------------------------------------------
\* A step that was marked as used before a verification looks at it is refused, also
\* when the wall clock is set back by less than the retention; only verifications that
\* overlap can share a step (is_totp_step_used, mark_totp_step_used, prune_expired_sessions).
SpentStepsAreRefused ==
  [][\A t \in Tabs : tab[t].step = "code" /\ tab'[t].step = "mark" =>
       tab'[t].code \notin spent]_loginVars
================================================================================
