---------------------------- MODULE AuthSessions ----------------------------
(***************************************************************************)
(* A signed-in browser tab and the auth service: the access token kept in  *)
(* memory, the persisted user, the refresh cookie, the one refresh all     *)
(* failing requests share, logout, the login forms, the demo limit and the *)
(* reload of the page.                                                     *)
(*   client: axios/api.ts, components/auth/AuthProvider.tsx,               *)
(*           components/providers/ConnectionProvider.tsx                   *)
(*   server: UserController.java, UserService.java,                        *)
(*           JwtAuthenticationFilter.java, gateway routes.ts               *)
(* Tokens are numbered in the order they are issued; an access token and   *)
(* the refresh token issued with it share their number, 0 is "none".  The  *)
(* closures of React are taken to be those of the last render.             *)
(***************************************************************************)
EXTENDS Naturals

CONSTANTS Boot,          \* the request checkToken sends when the page loads
          Others,        \* the other requests that can be in flight
          MaxTokens,     \* bound: token pairs the service issues
          RefreshLimit,  \* refreshes the gateway lets through in a window
          DemoMode,      \* accounts end after the demo's duration
          Denials        \* statuses of the auth service for no valid token

ASSUME AuthAssumption == /\ Boot \notin Others
                         /\ MaxTokens \in Nat \ {0}
                         /\ RefreshLimit \in Nat
                         /\ DemoMode \in BOOLEAN
                         /\ Denials \subseteq {"401", "403"}

Req == Others \union {Boot}

Tokens == 0 .. MaxTokens

(* hub: a service that checks the token only, or the signalling handshake; *)
(* auth: the auth service; wrong: an auth request with a wrong MFA code or *)
(* password.                                                               *)
Kinds == {"me", "hub", "auth", "wrong", "delete"}

VARIABLES
    ui,       \* what the tab holds: token, persisted user, forms, dialog
    req,      \* each request: its stage, kind and the token in its header
    queue,    \* _refreshQueue: the requests that wait for the refresh
    refresh,  \* the refresh in flight, led by one request
    logout,   \* the logout in flight, and what asked for it
    login,    \* the login, registration or MFA form in flight
    cookie,   \* the refresh token the browser holds
    srv       \* tokens issued and dead, the account, the limiter

vars == <<ui, req, queue, refresh, logout, login, cookie, srv>>

NoRefresh == [st |-> "none", by |-> Boot, tok |-> 0]
NoLogout  == [st |-> "none", by |-> "", tok |-> 0]
NoLogin   == [st |-> "none", tok |-> 0]
Idle      == [st |-> "idle", kind |-> "hub", tok |-> 0]

TypeOK ==
    /\ ui \in [token: Tokens, persisted: BOOLEAN, signedIn: BOOLEAN,
               pendingMfa: BOOLEAN, loading: BOOLEAN, dialog: BOOLEAN]
    /\ req \in [Req -> [st: {"idle", "sent", "200", "401", "403", "demo", "lost", "waiting", "leaving"},
                        kind: Kinds, tok: Tokens]]
    /\ queue \subseteq Req
    /\ refresh \in [st: {"none", "sent", "ok", "demo", "refused", "lost"}, by: Req, tok: Tokens]
    /\ logout \in [st: {"none", "sent", "done", "failed"},
                   by: {"", "user", "delete", "refused", "boot"}, tok: Tokens]
    /\ login \in [st: {"none", "sent", "ok", "mfa", "demo", "failed"}, tok: Tokens]
    /\ cookie \in Tokens
    /\ srv \in [last: Tokens, expired: SUBSET Tokens, dead: SUBSET Tokens, rdead: SUBSET Tokens,
                exists: BOOLEAN, demoOver: BOOLEAN, mfa: BOOLEAN, tries: 0 .. RefreshLimit]

\* Mutant: the user is forgotten and signedIn is not.
SignedOutOfUser(u) == [u EXCEPT !.token = 0, !.persisted = FALSE, !.pendingMfa = FALSE]

(* clearAuthState, presentDemoLimitDialog, establishAuthenticatedSession.  *)
SignedOut(u) == [u EXCEPT !.token = 0, !.persisted = FALSE, !.signedIn = FALSE,
                          !.pendingMfa = FALSE]

DemoLimited(u) == [SignedOut(u) EXCEPT !.dialog = TRUE]

Established(u, t) == [u EXCEPT !.token = t, !.persisted = TRUE, !.signedIn = TRUE,
                               !.pendingMfa = FALSE]

ResetLoginFlow(u) == [u EXCEPT !.signedIn = FALSE, !.pendingMfa = FALSE]

(* logout(): nothing while one is in flight, no request without a token.   *)
LogoutPosts(u) == logout.st = "none" /\ u.token # 0

Logout(u, by) ==
    /\ logout' = IF LogoutPosts(u) THEN [st |-> "sent", by |-> by, tok |-> u.token] ELSE logout
    /\ ui' = IF logout.st = "none" /\ u.token = 0 THEN SignedOut(u) ELSE u

(* The caller of a request gets an answer that is not a success: checkToken *)
(* takes it for an invalid session and logs out, others only report it.    *)
FailedBoot(u) == [u EXCEPT !.signedIn = FALSE, !.loading = FALSE]
\* Mutant: every request that fails ends the session.
FailedForGood(R, u) == Logout(u, "boot")


Failed(R, u) ==
    IF \E r \in R : req[r].kind = "me" THEN Logout(FailedBoot(u), "boot")
                                       ELSE ui' = u /\ UNCHANGED logout

Settled(R) == [r \in Req |-> IF r \in R THEN Idle ELSE req[r]]

-----------------------------------------------------------------------------
(* Requests.                                                               *)

Loaded(u) == [u EXCEPT !.token = 0, !.signedIn = u.persisted, !.pendingMfa = FALSE,
                       !.loading = u.persisted, !.dialog = FALSE]

BootReq(persisted) ==
    IF persisted THEN [st |-> "sent", kind |-> "me", tok |-> 0] ELSE Idle

(* A tab that never signed in, or one opened with a persisted user.        *)
Init ==
    \E p \in BOOLEAN :
      /\ ui = [token |-> 0, persisted |-> p, signedIn |-> p, pendingMfa |-> FALSE,
               loading |-> p, dialog |-> FALSE]
      /\ req = [r \in Req |-> IF r = Boot THEN BootReq(p) ELSE Idle]
      /\ queue = {}
      /\ refresh = NoRefresh
      /\ logout = NoLogout
      /\ login = NoLogin
      /\ cookie = IF p THEN 1 ELSE 0
      /\ srv \in [last: {IF p THEN 1 ELSE 0}, expired: {{}}, dead: {{}}, rdead: {{}}, exists: {TRUE},
                  demoOver: {FALSE}, mfa: BOOLEAN, tries: {0}]

(* Everything in memory is lost; the persisted user and the cookie stay.   *)
Reload ==
    /\ ui' = Loaded(ui)
    /\ req' = [r \in Req |-> IF r = Boot THEN BootReq(ui.persisted) ELSE Idle]
    /\ queue' = {}
    /\ refresh' = NoRefresh
    /\ logout' = NoLogout
    /\ login' = NoLogin
    /\ UNCHANGED <<cookie, srv>>

Send(r, kind) ==
    /\ req[r].st = "idle"
    /\ ui.token # 0
    /\ kind # "auth" => ui.signedIn /\ ~ui.loading
    /\ req' = [req EXCEPT ![r] = [st |-> "sent", kind |-> kind, tok |-> ui.token]]
    /\ UNCHANGED <<ui, queue, refresh, logout, login, cookie, srv>>

Expired(t) == t = 0 \/ t \in srv.expired

(* The gateway checks the token of every service but the auth service,     *)
(* whose filter also knows the revoked ones and the accounts: Spring       *)
(* Security denies what it leaves unauthenticated, with 403 unless an      *)
(* entry point is configured (none is; the frontend's tests expect 401).   *)
Answers(r) ==
    IF req[r].kind = "hub" THEN IF Expired(req[r].tok) THEN {"401"} ELSE {"200"}
    ELSE IF Expired(req[r].tok) \/ req[r].tok \in srv.dead THEN Denials
    ELSE IF srv.demoOver THEN {"demo"}
    ELSE IF req[r].kind = "wrong" THEN {"401"}
    ELSE {"200"}

Deleted(s) == [s EXCEPT !.exists = FALSE, !.dead = 1 .. s.last, !.rdead = 1 .. s.last]

ServerAnswers(r) ==
    /\ req[r].st = "sent"
    /\ \E a \in Answers(r) :
         /\ req' = [req EXCEPT ![r].st = a]
         /\ srv' = IF req[r].kind = "delete" /\ a = "200" THEN Deleted(srv) ELSE srv
    /\ UNCHANGED <<ui, queue, refresh, logout, login, cookie>>

(* The network failed, or a limiter refused.                               *)
RequestLost(r) ==
    /\ req[r].st = "sent"
    /\ req' = [req EXCEPT ![r].st = "lost"]
    /\ UNCHANGED <<ui, queue, refresh, logout, login, cookie, srv>>

(* The caller's continuation on 200, on a failure, on the demo limit.      *)
ReceiveOk(r) ==
    /\ req[r].st = "200"
    /\ req' = Settled({r})
    /\ CASE req[r].kind = "me" ->
              /\ ui' = [ui EXCEPT !.persisted = TRUE, !.signedIn = TRUE, !.loading = FALSE]
              /\ UNCHANGED logout
         [] req[r].kind = "delete" -> Logout(ui, "delete")
         [] OTHER -> UNCHANGED <<ui, logout>>
    /\ UNCHANGED <<queue, refresh, login, cookie, srv>>

ReceiveFailed(r) ==
    /\ req[r].st \in {"403", "lost"}
    /\ req' = Settled({r})
    /\ Failed({r}, ui)
    /\ UNCHANGED <<queue, refresh, login, cookie, srv>>

ReceiveDemoLimit(r) ==
    /\ req[r].st = "demo"
    /\ req' = Settled({r})
    /\ Failed({r}, DemoLimited(ui))
    /\ UNCHANGED <<queue, refresh, login, cookie, srv>>

(* A 401 the interceptor leaves to the caller: no token went with it.      *)
Ignored(r) ==
    /\ req[r].tok = 0
    /\ req[r].kind = "me" => ~ui.persisted

(* The other 401s: recoverFromAuthFailure, which wakes everyone with no    *)
(* token when there is no user to recover.                                 *)
NoRecovery(r) == IF Ignored(r) THEN {r} ELSE queue \union {r}
\* Mutant: a 401 that comes when there is no user any more joins the queue.
ReceiveRefusedLate(r) ==
    /\ req[r].st = "401"
    /\ Ignored(r)
    /\ req' = Settled({r})
    /\ UNCHANGED queue
    /\ Failed({r}, ui)
    /\ UNCHANGED <<refresh, login, cookie, srv>>


ReceiveRefused(r) ==
    /\ req[r].st = "401"
    /\ Ignored(r) \/ ~ui.persisted
    /\ req' = Settled(NoRecovery(r))
    /\ queue' = queue \ NoRecovery(r)
    /\ Failed(NoRecovery(r), ui)
    /\ UNCHANGED <<refresh, login, cookie, srv>>

JoinRefresh(r) ==
    /\ req[r].st = "401"
    /\ ~Ignored(r)
    /\ ui.persisted
    /\ req' = [req EXCEPT ![r].st = "waiting"]
    /\ IF refresh.st = "none"
         THEN /\ refresh' = [st |-> "sent", by |-> r, tok |-> cookie]
              /\ UNCHANGED queue
         ELSE /\ queue' = queue \union {r}
              /\ UNCHANGED refresh
    /\ UNCHANGED <<ui, logout, login, cookie, srv>>

-----------------------------------------------------------------------------
(* The refresh.                                                            *)

RefreshAnswer ==
    IF srv.tries = RefreshLimit \/ refresh.tok \in srv.rdead \union {0} \/ ~srv.exists
      THEN "refused"
    ELSE IF srv.demoOver THEN "demo" ELSE "ok"

(* A new pair is issued; the old refresh token stays valid.                *)
ServerRefreshes ==
    /\ refresh.st = "sent"
    /\ RefreshAnswer = "ok" => srv.last < MaxTokens
    /\ refresh' = [refresh EXCEPT !.st = RefreshAnswer,
                                  !.tok = IF RefreshAnswer = "ok" THEN srv.last + 1 ELSE 0]
    /\ srv' = [srv EXCEPT !.tries = IF @ = RefreshLimit THEN @ ELSE @ + 1,
                          !.last = IF RefreshAnswer = "ok" THEN @ + 1 ELSE @]
    /\ UNCHANGED <<ui, req, queue, logout, login, cookie>>

RefreshLost ==
    /\ refresh.st = "sent"
    /\ refresh' = [refresh EXCEPT !.st = "lost"]
    /\ UNCHANGED <<ui, req, queue, logout, login, cookie, srv>>

Recovering == queue \union {refresh.by}

(* The token is installed and every waiting request is sent again with it. *)
Recovered ==
    /\ refresh.st = "ok"
    /\ ui' = [ui EXCEPT !.token = refresh.tok]
    /\ cookie' = refresh.tok
    /\ req' = [r \in Req |-> IF r \in Recovering
                             THEN [req[r] EXCEPT !.st = "sent", !.tok = refresh.tok]
                             ELSE req[r]]
    /\ queue' = {}
    /\ refresh' = NoRefresh
    /\ UNCHANGED <<logout, login, srv>>
\* Mutant: only the leader is answered when the demo is over.
RecoveryDemoLimitedAlone ==
    /\ refresh.st = "demo"
    /\ Failed({refresh.by}, DemoLimited(ui))
    /\ req' = Settled({refresh.by})
    /\ refresh' = NoRefresh
    /\ UNCHANGED <<queue, login, cookie, srv>>


RecoveryDemoLimited ==
    /\ refresh.st = "demo"
    /\ Failed(Recovering, DemoLimited(ui))
    /\ req' = Settled(Recovering)
    /\ queue' = {}
    /\ refresh' = NoRefresh
    /\ UNCHANGED <<login, cookie, srv>>

(* The others are answered; the leader waits for the logout to end.        *)
RecoveryRefused ==
    /\ refresh.st \in {"refused", "lost"}
    /\ LET done == IF LogoutPosts(ui) THEN queue ELSE Recovering
           boot == \E r \in done : req[r].kind = "me"
       IN /\ req' = [r \in Req |-> IF r \in done THEN Idle
                                   ELSE IF r = refresh.by THEN [req[r] EXCEPT !.st = "leaving"]
                                   ELSE req[r]]
          /\ Logout(IF boot THEN FailedBoot(ui) ELSE ui, "refused")
    /\ queue' = {}
    /\ refresh' = NoRefresh
    /\ UNCHANGED <<login, cookie, srv>>

-----------------------------------------------------------------------------
(* Logout.                                                                 *)

UserLogsOut ==
    /\ ui.signedIn \/ (ui.pendingMfa /\ login.st = "none")
    /\ ~ui.loading
    /\ logout.st = "none"
    /\ Logout(ui, "user")
    /\ UNCHANGED <<req, queue, refresh, login, cookie, srv>>

(* The gateway refuses an expired token; the service revokes both tokens.  *)
ServerLogsOut ==
    /\ logout.st = "sent"
    /\ LET ok == ~Expired(logout.tok) /\ logout.tok \notin srv.dead
       IN /\ logout' = [logout EXCEPT !.st = IF ok THEN "done" ELSE "failed"]
          /\ srv' = IF ok THEN [srv EXCEPT !.dead = @ \union {logout.tok},
                                           !.rdead = @ \union {cookie}]
                          ELSE srv
    /\ UNCHANGED <<ui, req, queue, refresh, login, cookie>>

LogoutLost ==
    /\ logout.st = "sent"
    /\ logout' = [logout EXCEPT !.st = "failed"]
    /\ UNCHANGED <<ui, req, queue, refresh, login, cookie, srv>>

Leaving == {r \in Req : req[r].st = "leaving"}

LoggedOut ==
    /\ logout.st \in {"done", "failed"}
    /\ LET boot == \E r \in Leaving : req[r].kind = "me"
       IN ui' = SignedOut(IF boot THEN FailedBoot(ui) ELSE ui)
    /\ cookie' = IF logout.st = "done" THEN 0 ELSE cookie
    /\ req' = Settled(Leaving)
    /\ logout' = NoLogout
    /\ UNCHANGED <<queue, refresh, login, srv>>

-----------------------------------------------------------------------------
(* The forms and the demo dialog.                                          *)

SubmitForm ==
    /\ ~ui.signedIn /\ ~ui.loading /\ ~ui.dialog
    /\ login.st = "none"
    /\ login' = [NoLogin EXCEPT !.st = "sent"]
    /\ UNCHANGED <<ui, req, queue, refresh, logout, cookie, srv>>

Issue(s) == [s EXCEPT !.last = @ + 1]

(* login and verifyMfa: the second factor is asked for once the password   *)
(* is right, an account whose demo is over gets a demo token only.         *)
ServerLogsIn ==
    /\ login.st = "sent"
    /\ \/ /\ login' = [login EXCEPT !.st = "failed"]
          /\ UNCHANGED srv
       \/ /\ srv.exists /\ srv.mfa /\ ~ui.pendingMfa
          /\ login' = [login EXCEPT !.st = "mfa"]
          /\ UNCHANGED srv
       \/ /\ srv.exists /\ (srv.mfa => ui.pendingMfa) /\ srv.demoOver
          /\ login' = [login EXCEPT !.st = "demo"]
          /\ UNCHANGED srv
       \/ /\ srv.exists /\ (srv.mfa => ui.pendingMfa) /\ ~srv.demoOver
          /\ srv.last < MaxTokens
          /\ srv' = Issue(srv)
          /\ login' = [st |-> "ok", tok |-> srv.last + 1]
    /\ UNCHANGED <<ui, req, queue, refresh, logout, cookie>>

ServerRegisters ==
    /\ login.st = "sent"
    /\ ~srv.exists
    /\ srv.last < MaxTokens
    /\ srv' = [Issue(srv) EXCEPT !.exists = TRUE, !.demoOver = FALSE, !.mfa = FALSE]
    /\ login' = [st |-> "ok", tok |-> srv.last + 1]
    /\ UNCHANGED <<ui, req, queue, refresh, logout, cookie>>

FormAnswered ==
    /\ login.st \in {"ok", "mfa", "demo", "failed"}
    /\ ui' = CASE login.st = "ok"   -> Established(ui, login.tok)
               [] login.st = "mfa"  -> [ui EXCEPT !.pendingMfa = TRUE]
               [] login.st = "demo" -> DemoLimited(ui)
               [] OTHER -> IF ui.pendingMfa THEN [ui EXCEPT !.signedIn = FALSE]
                                            ELSE ResetLoginFlow(ui)
    /\ cookie' = IF login.st = "ok" THEN login.tok ELSE cookie
    /\ login' = NoLogin
    /\ UNCHANGED <<req, queue, refresh, logout, srv>>

(* The dialog is closed, or used to delete the account.                    *)
CloseDialog ==
    /\ ui.dialog
    /\ ui' = [ui EXCEPT !.dialog = FALSE]
    /\ UNCHANGED <<req, queue, refresh, logout, login, cookie, srv>>

DeleteDemoAccount ==
    /\ ui.dialog
    /\ srv.exists /\ DemoMode
    /\ srv' = Deleted(srv)
    /\ ui' = [SignedOut(ui) EXCEPT !.dialog = FALSE]
    /\ UNCHANGED <<req, queue, refresh, logout, login, cookie>>

-----------------------------------------------------------------------------
(* Time.                                                                   *)

Expires(t) ==
    /\ t \in 1 .. srv.last
    /\ \/ srv' = [srv EXCEPT !.expired = @ \union {t}]
       \/ srv' = [srv EXCEPT !.expired = @ \union {t}, !.rdead = @ \union {t}]
    /\ UNCHANGED <<ui, req, queue, refresh, logout, login, cookie>>

DemoEnds ==
    /\ DemoMode /\ srv.exists
    /\ srv' = [srv EXCEPT !.demoOver = TRUE]
    /\ UNCHANGED <<ui, req, queue, refresh, logout, login, cookie>>

Next ==
    \/ \E r \in Others, k \in Kinds \ {"me"} : Send(r, k)
    \/ \E r \in Req : \/ ServerAnswers(r) \/ RequestLost(r) \/ ReceiveOk(r) \/ ReceiveFailed(r)
                      \/ ReceiveDemoLimit(r) \/ ReceiveRefused(r) \/ JoinRefresh(r)
    \/ ServerRefreshes \/ RefreshLost
    \/ Recovered \/ RecoveryDemoLimited \/ RecoveryRefused
    \/ UserLogsOut \/ ServerLogsOut \/ LogoutLost \/ LoggedOut
    \/ SubmitForm \/ ServerLogsIn \/ ServerRegisters \/ FormAnswered
    \/ CloseDialog \/ DeleteDemoAccount
    \/ Reload \/ DemoEnds
    \/ \E t \in Tokens : Expires(t)

(* Requests, refreshes and logouts are answered or fail; the browser runs  *)
(* the continuations.                                                      *)
Fairness ==
    /\ \A r \in Req :
         /\ WF_vars(ServerAnswers(r) \/ RequestLost(r))
         /\ WF_vars(ReceiveOk(r) \/ ReceiveFailed(r) \/ ReceiveDemoLimit(r)
                    \/ ReceiveRefused(r) \/ JoinRefresh(r))
    /\ WF_vars(ServerRefreshes \/ RefreshLost)
    /\ WF_vars(Recovered \/ RecoveryDemoLimited \/ RecoveryRefused)
    /\ WF_vars(ServerLogsOut \/ LogoutLost)
    /\ WF_vars(LoggedOut)

Spec == Init /\ [][Next]_vars /\ Fairness

-----------------------------------------------------------------------------
(* A request is parked only while a refresh or a logout is in flight that  *)
(* will wake it: nobody is left in _refreshQueue, or behind a logout, once *)
(* the refresh or the logout it waits for is over (api.ts:165-218).        *)
NobodyIsForgotten ==
    /\ \A r \in Req : req[r].st = "waiting" <=>
                        r \in queue \/ (refresh.st # "none" /\ r = refresh.by)
    /\ queue # {} => refresh.st # "none"
    /\ Leaving # {} => logout.st # "none"

(* A session ends for a reason only: the user or the deletion of the       *)
(* account asked for it, the shared refresh was refused or lost, the demo  *)
(* ended, or the request of the page's load failed.  The expiry of an      *)
(* access token never ends a session by itself, whichever requests find it *)
(* out together (api.ts:165-279, AuthProvider.tsx:142-168).                *)
Ends == /\ ui.persisted /\ logout.st = "none"
        /\ ~ui'.persisted \/ logout'.st = "sent"

SessionsEndForAReason ==
    [][Ends => \/ logout'.by \in {"user", "delete"}
               \/ refresh.st \in {"refused", "lost"}
               \/ ui.dialog \/ ui'.dialog
               \/ \E r \in Req : req[r].kind = "me" /\ req[r].st \in {"lost", "403"}
               \/ ~ui.loading /\ ui.token = 0]_vars

(* Every request is answered to its caller in the end, the one the page    *)
(* waits for while it loads included, whatever becomes of the token, the   *)
(* refresh and the network, unless the page is reloaded for ever.  A       *)
(* request that carries a wrong code is refreshed and sent again each time *)
(* it is refused: only the limiter on refreshes ends that                  *)
(* (api.ts:226-264, AuthProvider.tsx:240-269).                             *)
AnswersComeBack ==
    \A r \in Req : []<><<Reload>>_vars \/ []<>(req[r].st = "idle")

(* Once nothing is in flight the tab is either wholly signed in or wholly  *)
(* signed out.                                                             *)
Quiet == /\ \A r \in Req : req[r].st = "idle"
         /\ refresh.st = "none" /\ logout.st = "none" /\ login.st = "none"

QuietIsConsistent ==
    Quiet => ~ui.loading /\ ui.signedIn = ui.persisted
=============================================================================
