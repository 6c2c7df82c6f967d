------------------------------ MODULE AuthProofs ------------------------------
(***************************************************************************)
(* The safety of AuthSessions and of Accounts, for any number of requests,  *)
(* tokens and refreshes, of pages and backup codes.                         *)
(*                                                                          *)
(* AuthSessions: the inductive invariant says where the tab's marks come    *)
(* from: the page loads as long as its first request is on its way, the     *)
(* persisted user and signedIn differ only during a logout, and the         *)
(* requests that wait are those that a refresh or a logout in flight knows. *)
(*                                                                          *)
(* Accounts: it says what a request may still believe of the rows it has    *)
(* read, which may be old: whose secret it is, and whether, without another *)
(* writer, the row is the one that is there.                                *)
(***************************************************************************)
EXTENDS AuthSessions, Accounts, TLAPS

Ui == [token: Tokens, persisted: BOOLEAN, signedIn: BOOLEAN,
       pendingMfa: BOOLEAN, loading: BOOLEAN, dialog: BOOLEAN]
Stage == {"idle", "sent", "200", "401", "403", "demo", "lost", "waiting", "leaving"}
Request == [st: Stage, kind: Kinds, tok: Tokens]
Refresh == [st: {"none", "sent", "ok", "demo", "refused", "lost"}, by: Req, tok: Tokens]
Reason == {"", "user", "delete", "refused", "boot"}
LogoutCall == [st: {"none", "sent", "done", "failed"}, by: Reason, tok: Tokens]
LoginCall == [st: {"none", "sent", "ok", "mfa", "demo", "failed"}, tok: Tokens]
Service == [last: Tokens, expired: SUBSET Tokens, dead: SUBSET Tokens, rdead: SUBSET Tokens,
            exists: BOOLEAN, demoOver: BOOLEAN, mfa: BOOLEAN, tries: 0 .. RefreshLimit]

\* The page loads as long as the request of checkToken has not been answered to it, and
\* nobody deletes the account meanwhile.
Booting ==
  /\ \A r \in Req : req[r].st = "idle" => req[r].kind = "hub"
  /\ \A r \in Req : req[r].kind = "me" <=> (r = Boot /\ ui.loading)
  /\ \A r \in Req : req[r].kind = "delete" => ~ui.loading

\* A form is sent by a tab that is signed out.
Consistent ==
  /\ login.st # "none" => ~ui.loading /\ ~ui.signedIn
  /\ logout.st = "none" => ui.signedIn = ui.persisted

\* The leader of a refresh does not wait in its queue.
Parked == NobodyIsForgotten /\ (refresh.st # "none" => refresh.by \notin queue)

IInv == TypeOK /\ Booting /\ Consistent /\ Parked

-----------------------------------------------------------------------------
(* Types                                                                    *)

LEMMA Types ==
  TypeOK <=> /\ ui \in Ui /\ req \in [Req -> Request] /\ queue \subseteq Req
             /\ refresh \in Refresh /\ logout \in LogoutCall /\ login \in LoginCall
             /\ cookie \in Tokens /\ srv \in Service
BY DEF TypeOK, Ui, Stage, Request, Refresh, Reason, LogoutCall, LoginCall, Service

LEMMA TypesAfter ==
  TypeOK' <=> /\ ui' \in Ui /\ req' \in [Req -> Request] /\ queue' \subseteq Req
              /\ refresh' \in Refresh /\ logout' \in LogoutCall /\ login' \in LoginCall
              /\ cookie' \in Tokens /\ srv' \in Service
BY DEF TypeOK, Ui, Stage, Request, Refresh, Reason, LogoutCall, LoginCall, Service

LEMMA Numbers == 0 \in Tokens /\ 1 \in Tokens /\ Boot \in Req /\ Idle \in Request
BY AuthAssumption DEF Tokens, Req, Idle, Request, Stage, Kinds

\* What the page's state becomes.
LEMMA PageStates ==
  ASSUME NEW u \in Ui
  PROVE  /\ SignedOut(u) \in Ui /\ ~SignedOut(u).signedIn /\ ~SignedOut(u).persisted
         /\ SignedOut(u).loading = u.loading /\ SignedOut(u).dialog = u.dialog
         /\ DemoLimited(u) \in Ui /\ ~DemoLimited(u).signedIn /\ ~DemoLimited(u).persisted
         /\ DemoLimited(u).loading = u.loading /\ DemoLimited(u).dialog
         /\ FailedBoot(u) \in Ui /\ ~FailedBoot(u).signedIn /\ ~FailedBoot(u).loading
         /\ FailedBoot(u).persisted = u.persisted /\ FailedBoot(u).dialog = u.dialog
         /\ FailedBoot(u).token = u.token
BY Numbers DEF Ui, SignedOut, DemoLimited, FailedBoot

-----------------------------------------------------------------------------
(* logout()                                                                 *)

LEMMA LoggingOut ==
  ASSUME logout \in LogoutCall, NEW u \in Ui, NEW by \in Reason, Logout(u, by)
  PROVE  /\ ui' \in Ui /\ logout' \in LogoutCall
         /\ ui'.loading = u.loading /\ ui'.dialog = u.dialog
         /\ ~u.signedIn => ~ui'.signedIn
         /\ logout.st # "none" => logout'.st # "none"
         /\ logout'.st = "none" => ~ui'.signedIn /\ ~ui'.persisted
         /\ LogoutPosts(u) => logout'.st = "sent" /\ logout'.by = by
         /\ ~LogoutPosts(u) => UNCHANGED logout
         /\ u.token # 0 => ui' = u
<1>1. ui' \in {u, SignedOut(u)} BY DEF Logout
<1>2. SignedOut(u) \in Ui BY PageStates
<1>3. u.token \in Tokens BY DEF Ui
<1>4. CASE LogoutPosts(u)
  <2>1. logout' = [st |-> "sent", by |-> by, tok |-> u.token] /\ logout.st = "none" /\ u.token # 0
    BY <1>4 DEF Logout, LogoutPosts
  <2>2. ui' = u BY <2>1 DEF Logout
  <2>3. logout' \in LogoutCall BY <1>3, <2>1 DEF LogoutCall
  <2> QED BY <1>4, <2>1, <2>2, <2>3
<1>5. CASE ~LogoutPosts(u)
  <2>1. logout' = logout BY <1>5 DEF Logout
  <2>2. logout.st = "none" => u.token = 0 /\ ui' = SignedOut(u) BY <1>5 DEF Logout, LogoutPosts
  <2>3. logout.st # "none" => ui' = u BY DEF Logout
  <2> QED BY <1>1, <1>2, <1>5, <2>1, <2>2, <2>3, PageStates
<1> QED BY <1>4, <1>5

\* Some requests fail, among them perhaps the one the page loads with.
LEMMA Failing ==
  ASSUME IInv, NEW R \in SUBSET Req, NEW u \in Ui, Failed(R, u),
         u.loading = ui.loading, ~ui.signedIn => ~u.signedIn,
         logout.st = "none" => u.signedIn = u.persisted
  PROVE  /\ ui' \in Ui /\ logout' \in LogoutCall
         /\ ui'.loading <=> ui.loading /\ Boot \notin R
         /\ ui'.dialog = u.dialog
         /\ ~ui.signedIn => ~ui'.signedIn
         /\ logout.st # "none" => logout'.st # "none"
         /\ logout'.st = "none" => ui'.signedIn = ui'.persisted
         /\ logout' # logout => logout'.by = "boot"
<1>1. logout \in LogoutCall BY Types DEF IInv
<1>2. (\E r \in R : req[r].kind = "me") <=> (Boot \in R /\ ui.loading)
  BY Numbers DEF IInv, Booting
<1>3. CASE \E r \in R : req[r].kind = "me"
  <2> DEFINE f == FailedBoot(u)
  <2>1. Logout(f, "boot") BY <1>3 DEF Failed
  <2>2. f \in Ui /\ ~f.signedIn /\ ~f.loading /\ f.dialog = u.dialog BY PageStates
  <2>3. "boot" \in Reason BY DEF Reason
  <2> HIDE DEF f
  <2>4. /\ ui' \in Ui /\ logout' \in LogoutCall
        /\ ui'.loading = f.loading /\ ui'.dialog = f.dialog
        /\ ~f.signedIn => ~ui'.signedIn
        /\ logout.st # "none" => logout'.st # "none"
        /\ logout'.st = "none" => ~ui'.signedIn /\ ~ui'.persisted
        /\ logout'.by = "boot" \/ UNCHANGED logout
    BY <1>1, <2>1, <2>2, <2>3, LoggingOut
  <2>5. ui'.signedIn \in BOOLEAN /\ ui'.persisted \in BOOLEAN /\ ui'.loading \in BOOLEAN
        /\ f.loading \in BOOLEAN
    BY <2>2, <2>4 DEF Ui
  <2> QED BY <1>2, <1>3, <2>2, <2>4, <2>5
<1>4. CASE ~ \E r \in R : req[r].kind = "me"
  <2>1. ui' = u /\ logout' = logout BY <1>4 DEF Failed
  <2> QED BY <1>1, <1>2, <1>4, <2>1 DEF Ui
<1> QED BY <1>3, <1>4

\* Requests that are answered to their callers.
LEMMA Settling ==
  ASSUME IInv, NEW R \in SUBSET Req, req' = Settled(R), ui'.loading <=> ui.loading /\ Boot \notin R
  PROVE  /\ req' \in [Req -> Request] /\ Booting'
         /\ \A r \in Req : req'[r].st = IF r \in R THEN "idle" ELSE req[r].st
<1>1. req \in [Req -> Request] BY Types DEF IInv
<1>2. req' \in [Req -> Request] BY <1>1, Numbers DEF Settled
<1>3. \A r \in Req : req'[r] = IF r \in R THEN Idle ELSE req[r] BY DEF Settled
<1>4. Idle.st = "idle" /\ Idle.kind = "hub" BY DEF Idle
<1>5. Booting' BY <1>3, <1>4, Numbers DEF IInv, Booting
<1> QED BY <1>2, <1>3, <1>4, <1>5

\* Requests that are left with their kind, none of them idle.
LEMMA Keeping ==
  ASSUME IInv, UNCHANGED ui, req' \in [Req -> Request],
         \A r \in Req : req'[r] = req[r] \/ (req'[r].kind = req[r].kind /\ req'[r].st # "idle")
  PROVE  Booting'
BY DEF IInv, Booting

-----------------------------------------------------------------------------
(* The steps keep the invariant                                             *)

LEMMA InitInv == Init => IInv
<1> SUFFICES ASSUME Init PROVE IInv OBVIOUS
<1>1. PICK p \in BOOLEAN :
        /\ ui = [token |-> 0, persisted |-> p, signedIn |-> p, pendingMfa |-> FALSE,
                 loading |-> p, dialog |-> FALSE]
        /\ req = [r \in Req |-> IF r = Boot THEN BootReq(p) ELSE Idle]
        /\ queue = {} /\ refresh = NoRefresh /\ logout = NoLogout /\ login = NoLogin
        /\ cookie = IF p THEN 1 ELSE 0
        /\ srv \in [last: {IF p THEN 1 ELSE 0}, expired: {{}}, dead: {{}}, rdead: {{}}, exists: {TRUE},
                    demoOver: {FALSE}, mfa: BOOLEAN, tries: {0}]
  BY DEF Init
<1>2. BootReq(p) \in Request /\ (IF p THEN BootReq(p).st = "sent" /\ BootReq(p).kind = "me"
                                        ELSE BootReq(p) = Idle)
  BY Numbers DEF BootReq, Request, Stage, Kinds
<1>3. TypeOK
  <2>1. ui \in Ui BY <1>1, Numbers DEF Ui
  <2>2. req \in [Req -> Request] BY <1>1, <1>2, Numbers
  <2>3. refresh \in Refresh /\ logout \in LogoutCall /\ login \in LoginCall
    BY <1>1, Numbers DEF NoRefresh, NoLogout, NoLogin, Refresh, LogoutCall, LoginCall, Reason
  <2>4. cookie \in Tokens BY <1>1, Numbers
  <2>5. 0 \in 0 .. RefreshLimit BY AuthAssumption
  <2>6. srv \in Service BY <1>1, <2>5, Numbers DEF Service
  <2> QED BY <1>1, <2>1, <2>2, <2>3, <2>4, <2>6, Types
<1>4. \A r \in Req : req[r] = IF r = Boot THEN BootReq(p) ELSE Idle BY <1>1
<1>5. Idle.st = "idle" /\ Idle.kind = "hub" BY DEF Idle
<1>6. Booting BY <1>1, <1>2, <1>4, <1>5 DEF Booting
<1>7. Consistent BY <1>1 DEF Consistent, NoLogin
<1>8. Parked BY <1>1, <1>2, <1>4, <1>5 DEF Parked, NobodyIsForgotten, NoRefresh, Leaving
<1> QED BY <1>3, <1>6, <1>7, <1>8 DEF IInv

LEMMA ReloadKeeps ==
  ASSUME IInv, Reload
  PROVE  IInv'
<1> DEFINE p == ui.persisted
<1>1. /\ ui' = Loaded(ui) /\ req' = [r \in Req |-> IF r = Boot THEN BootReq(p) ELSE Idle]
      /\ queue' = {} /\ refresh' = NoRefresh /\ logout' = NoLogout /\ login' = NoLogin
      /\ UNCHANGED <<cookie, srv>>
  BY DEF Reload
<1>2. /\ ui \in Ui /\ cookie \in Tokens /\ srv \in Service BY Types DEF IInv
<1>3. p \in BOOLEAN BY <1>2 DEF Ui
<1>4. BootReq(p) \in Request /\ (IF p THEN BootReq(p).st = "sent" /\ BootReq(p).kind = "me"
                                        ELSE BootReq(p) = Idle)
  BY <1>3, Numbers DEF BootReq, Request, Stage, Kinds
<1>5. ui' \in Ui /\ ui'.loading = p /\ ui'.signedIn = p /\ ui'.persisted = p
  BY <1>1, <1>2, Numbers DEF Loaded, Ui
<1> HIDE DEF p
<1>6. TypeOK'
  <2>1. req' \in [Req -> Request] BY <1>1, <1>4, Numbers
  <2>2. refresh' \in Refresh /\ logout' \in LogoutCall /\ login' \in LoginCall
    BY <1>1, Numbers DEF NoRefresh, NoLogout, NoLogin, Refresh, LogoutCall, LoginCall, Reason
  <2> QED BY <1>1, <1>2, <1>5, <2>1, <2>2, TypesAfter, Types DEF IInv
<1>7. \A r \in Req : req'[r] = IF r = Boot THEN BootReq(p) ELSE Idle BY <1>1
<1>8. Idle.st = "idle" /\ Idle.kind = "hub" BY DEF Idle
<1>9. Booting' BY <1>3, <1>4, <1>5, <1>7, <1>8 DEF Booting
<1>10. Consistent' BY <1>1, <1>5 DEF Consistent, NoLogin
<1>11. Parked' BY <1>1, <1>4, <1>7, <1>8 DEF Parked, NobodyIsForgotten, NoRefresh, Leaving
<1> QED BY <1>6, <1>9, <1>10, <1>11 DEF IInv

LEMMA SendKeeps ==
  ASSUME IInv, NEW r \in Others, NEW k \in Kinds \ {"me"}, Send(r, k)
  PROVE  IInv'
<1>1. /\ req[r].st = "idle" /\ (k # "auth" => ~ui.loading)
      /\ req' = [req EXCEPT ![r] = [st |-> "sent", kind |-> k, tok |-> ui.token]]
      /\ UNCHANGED <<ui, queue, refresh, logout, login, cookie, srv>>
  BY DEF Send
<1>2. r \in Req /\ r # Boot BY AuthAssumption DEF Req
<1>3. req \in [Req -> Request] /\ ui \in Ui BY Types DEF IInv
<1>4. [st |-> "sent", kind |-> k, tok |-> ui.token] \in Request BY <1>3 DEF Request, Stage, Ui
<1>5. /\ req' \in [Req -> Request] /\ req'[r].st = "sent" /\ req'[r].kind = k
      /\ \A q \in Req \ {r} : req'[q] = req[q]
  BY <1>1, <1>2, <1>3, <1>4
<1>6. TypeOK' BY <1>1, <1>5, Types, TypesAfter DEF IInv
<1>7. Booting' BY <1>1, <1>2, <1>5 DEF IInv, Booting
<1>8. Consistent' BY <1>1 DEF IInv, Consistent
<1>9. Parked'
  <2>1. r \notin queue /\ (refresh.st # "none" => r # refresh.by)
    BY <1>1, <1>2 DEF IInv, Parked, NobodyIsForgotten
  <2>2. Leaving' = Leaving BY <1>1, <1>2, <1>5 DEF Leaving
  <2> QED BY <1>1, <1>2, <1>5, <2>1, <2>2 DEF IInv, Parked, NobodyIsForgotten
<1> QED BY <1>6, <1>7, <1>8, <1>9 DEF IInv

\* A request on its way gets its answer.
LEMMA AnswerKeeps ==
  ASSUME IInv, NEW r \in Req, req[r].st = "sent", NEW a \in {"200", "401", "403", "demo", "lost"},
         req' = [req EXCEPT ![r].st = a], srv' \in Service,
         UNCHANGED <<ui, queue, refresh, logout, login, cookie>>
  PROVE  IInv'
<1>1. req \in [Req -> Request] BY Types DEF IInv
<1>2. /\ req' \in [Req -> Request] /\ req'[r].st = a /\ req'[r].kind = req[r].kind
      /\ \A q \in Req \ {r} : req'[q] = req[q]
  BY <1>1 DEF Request, Stage
<1>3. TypeOK' BY <1>2, Types, TypesAfter DEF IInv
<1>4. Booting' BY <1>2, Keeping
<1>5. Consistent' BY DEF IInv, Consistent
<1>6. Parked'
  <2>1. Leaving' = Leaving BY <1>2 DEF Leaving
  <2>2. \A q \in Req : req'[q].st = "waiting" <=> req[q].st = "waiting" BY <1>2
  <2> QED BY <2>1, <2>2 DEF IInv, Parked, NobodyIsForgotten
<1> QED BY <1>3, <1>4, <1>5, <1>6 DEF IInv

LEMMA DeletedService ==
  ASSUME NEW s \in Service
  PROVE  Deleted(s) \in Service
<1>1. s.last \in Tokens BY DEF Service
<1>2. 1 .. s.last \in SUBSET Tokens BY <1>1, AuthAssumption DEF Tokens
<1> QED BY <1>2 DEF Service, Deleted

LEMMA ServerAnswersKeeps ==
  ASSUME IInv, NEW r \in Req, ServerAnswers(r)
  PROVE  IInv'
<1>1. PICK a \in Answers(r) :
        /\ req' = [req EXCEPT ![r].st = a]
        /\ srv' = IF req[r].kind = "delete" /\ a = "200" THEN Deleted(srv) ELSE srv
  BY DEF ServerAnswers
<1>2. a \in {"200", "401", "403", "demo", "lost"} BY AuthAssumption DEF Answers
<1>3. srv' \in Service BY <1>1, DeletedService, Types DEF IInv
<1> QED BY <1>1, <1>2, <1>3, AnswerKeeps DEF ServerAnswers

LEMMA RequestLostKeeps ==
  ASSUME IInv, NEW r \in Req, RequestLost(r)
  PROVE  IInv'
<1>1. srv \in Service BY Types DEF IInv
<1> QED BY <1>1, AnswerKeeps DEF RequestLost

\* Requests of which none waits go back to their callers.
LEMMA BackKeeps ==
  ASSUME IInv, NEW r \in Req, req[r].st \notin {"waiting", "leaving"}, req' = Settled({r}),
         ui' \in Ui, logout' \in LogoutCall,
         ui'.loading <=> ui.loading /\ r # Boot,
         login.st # "none" => ~ui'.signedIn,
         logout.st # "none" => logout'.st # "none",
         logout'.st = "none" => ui'.signedIn = ui'.persisted,
         UNCHANGED <<queue, refresh, login, cookie, srv>>
  PROVE  IInv'
<1>1. {r} \in SUBSET Req OBVIOUS
<1>2. /\ req' \in [Req -> Request] /\ Booting'
      /\ \A q \in Req : req'[q].st = IF q \in {r} THEN "idle" ELSE req[q].st
  BY <1>1, Settling
<1>3. TypeOK' BY <1>2, Types, TypesAfter DEF IInv
<1>4. Consistent' BY DEF IInv, Consistent
<1>5. Parked'
  <2>1. Leaving' = Leaving BY <1>2 DEF Leaving
  <2> QED BY <1>2, <2>1 DEF IInv, Parked, NobodyIsForgotten
<1> QED BY <1>2, <1>3, <1>4, <1>5 DEF IInv

\* A request that fails goes back to its caller.
LEMMA BackFailedKeeps ==
  ASSUME IInv, NEW r \in Req, req[r].st \notin {"waiting", "leaving"}, req' = Settled({r}),
         NEW u \in Ui, Failed({r}, u), u.loading = ui.loading, ~ui.signedIn => ~u.signedIn,
         logout.st = "none" => u.signedIn = u.persisted,
         UNCHANGED <<queue, refresh, login, cookie, srv>>
  PROVE  IInv'
<1>1. {r} \in SUBSET Req OBVIOUS
<1>2. /\ ui' \in Ui /\ logout' \in LogoutCall
      /\ ui'.loading <=> ui.loading /\ Boot \notin {r}
      /\ ~ui.signedIn => ~ui'.signedIn
      /\ logout.st # "none" => logout'.st # "none"
      /\ logout'.st = "none" => ui'.signedIn = ui'.persisted
  BY <1>1, Failing
<1>3. login.st # "none" => ~ui'.signedIn BY <1>2 DEF IInv, Consistent
<1> QED BY <1>2, <1>3, BackKeeps

LEMMA ReceiveOkKeeps ==
  ASSUME IInv, NEW r \in Req, ReceiveOk(r)
  PROVE  IInv'
<1>1. /\ req[r].st = "200" /\ req' = Settled({r}) /\ UNCHANGED <<queue, refresh, login, cookie, srv>>
      /\ CASE req[r].kind = "me" ->
                /\ ui' = [ui EXCEPT !.persisted = TRUE, !.signedIn = TRUE, !.loading = FALSE]
                /\ UNCHANGED logout
           [] req[r].kind = "delete" -> Logout(ui, "delete")
           [] OTHER -> UNCHANGED <<ui, logout>>
  BY DEF ReceiveOk
<1>2. ui \in Ui /\ logout \in LogoutCall BY Types DEF IInv
<1>3. CASE req[r].kind = "me"
  <2>1. r = Boot /\ ui.loading BY <1>3 DEF IInv, Booting
  <2>2. ui' = [ui EXCEPT !.persisted = TRUE, !.signedIn = TRUE, !.loading = FALSE] /\ logout' = logout
    BY <1>1, <1>3
  <2>3. ui' \in Ui /\ ui'.persisted = TRUE /\ ui'.signedIn = TRUE /\ ui'.loading = FALSE
    BY <1>2, <2>2 DEF Ui
  <2>4. login.st = "none" BY <2>1 DEF IInv, Consistent
  <2> QED BY <1>1, <1>2, <2>1, <2>2, <2>3, <2>4, BackKeeps
<1>4. CASE req[r].kind = "delete"
  <2>1. ~ui.loading /\ Logout(ui, "delete") BY <1>1, <1>4 DEF IInv, Booting
  <2>2. "delete" \in Reason BY DEF Reason
  <2>3. /\ ui' \in Ui /\ logout' \in LogoutCall /\ ui'.loading = ui.loading
        /\ ~ui.signedIn => ~ui'.signedIn
        /\ logout.st # "none" => logout'.st # "none"
        /\ logout'.st = "none" => ~ui'.signedIn /\ ~ui'.persisted
    BY <1>2, <2>1, <2>2, LoggingOut
  <2>4. logout'.st = "none" => ui'.signedIn = ui'.persisted BY <2>3 DEF Ui
  <2>5. login.st # "none" => ~ui'.signedIn BY <2>3 DEF IInv, Consistent
  <2> QED BY <1>1, <2>1, <2>3, <2>4, <2>5, BackKeeps
<1>5. CASE req[r].kind \notin {"me", "delete"}
  <2>1. ui' = ui /\ logout' = logout BY <1>1, <1>5
  <2>2. ui.loading => r # Boot BY <1>5, Numbers DEF IInv, Booting
  <2>3. login.st # "none" => ~ui'.signedIn BY <2>1 DEF IInv, Consistent
  <2>4. logout'.st = "none" => ui'.signedIn = ui'.persisted BY <2>1 DEF IInv, Consistent
  <2> QED BY <1>1, <1>2, <2>1, <2>2, <2>3, <2>4, BackKeeps
<1> QED BY <1>3, <1>4, <1>5

LEMMA ReceiveFailedKeeps ==
  ASSUME IInv, NEW r \in Req, ReceiveFailed(r)
  PROVE  IInv'
<1>1. ui \in Ui BY Types DEF IInv
<1>2. logout.st = "none" => ui.signedIn = ui.persisted BY DEF IInv, Consistent
<1> QED BY <1>1, <1>2, BackFailedKeeps DEF ReceiveFailed

LEMMA ReceiveDemoLimitKeeps ==
  ASSUME IInv, NEW r \in Req, ReceiveDemoLimit(r)
  PROVE  IInv'
<1> DEFINE u == DemoLimited(ui)
<1>1. ui \in Ui BY Types DEF IInv
<1>2. u \in Ui /\ ~u.signedIn /\ ~u.persisted /\ u.loading = ui.loading BY <1>1, PageStates
<1>3. Failed({r}, u) /\ req[r].st = "demo" /\ req' = Settled({r})
      /\ UNCHANGED <<queue, refresh, login, cookie, srv>>
  BY DEF ReceiveDemoLimit
<1> HIDE DEF u
<1>4. u.signedIn = u.persisted BY <1>2 DEF Ui
<1> QED BY <1>2, <1>3, <1>4, BackFailedKeeps

LEMMA ReceiveRefusedKeeps ==
  ASSUME IInv, NEW r \in Req, ReceiveRefused(r)
  PROVE  IInv'
<1> DEFINE R == NoRecovery(r)
<1>1. /\ req[r].st = "401" /\ req' = Settled(R) /\ queue' = queue \ R /\ Failed(R, ui)
      /\ UNCHANGED <<refresh, login, cookie, srv>>
  BY DEF ReceiveRefused
<1>2. ui \in Ui /\ queue \subseteq Req BY Types DEF IInv
<1>3. R = {r} \/ R = queue \cup {r} BY DEF NoRecovery
<1>4. r \notin queue /\ (refresh.st # "none" => r # refresh.by)
  BY <1>1 DEF IInv, Parked, NobodyIsForgotten
<1> HIDE DEF R
<1>5. R \in SUBSET Req BY <1>2, <1>3
<1>6. logout.st = "none" => ui.signedIn = ui.persisted BY DEF IInv, Consistent
<1>7. /\ ui' \in Ui /\ logout' \in LogoutCall
      /\ ui'.loading <=> ui.loading /\ Boot \notin R
      /\ ~ui.signedIn => ~ui'.signedIn
      /\ logout.st # "none" => logout'.st # "none"
      /\ logout'.st = "none" => ui'.signedIn = ui'.persisted
  BY <1>1, <1>2, <1>5, <1>6, Failing
<1>8. /\ req' \in [Req -> Request] /\ Booting'
      /\ \A q \in Req : req'[q].st = IF q \in R THEN "idle" ELSE req[q].st
  BY <1>1, <1>5, <1>7, Settling
<1>9. TypeOK' BY <1>1, <1>2, <1>7, <1>8, Types, TypesAfter DEF IInv
<1>10. Consistent' BY <1>1, <1>7 DEF IInv, Consistent
<1>11. Parked'
  <2>1. \A q \in R : req[q].st # "leaving" BY <1>1, <1>2, <1>3 DEF IInv, Parked, NobodyIsForgotten
  <2>2. Leaving' = Leaving BY <1>8, <2>1 DEF Leaving
  <2>3. \A q \in Req : req'[q].st = "waiting" <=> q \in queue' \/ (refresh'.st # "none" /\ q = refresh'.by)
    BY <1>1, <1>3, <1>4, <1>8 DEF IInv, Parked, NobodyIsForgotten
  <2> QED BY <1>1, <1>7, <2>2, <2>3 DEF IInv, Parked, NobodyIsForgotten
<1> QED BY <1>8, <1>9, <1>10, <1>11 DEF IInv

\* A request joins the refresh in flight, or leads a new one.
LEMMA JoinRefreshKeeps ==
  ASSUME IInv, NEW r \in Req, JoinRefresh(r)
  PROVE  IInv'
<1>1. /\ req[r].st = "401" /\ req' = [req EXCEPT ![r].st = "waiting"]
      /\ IF refresh.st = "none"
           THEN refresh' = [st |-> "sent", by |-> r, tok |-> cookie] /\ UNCHANGED queue
           ELSE queue' = queue \cup {r} /\ UNCHANGED refresh
      /\ UNCHANGED <<ui, logout, login, cookie, srv>>
  BY DEF JoinRefresh
<1>2. req \in [Req -> Request] /\ refresh \in Refresh /\ queue \subseteq Req /\ cookie \in Tokens
  BY Types DEF IInv
<1>3. /\ req' \in [Req -> Request] /\ req'[r].st = "waiting" /\ req'[r].kind = req[r].kind
      /\ \A q \in Req \ {r} : req'[q] = req[q]
  BY <1>1, <1>2 DEF Request, Stage
<1>4. r \notin queue /\ (refresh.st # "none" => r # refresh.by)
  BY <1>1 DEF IInv, Parked, NobodyIsForgotten
<1>5. refresh' \in Refresh /\ queue' \subseteq Req BY <1>1, <1>2 DEF Refresh
<1>6. TypeOK' BY <1>1, <1>3, <1>5, Types, TypesAfter DEF IInv
<1>7. Booting' BY <1>1, <1>3, Keeping
<1>8. Consistent' BY <1>1 DEF IInv, Consistent
<1>9. Parked'
  <2>1. Leaving' = Leaving BY <1>1, <1>3 DEF Leaving
  <2>2. CASE refresh.st = "none"
    <3>1. queue' = queue /\ queue = {} /\ refresh'.st = "sent" /\ refresh'.by = r
      BY <1>1, <2>2 DEF IInv, Parked, NobodyIsForgotten
    <3> QED BY <1>1, <1>3, <1>4, <2>1, <2>2, <3>1 DEF IInv, Parked, NobodyIsForgotten
  <2>3. CASE refresh.st # "none"
    <3>1. queue' = queue \cup {r} /\ refresh' = refresh BY <1>1, <2>3
    <3> QED BY <1>1, <1>3, <1>4, <2>1, <2>3, <3>1 DEF IInv, Parked, NobodyIsForgotten
  <2> QED BY <2>2, <2>3
<1> QED BY <1>6, <1>7, <1>8, <1>9 DEF IInv

\* Steps that leave the requests and those that wait alone.
LEMMA QuietKeeps ==
  ASSUME IInv, UNCHANGED <<req, queue>>,
         ui' \in Ui, refresh' \in Refresh, logout' \in LogoutCall, login' \in LoginCall,
         cookie' \in Tokens, srv' \in Service,
         refresh'.st = "none" <=> refresh.st = "none", refresh'.by = refresh.by,
         logout.st # "none" => logout'.st # "none",
         ui'.loading = ui.loading, Consistent'
  PROVE  IInv'
<1>1. TypeOK' BY Types, TypesAfter DEF IInv
<1>2. Booting' BY DEF IInv, Booting
<1>3. Parked'
  <2>1. Leaving' = Leaving BY DEF Leaving
  <2> QED BY <2>1 DEF IInv, Parked, NobodyIsForgotten
<1> QED BY <1>1, <1>2, <1>3 DEF IInv

LEMMA ServerRefreshesKeeps ==
  ASSUME IInv, ServerRefreshes
  PROVE  IInv'
<1>1. /\ refresh.st = "sent" /\ (RefreshAnswer = "ok" => srv.last < MaxTokens)
      /\ refresh' = [refresh EXCEPT !.st = RefreshAnswer,
                                    !.tok = IF RefreshAnswer = "ok" THEN srv.last + 1 ELSE 0]
      /\ srv' = [srv EXCEPT !.tries = IF @ = RefreshLimit THEN @ ELSE @ + 1,
                            !.last = IF RefreshAnswer = "ok" THEN @ + 1 ELSE @]
      /\ UNCHANGED <<ui, req, queue, logout, login, cookie>>
  BY DEF ServerRefreshes
<1>2. ui \in Ui /\ refresh \in Refresh /\ srv \in Service /\ logout \in LogoutCall
      /\ login \in LoginCall /\ cookie \in Tokens
  BY Types DEF IInv
<1>3. RefreshAnswer \in {"refused", "demo", "ok"} BY DEF RefreshAnswer
<1>4. (IF RefreshAnswer = "ok" THEN srv.last + 1 ELSE 0) \in Tokens
      /\ (IF RefreshAnswer = "ok" THEN srv.last + 1 ELSE srv.last) \in Tokens
      /\ (IF srv.tries = RefreshLimit THEN srv.tries ELSE srv.tries + 1) \in 0 .. RefreshLimit
  BY <1>1, <1>2, AuthAssumption DEF Service, Tokens
<1>5. srv' \in Service BY <1>1, <1>2, <1>4 DEF Service
<1>6. refresh' \in Refresh /\ refresh'.st # "none" /\ refresh'.by = refresh.by
  BY <1>1, <1>2, <1>3, <1>4 DEF Refresh
<1>7. Consistent' BY <1>1 DEF IInv, Consistent
<1> QED BY <1>1, <1>2, <1>5, <1>6, <1>7, QuietKeeps

LEMMA RefreshLostKeeps ==
  ASSUME IInv, RefreshLost
  PROVE  IInv'
<1>1. refresh.st = "sent" /\ refresh' = [refresh EXCEPT !.st = "lost"]
      /\ UNCHANGED <<ui, req, queue, logout, login, cookie, srv>>
  BY DEF RefreshLost
<1>2. ui \in Ui /\ refresh \in Refresh /\ srv \in Service /\ logout \in LogoutCall
      /\ login \in LoginCall /\ cookie \in Tokens
  BY Types DEF IInv
<1>3. refresh' \in Refresh /\ refresh'.st # "none" /\ refresh'.by = refresh.by
  BY <1>1, <1>2 DEF Refresh
<1>4. Consistent' BY <1>1 DEF IInv, Consistent
<1> QED BY <1>1, <1>2, <1>3, <1>4, QuietKeeps

\* Once the refresh is over nobody waits for it.
LEMMA WaitingOver ==
  ASSUME IInv, refresh.st # "none", refresh' = NoRefresh, queue' = {},
         \A q \in Recovering : req'[q].st # "waiting",
         \A q \in Req \ Recovering : req'[q] = req[q],
         \A q \in Req : req'[q].st = "leaving" =>
           logout'.st # "none" \/ (logout.st # "none" /\ req[q].st = "leaving") \/ req[q].st = "leaving",
         logout.st # "none" => logout'.st # "none"
  PROVE  Parked'
<1>1. refresh'.st = "none" BY DEF NoRefresh
<1>2. \A q \in Req : req'[q].st # "waiting" BY DEF IInv, Parked, NobodyIsForgotten, Recovering
<1>3. Leaving' # {} => logout'.st # "none" BY DEF IInv, Parked, NobodyIsForgotten, Leaving
<1> QED BY <1>1, <1>2, <1>3 DEF Parked, NobodyIsForgotten

LEMMA Recoverers ==
  ASSUME IInv, refresh.st # "none"
  PROVE  /\ Recovering \in SUBSET Req
         /\ \A q \in Recovering : req[q].st = "waiting"
         /\ NoRefresh \in Refresh
<1>1. refresh \in Refresh /\ queue \subseteq Req BY Types DEF IInv
<1>2. refresh.by \in Req BY <1>1 DEF Refresh
<1>3. NoRefresh \in Refresh BY Numbers DEF NoRefresh, Refresh
<1> QED BY <1>1, <1>2, <1>3 DEF Recovering, IInv, Parked, NobodyIsForgotten

LEMMA RecoveredKeeps ==
  ASSUME IInv, Recovered
  PROVE  IInv'
<1>1. /\ refresh.st = "ok" /\ ui' = [ui EXCEPT !.token = refresh.tok] /\ cookie' = refresh.tok
      /\ req' = [r \in Req |-> IF r \in Recovering
                               THEN [req[r] EXCEPT !.st = "sent", !.tok = refresh.tok] ELSE req[r]]
      /\ queue' = {} /\ refresh' = NoRefresh /\ UNCHANGED <<logout, login, srv>>
  BY DEF Recovered
<1>2. ui \in Ui /\ req \in [Req -> Request] /\ refresh \in Refresh BY Types DEF IInv
<1>3. refresh.tok \in Tokens BY <1>2 DEF Refresh
<1>4. Recovering \in SUBSET Req /\ NoRefresh \in Refresh /\ \A q \in Recovering : req[q].st = "waiting"
  BY <1>1, Recoverers
<1>5. ui' \in Ui /\ ui'.loading = ui.loading /\ ui'.signedIn = ui.signedIn /\ ui'.persisted = ui.persisted
  BY <1>1, <1>2, <1>3 DEF Ui
<1>6. \A r \in Req : req'[r] = IF r \in Recovering
                               THEN [req[r] EXCEPT !.st = "sent", !.tok = refresh.tok] ELSE req[r]
  BY <1>1
<1>7. req' \in [Req -> Request]
      /\ \A r \in Req : /\ req'[r].kind = req[r].kind
                        /\ r \in Recovering => req'[r].st = "sent"
                        /\ r \notin Recovering => req'[r] = req[r]
  BY <1>1, <1>2, <1>3, <1>6 DEF Request, Stage
<1>8. TypeOK' BY <1>1, <1>3, <1>4, <1>5, <1>7, Types, TypesAfter DEF IInv
<1>9. Booting' BY <1>5, <1>7 DEF IInv, Booting
<1>10. Consistent' BY <1>1, <1>5 DEF IInv, Consistent
<1>11. Parked' BY <1>1, <1>4, <1>7, WaitingOver
<1> QED BY <1>8, <1>9, <1>10, <1>11 DEF IInv

LEMMA RecoveryDemoLimitedKeeps ==
  ASSUME IInv, RecoveryDemoLimited
  PROVE  IInv'
<1> DEFINE u == DemoLimited(ui)
<1>1. /\ refresh.st = "demo" /\ Failed(Recovering, u) /\ req' = Settled(Recovering)
      /\ queue' = {} /\ refresh' = NoRefresh /\ UNCHANGED <<login, cookie, srv>>
  BY DEF RecoveryDemoLimited
<1>2. ui \in Ui BY Types DEF IInv
<1>3. u \in Ui /\ ~u.signedIn /\ ~u.persisted /\ u.loading = ui.loading BY <1>2, PageStates
<1> HIDE DEF u
<1>4. u.signedIn = u.persisted BY <1>3 DEF Ui
<1>5. Recovering \in SUBSET Req /\ NoRefresh \in Refresh BY <1>1, Recoverers
<1>6. /\ ui' \in Ui /\ logout' \in LogoutCall
      /\ ui'.loading <=> ui.loading /\ Boot \notin Recovering
      /\ ~ui.signedIn => ~ui'.signedIn
      /\ logout.st # "none" => logout'.st # "none"
      /\ logout'.st = "none" => ui'.signedIn = ui'.persisted
  BY <1>1, <1>3, <1>4, <1>5, Failing
<1>7. /\ req' \in [Req -> Request] /\ Booting'
      /\ \A q \in Req : req'[q].st = IF q \in Recovering THEN "idle" ELSE req[q].st
      /\ \A q \in Req \ Recovering : req'[q] = req[q]
  BY <1>1, <1>5, <1>6, Settling DEF Settled
<1>8. TypeOK' BY <1>1, <1>5, <1>6, <1>7, Types, TypesAfter DEF IInv
<1>9. Consistent' BY <1>1, <1>6 DEF IInv, Consistent
<1>10. Parked' BY <1>1, <1>5, <1>6, <1>7, WaitingOver
<1> QED BY <1>7, <1>8, <1>9, <1>10 DEF IInv

\* The leader waits for the logout if there is one to wait for.
LEMMA RecoveryRefusedKeeps ==
  ASSUME IInv, RecoveryRefused
  PROVE  IInv'
<1> DEFINE done == IF LogoutPosts(ui) THEN queue ELSE Recovering
           boot == \E r \in done : req[r].kind = "me"
           u == IF boot THEN FailedBoot(ui) ELSE ui
<1>1. /\ refresh.st \in {"refused", "lost"} /\ queue' = {} /\ refresh' = NoRefresh
      /\ req' = [r \in Req |-> IF r \in done THEN Idle
                               ELSE IF r = refresh.by THEN [req[r] EXCEPT !.st = "leaving"] ELSE req[r]]
      /\ Logout(u, "refused") /\ UNCHANGED <<login, cookie, srv>>
  BY DEF RecoveryRefused
<1>2. ui \in Ui /\ req \in [Req -> Request] /\ refresh \in Refresh /\ logout \in LogoutCall
  BY Types DEF IInv
<1>3. Recovering \in SUBSET Req /\ NoRefresh \in Refresh /\ \A q \in Recovering : req[q].st = "waiting"
  BY <1>1, Recoverers
<1>4. /\ done \subseteq Recovering /\ (LogoutPosts(ui) \/ done = Recovering)
      /\ Recovering = queue \cup {refresh.by}
  BY DEF Recovering
<1>5. boot <=> Boot \in done /\ ui.loading BY <1>3, <1>4, Numbers DEF IInv, Booting
<1>6. u \in Ui /\ u.token = ui.token /\ u.persisted = ui.persisted
      /\ (~ui.signedIn => ~u.signedIn) /\ (u.loading <=> ui.loading /\ ~boot)
  <2>1. CASE boot BY <1>2, <2>1, PageStates DEF Ui
  <2>2. CASE ~boot BY <1>2, <2>2
  <2> QED BY <2>1, <2>2
<1> HIDE DEF u, boot
<1>7. "refused" \in Reason BY DEF Reason
<1>8. /\ ui' \in Ui /\ logout' \in LogoutCall /\ ui'.loading = u.loading
      /\ ~u.signedIn => ~ui'.signedIn
      /\ logout.st # "none" => logout'.st # "none"
      /\ logout'.st = "none" => ~ui'.signedIn /\ ~ui'.persisted
      /\ LogoutPosts(u) => logout'.st = "sent"
  BY <1>1, <1>2, <1>6, <1>7, LoggingOut
<1>9. LogoutPosts(u) <=> LogoutPosts(ui) BY <1>6 DEF LogoutPosts
<1>10. \A r \in Req : req'[r] = IF r \in done THEN Idle
                                ELSE IF r = refresh.by THEN [req[r] EXCEPT !.st = "leaving"] ELSE req[r]
  BY <1>1
<1> HIDE DEF done
<1>11. Idle.st = "idle" /\ Idle.kind = "hub" BY DEF Idle
<1>12. req' \in [Req -> Request]
       /\ \A r \in Req : /\ r \in done => req'[r] = Idle
                         /\ r \notin done => req'[r].kind = req[r].kind
                         /\ r \notin done /\ r = refresh.by => req'[r].st = "leaving"
                         /\ r \notin done /\ r # refresh.by => req'[r] = req[r]
  <2>1. ASSUME NEW r \in Req PROVE req'[r] \in Request
    <3>1. req[r] \in Request BY <1>2
    <3>2. CASE r \in done
      <4>1. req'[r] = Idle BY <1>10, <3>2
      <4> QED BY <4>1, Numbers
    <3>3. CASE r \notin done /\ r = refresh.by
      <4>1. req'[r] = [req[r] EXCEPT !.st = "leaving"] BY <1>10, <3>3
      <4>2. "leaving" \in Stage BY DEF Stage
      <4> QED BY <3>1, <4>1, <4>2 DEF Request
    <3>4. CASE r \notin done /\ r # refresh.by
      <4>1. req'[r] = req[r] BY <1>10, <3>4
      <4> QED BY <3>1, <4>1
    <3> QED BY <3>2, <3>3, <3>4
  <2>2. req' \in [Req -> Request] BY <1>1, <2>1
  <2> QED BY <1>2, <1>10, <2>2 DEF Request
<1>13. TypeOK' BY <1>1, <1>3, <1>8, <1>12, Types, TypesAfter DEF IInv
<1>14. Booting'
  <2>1. ui'.loading <=> ui.loading /\ Boot \notin done BY <1>5, <1>6, <1>8
  <2>2. \A r \in Req : req'[r].st = "idle" => req'[r].kind = "hub"
    BY <1>11, <1>12 DEF IInv, Booting
  <2>3. \A r \in Req : req'[r].kind = "me" <=> (r = Boot /\ ui'.loading)
    BY <1>11, <1>12, <2>1 DEF IInv, Booting
  <2>4. \A r \in Req : req'[r].kind = "delete" => ~ui'.loading
    BY <1>11, <1>12, <2>1 DEF IInv, Booting
  <2> QED BY <2>2, <2>3, <2>4 DEF Booting
<1>15. Consistent'
  <2>1. logout'.st = "none" => ui'.signedIn = ui'.persisted BY <1>8 DEF Ui
  <2>2. login.st # "none" => ~ui'.loading /\ ~ui'.signedIn
    BY <1>6, <1>8 DEF IInv, Consistent
  <2> QED BY <1>1, <2>1, <2>2 DEF Consistent
<1>16. Parked'
  <2>1. refresh.by \notin done => logout'.st # "none" BY <1>4, <1>8, <1>9
  <2>2. \A q \in Recovering : req'[q].st # "waiting"
    <3> SUFFICES ASSUME NEW q \in Recovering, q \notin done PROVE req'[q].st # "waiting"
      BY <1>3, <1>11, <1>12
    <3>1. q = refresh.by \/ q \in queue BY <1>4
    <3>2. q = refresh.by BY <3>1 DEF done, Recovering
    <3> QED BY <1>3, <1>12, <3>2
  <2>3. \A q \in Req \ Recovering : req'[q] = req[q] BY <1>4, <1>12
  <2>4. \A q \in Req : req'[q].st = "leaving" => logout'.st # "none" \/ req[q].st = "leaving"
    BY <1>11, <1>12, <2>1
  <2> QED BY <1>1, <1>8, <2>2, <2>3, <2>4, WaitingOver
<1> QED BY <1>13, <1>14, <1>15, <1>16 DEF IInv

LEMMA UserLogsOutKeeps ==
  ASSUME IInv, UserLogsOut
  PROVE  IInv'
<1>1. Logout(ui, "user") /\ UNCHANGED <<req, queue, refresh, login, cookie, srv>> BY DEF UserLogsOut
<1>2. ui \in Ui /\ refresh \in Refresh /\ srv \in Service /\ logout \in LogoutCall
      /\ login \in LoginCall /\ cookie \in Tokens
  BY Types DEF IInv
<1>3. "user" \in Reason BY DEF Reason
<1>4. /\ ui' \in Ui /\ logout' \in LogoutCall /\ ui'.loading = ui.loading
      /\ ~ui.signedIn => ~ui'.signedIn
      /\ logout.st # "none" => logout'.st # "none"
      /\ logout'.st = "none" => ~ui'.signedIn /\ ~ui'.persisted
  BY <1>1, <1>2, <1>3, LoggingOut
<1>5. logout'.st = "none" => ui'.signedIn = ui'.persisted BY <1>4 DEF Ui
<1>6. Consistent' BY <1>1, <1>4, <1>5 DEF IInv, Consistent
<1> QED BY <1>1, <1>2, <1>4, <1>6, QuietKeeps

\* The logout in flight is answered or lost.
LEMMA LogoutAnswerKeeps ==
  ASSUME IInv, logout.st = "sent", NEW a \in {"done", "failed"}, logout' = [logout EXCEPT !.st = a],
         srv' \in Service, UNCHANGED <<ui, req, queue, refresh, login, cookie>>
  PROVE  IInv'
<1>1. ui \in Ui /\ refresh \in Refresh /\ logout \in LogoutCall
      /\ login \in LoginCall /\ cookie \in Tokens
  BY Types DEF IInv
<1>2. logout' \in LogoutCall /\ logout'.st # "none" BY <1>1 DEF LogoutCall
<1>3. Consistent' BY <1>2 DEF IInv, Consistent
<1> QED BY <1>1, <1>2, <1>3, QuietKeeps

LEMMA ServerLogsOutKeeps ==
  ASSUME IInv, ServerLogsOut
  PROVE  IInv'
<1>1. srv \in Service /\ logout \in LogoutCall /\ cookie \in Tokens BY Types DEF IInv
<1>2. [srv EXCEPT !.dead = @ \cup {logout.tok}, !.rdead = @ \cup {cookie}] \in Service
  BY <1>1 DEF Service, LogoutCall
<1>3. srv' \in Service BY <1>1, <1>2 DEF ServerLogsOut
<1>4. \E a \in {"done", "failed"} : logout' = [logout EXCEPT !.st = a]
  BY DEF ServerLogsOut
<1> QED BY <1>3, <1>4, LogoutAnswerKeeps DEF ServerLogsOut

LEMMA LogoutLostKeeps ==
  ASSUME IInv, LogoutLost
  PROVE  IInv'
<1>1. srv \in Service BY Types DEF IInv
<1> QED BY <1>1, LogoutAnswerKeeps DEF LogoutLost

LEMMA LoggedOutKeeps ==
  ASSUME IInv, LoggedOut
  PROVE  IInv'
<1> DEFINE boot == \E r \in Leaving : req[r].kind = "me"
           u == IF boot THEN FailedBoot(ui) ELSE ui
<1>1. /\ logout.st # "none" /\ ui' = SignedOut(u)
      /\ cookie' \in {0, cookie}
      /\ req' = Settled(Leaving) /\ logout' = NoLogout /\ UNCHANGED <<queue, refresh, login, srv>>
  BY DEF LoggedOut
<1>2. ui \in Ui /\ cookie \in Tokens BY Types DEF IInv
<1>3. boot <=> Boot \in Leaving /\ ui.loading BY Numbers DEF IInv, Booting, Leaving
<1>4. u \in Ui /\ (u.loading <=> ui.loading /\ ~boot)
  <2>1. CASE boot BY <1>2, <2>1, PageStates DEF Ui
  <2>2. CASE ~boot BY <1>2, <2>2
  <2> QED BY <2>1, <2>2
<1> HIDE DEF u, boot
<1>5. ui' \in Ui /\ ui'.loading = u.loading /\ ~ui'.signedIn /\ ~ui'.persisted BY <1>1, <1>4, PageStates
<1>6. NoLogout \in LogoutCall /\ NoLogout.st = "none" BY Numbers DEF NoLogout, LogoutCall, Reason
<1>7. Leaving \in SUBSET Req BY DEF Leaving
<1>8. /\ req' \in [Req -> Request] /\ Booting'
      /\ \A q \in Req : req'[q].st = IF q \in Leaving THEN "idle" ELSE req[q].st
  BY <1>1, <1>3, <1>4, <1>5, <1>7, Settling
<1>9. TypeOK' BY <1>1, <1>2, <1>5, <1>6, <1>8, Numbers, Types, TypesAfter DEF IInv
<1>10. Consistent'
  <2>1. ui'.signedIn = ui'.persisted BY <1>5 DEF Ui
  <2>2. login.st # "none" => ~ui'.loading BY <1>4, <1>5 DEF IInv, Consistent
  <2> QED BY <1>1, <1>5, <2>1, <2>2 DEF Consistent
<1>11. Parked'
  <2>1. Leaving' = {} BY <1>8 DEF Leaving
  <2>2. \A q \in Req : req'[q].st = "waiting" <=> req[q].st = "waiting" BY <1>8 DEF Leaving
  <2> QED BY <1>1, <2>1, <2>2 DEF IInv, Parked, NobodyIsForgotten
<1> QED BY <1>8, <1>9, <1>10, <1>11 DEF IInv

LEMMA SubmitFormKeeps ==
  ASSUME IInv, SubmitForm
  PROVE  IInv'
<1>1. /\ ~ui.signedIn /\ ~ui.loading /\ login' = [NoLogin EXCEPT !.st = "sent"]
      /\ UNCHANGED <<ui, req, queue, refresh, logout, cookie, srv>>
  BY DEF SubmitForm
<1>2. login' \in LoginCall BY <1>1, Numbers DEF NoLogin, LoginCall
<1>3. Consistent' BY <1>1 DEF IInv, Consistent
<1> QED BY <1>1, <1>2, <1>3, QuietKeeps, Types DEF IInv

\* The form is answered by the service, perhaps with a new pair of tokens.
LEMMA FormServedKeeps ==
  ASSUME IInv, login.st = "sent", login' \in LoginCall, srv' \in Service,
         UNCHANGED <<ui, req, queue, refresh, logout, cookie>>
  PROVE  IInv'
<1>1. Consistent' BY DEF IInv, Consistent
<1> QED BY <1>1, QuietKeeps, Types DEF IInv

LEMMA Issuing ==
  ASSUME IInv, srv.last < MaxTokens
  PROVE  Issue(srv) \in Service /\ [st |-> "ok", tok |-> srv.last + 1] \in LoginCall
<1>1. srv \in Service BY Types DEF IInv
<1>2. srv.last + 1 \in Tokens BY <1>1, AuthAssumption DEF Service, Tokens
<1> QED BY <1>1, <1>2 DEF Service, Issue, LoginCall

LEMMA ServerLogsInKeeps ==
  ASSUME IInv, ServerLogsIn
  PROVE  IInv'
<1>1. login.st = "sent" /\ UNCHANGED <<ui, req, queue, refresh, logout, cookie>> BY DEF ServerLogsIn
<1>2. login \in LoginCall /\ srv \in Service BY Types DEF IInv
<1>3. CASE \E a \in {"failed", "mfa", "demo"} : login' = [login EXCEPT !.st = a] /\ UNCHANGED srv
  <2>1. login' \in LoginCall BY <1>2, <1>3 DEF LoginCall
  <2> QED BY <1>1, <1>2, <1>3, <2>1, FormServedKeeps
<1>4. CASE srv.last < MaxTokens /\ srv' = Issue(srv) /\ login' = [st |-> "ok", tok |-> srv.last + 1]
  BY <1>1, <1>4, Issuing, FormServedKeeps
<1> QED BY <1>3, <1>4 DEF ServerLogsIn

LEMMA ServerRegistersKeeps ==
  ASSUME IInv, ServerRegisters
  PROVE  IInv'
<1>1. /\ login.st = "sent" /\ srv.last < MaxTokens /\ login' = [st |-> "ok", tok |-> srv.last + 1]
      /\ srv' = [Issue(srv) EXCEPT !.exists = TRUE, !.demoOver = FALSE, !.mfa = FALSE]
      /\ UNCHANGED <<ui, req, queue, refresh, logout, cookie>>
  BY DEF ServerRegisters
<1>2. Issue(srv) \in Service /\ login' \in LoginCall BY <1>1, Issuing
<1>3. srv' \in Service BY <1>1, <1>2 DEF Service
<1> QED BY <1>1, <1>2, <1>3, FormServedKeeps

LEMMA FormAnsweredKeeps ==
  ASSUME IInv, FormAnswered
  PROVE  IInv'
<1>1. /\ login.st # "none" /\ login' = NoLogin /\ UNCHANGED <<req, queue, refresh, logout, srv>>
      /\ cookie' = IF login.st = "ok" THEN login.tok ELSE cookie
  BY DEF FormAnswered
<1>2. ui \in Ui /\ login \in LoginCall /\ cookie \in Tokens BY Types DEF IInv
<1>3. login.tok \in Tokens /\ NoLogin \in LoginCall /\ NoLogin.st = "none"
  BY <1>2, Numbers DEF LoginCall, NoLogin
<1>4. ~ui.signedIn BY <1>1 DEF IInv, Consistent
<1>5. \/ ui' = Established(ui, login.tok)
      \/ ui' = [ui EXCEPT !.pendingMfa = TRUE]
      \/ ui' = DemoLimited(ui)
      \/ ui' = [ui EXCEPT !.signedIn = FALSE]
      \/ ui' = ResetLoginFlow(ui)
  BY DEF FormAnswered
<1>6. ui' \in Ui /\ ui'.loading = ui.loading
      /\ (ui'.signedIn = ui'.persisted \/ (ui'.signedIn = ui.signedIn /\ ui'.persisted = ui.persisted))
  <2>1. CASE ui' = Established(ui, login.tok) BY <1>2, <1>3, <2>1 DEF Ui, Established
  <2>2. CASE ui' = [ui EXCEPT !.pendingMfa = TRUE] BY <1>2, <2>2 DEF Ui
  <2>3. CASE ui' = DemoLimited(ui)
    <3>1. ui' \in Ui /\ ~ui'.signedIn /\ ~ui'.persisted /\ ui'.loading = ui.loading
      BY <1>2, <2>3, PageStates
    <3> QED BY <3>1 DEF Ui
  <2>4. CASE ui' = [ui EXCEPT !.signedIn = FALSE] \/ ui' = ResetLoginFlow(ui)
    BY <1>2, <1>4, <2>4 DEF Ui, ResetLoginFlow
  <2> QED BY <1>5, <2>1, <2>2, <2>3, <2>4
<1>7. Consistent' BY <1>1, <1>3, <1>6 DEF IInv, Consistent
<1>8. cookie' \in Tokens BY <1>1, <1>2, <1>3
<1> QED BY <1>1, <1>3, <1>6, <1>7, <1>8, QuietKeeps, Types DEF IInv

LEMMA DialogKeeps ==
  ASSUME IInv, CloseDialog \/ DeleteDemoAccount
  PROVE  IInv'
<1>1. UNCHANGED <<req, queue, refresh, logout, login, cookie>> BY DEF CloseDialog, DeleteDemoAccount
<1>2. ui \in Ui /\ srv \in Service BY Types DEF IInv
<1>3. srv' \in Service BY <1>2, DeletedService DEF CloseDialog, DeleteDemoAccount
<1>4. /\ ui' \in Ui /\ ui'.loading = ui.loading
      /\ \/ ui'.signedIn = ui.signedIn /\ ui'.persisted = ui.persisted
         \/ ui'.signedIn = FALSE /\ ui'.persisted = FALSE
  BY <1>2, Numbers DEF CloseDialog, DeleteDemoAccount, SignedOut, Ui
<1>5. Consistent' BY <1>1, <1>4 DEF IInv, Consistent
<1> QED BY <1>1, <1>3, <1>4, <1>5, QuietKeeps, Types DEF IInv

LEMMA TimeKeeps ==
  ASSUME IInv, DemoEnds \/ \E t \in Tokens : Expires(t)
  PROVE  IInv'
<1>1. UNCHANGED <<ui, req, queue, refresh, logout, login, cookie>> BY DEF DemoEnds, Expires
<1>2. srv \in Service BY Types DEF IInv
<1>3. srv' \in Service
  <2>1. CASE DemoEnds BY <1>2, <2>1 DEF DemoEnds, Service
  <2>2. ASSUME NEW t \in Tokens, Expires(t) PROVE srv' \in Service
    <3>1. srv.expired \cup {t} \in SUBSET Tokens /\ srv.rdead \cup {t} \in SUBSET Tokens
      BY <1>2 DEF Service
    <3>2. CASE srv' = [srv EXCEPT !.expired = srv.expired \cup {t}]
      BY <1>2, <3>1, <3>2 DEF Service
    <3>3. CASE srv' = [srv EXCEPT !.expired = srv.expired \cup {t},
                                  !.rdead = srv.rdead \cup {t}]
      BY <1>2, <3>1, <3>3 DEF Service
    <3> QED BY <2>2, <3>2, <3>3 DEF Expires
  <2> QED BY <2>1, <2>2
<1>4. Consistent' BY <1>1 DEF IInv, Consistent
<1> QED BY <1>1, <1>3, <1>4, QuietKeeps, Types DEF IInv

LEMMA StutterKeeps ==
  ASSUME IInv, UNCHANGED vars
  PROVE  IInv'
<1>1. UNCHANGED <<ui, req, queue, refresh, logout, login, cookie, srv>> BY DEF vars
<1>2. Consistent' BY <1>1 DEF IInv, Consistent
<1> QED BY <1>1, <1>2, QuietKeeps, Types DEF IInv

LEMMA InductiveInv == IInv /\ [Next]_vars => IInv'
<1> SUFFICES ASSUME IInv, [Next]_vars PROVE IInv' OBVIOUS
<1>1. ASSUME NEW r \in Others, NEW k \in Kinds \ {"me"}, Send(r, k) PROVE IInv'
  BY <1>1, SendKeeps
<1>2. ASSUME NEW r \in Req,
             \/ ServerAnswers(r) \/ RequestLost(r) \/ ReceiveOk(r) \/ ReceiveFailed(r)
             \/ ReceiveDemoLimit(r) \/ ReceiveRefused(r) \/ JoinRefresh(r)
      PROVE  IInv'
  BY <1>2, ServerAnswersKeeps, RequestLostKeeps, ReceiveOkKeeps, ReceiveFailedKeeps,
     ReceiveDemoLimitKeeps, ReceiveRefusedKeeps, JoinRefreshKeeps
<1>3. CASE ServerRefreshes \/ RefreshLost BY <1>3, ServerRefreshesKeeps, RefreshLostKeeps
<1>4. CASE Recovered \/ RecoveryDemoLimited \/ RecoveryRefused
  BY <1>4, RecoveredKeeps, RecoveryDemoLimitedKeeps, RecoveryRefusedKeeps
<1>5. CASE UserLogsOut \/ ServerLogsOut \/ LogoutLost \/ LoggedOut
  BY <1>5, UserLogsOutKeeps, ServerLogsOutKeeps, LogoutLostKeeps, LoggedOutKeeps
<1>6. CASE SubmitForm \/ ServerLogsIn \/ ServerRegisters \/ FormAnswered
  BY <1>6, SubmitFormKeeps, ServerLogsInKeeps, ServerRegistersKeeps, FormAnsweredKeeps
<1>7. CASE CloseDialog \/ DeleteDemoAccount BY <1>7, DialogKeeps
<1>8. CASE Reload BY <1>8, ReloadKeeps
<1>9. CASE DemoEnds \/ \E t \in Tokens : Expires(t) BY <1>9, TimeKeeps
<1>10. CASE UNCHANGED vars BY <1>10, StutterKeeps
<1> QED BY <1>1, <1>2, <1>3, <1>4, <1>5, <1>6, <1>7, <1>8, <1>9, <1>10 DEF Next

LEMMA Invariant == Spec => []IInv
<1>1. Init => IInv BY InitInv
<1>2. IInv /\ [Next]_vars => IInv' BY InductiveInv
<1> QED BY <1>1, <1>2, PTL DEF Spec

-----------------------------------------------------------------------------
(* What follows from it                                                     *)

\* The variables of the tab and of the service keep their types.
THEOREM TypeCorrect == Spec => []TypeOK
<1>1. IInv => TypeOK BY DEF IInv
<1> QED BY <1>1, Invariant, PTL

\* Nobody is left in _refreshQueue, or behind a logout, once that is over, however
\* requests fail, join and lead refreshes while users log out and reload.
THEOREM QueueIsServed == Spec => []NobodyIsForgotten
<1>1. IInv => NobodyIsForgotten BY DEF IInv, Parked
<1> QED BY <1>1, Invariant, PTL

\* A tab with nothing in flight is wholly signed in or wholly signed out, whichever
\* refreshes, logouts, logins and reloads have crossed.
THEOREM QuietTabsAgree == Spec => []QuietIsConsistent
<1>1. IInv => QuietIsConsistent
  <2> SUFFICES ASSUME IInv, Quiet PROVE ~ui.loading /\ ui.signedIn = ui.persisted
    BY DEF QuietIsConsistent
  <2>1. req[Boot].st = "idle" /\ logout.st = "none" BY Numbers DEF Quiet
  <2>2. ~ui.loading BY <2>1, Numbers DEF IInv, Booting
  <2> QED BY <2>1, <2>2 DEF IInv, Consistent
<1> QED BY <1>1, Invariant, PTL

\* What the signed-in user is owed: one of the reasons of SessionsEndForAReason.
HasReason ==
  \/ logout'.by \in {"user", "delete"} \/ refresh.st \in {"refused", "lost"}
  \/ ui.dialog \/ ui'.dialog
  \/ \E r \in Req : req[r].kind = "me" /\ req[r].st \in {"lost", "403"}
  \/ ~ui.loading /\ ui.token = 0

\* Steps that leave the user and the logout alone end nothing.
LEMMA NothingEnds ==
  ASSUME UNCHANGED logout, ui'.persisted = ui.persisted \/ ui'.persisted = TRUE
  PROVE  ~Ends
BY DEF Ends

LEMMA RequestEnds ==
  ASSUME IInv, NEW r \in Req, Ends,
         ReceiveOk(r) \/ ReceiveFailed(r) \/ ReceiveDemoLimit(r) \/ ReceiveRefused(r)
  PROVE  HasReason
<1>1. ui \in Ui /\ logout \in LogoutCall BY Types DEF IInv
<1>2. ui.persisted BY DEF Ends
<1>3. CASE ReceiveOk(r)
  <2>1. CASE req[r].kind = "me"
    <3>1. ui' = [ui EXCEPT !.persisted = TRUE, !.signedIn = TRUE, !.loading = FALSE] /\ UNCHANGED logout
      BY <1>3, <2>1 DEF ReceiveOk
    <3>2. ui'.persisted = TRUE BY <1>1, <3>1 DEF Ui
    <3> QED BY <3>1, <3>2, NothingEnds
  <2>2. CASE req[r].kind = "delete"
    <3>1. Logout(ui, "delete") /\ ~ui.loading BY <1>3, <2>2 DEF ReceiveOk, IInv, Booting
    <3>2. CASE ui.token = 0 BY <3>1, <3>2 DEF HasReason
    <3>3. CASE ui.token # 0
      <4>1. LogoutPosts(ui) BY <3>3 DEF Ends, LogoutPosts
      <4>2. logout'.by = "delete" BY <3>1, <4>1 DEF Logout
      <4> QED BY <4>2 DEF HasReason
    <3> QED BY <3>2, <3>3
  <2>3. CASE req[r].kind \notin {"me", "delete"}
    <3>1. UNCHANGED <<ui, logout>> BY <1>3, <2>3 DEF ReceiveOk
    <3> QED BY <3>1, NothingEnds
  <2> QED BY <2>1, <2>2, <2>3
<1>4. CASE ReceiveFailed(r)
  <2>1. CASE req[r].kind = "me" BY <1>4, <2>1 DEF ReceiveFailed, HasReason
  <2>2. CASE req[r].kind # "me"
    <3>1. ui' = ui /\ UNCHANGED logout BY <1>4, <2>2 DEF ReceiveFailed, Failed
    <3> QED BY <3>1, NothingEnds
  <2> QED BY <2>1, <2>2
<1>5. CASE ReceiveDemoLimit(r)
  <2> DEFINE u == DemoLimited(ui)
  <2>1. u \in Ui /\ ~u.signedIn /\ ~u.persisted /\ u.loading = ui.loading /\ u.dialog BY <1>1, PageStates
  <2>2. Failed({r}, u) BY <1>5 DEF ReceiveDemoLimit
  <2> HIDE DEF u
  <2>3. u.signedIn = u.persisted BY <2>1 DEF Ui
  <2>4. ui'.dialog = u.dialog BY <2>1, <2>2, <2>3, Failing
  <2> QED BY <2>1, <2>4 DEF HasReason
<1>6. CASE ReceiveRefused(r)
  <2>1. Ignored(r) /\ Failed(NoRecovery(r), ui) BY <1>2, <1>6 DEF ReceiveRefused
  <2>2. req[r].kind # "me" /\ NoRecovery(r) = {r} BY <1>2, <2>1 DEF Ignored, NoRecovery
  <2>3. ui' = ui /\ UNCHANGED logout BY <2>1, <2>2 DEF Failed
  <2> QED BY <2>3, NothingEnds
<1> QED BY <1>3, <1>4, <1>5, <1>6

LEMMA RecoveryEnds ==
  ASSUME IInv, Recovered \/ RecoveryDemoLimited \/ RecoveryRefused, Ends
  PROVE  HasReason
<1>1. ui \in Ui /\ logout \in LogoutCall BY Types DEF IInv
<1>2. CASE Recovered
  <2>1. ui'.persisted = ui.persisted /\ UNCHANGED logout BY <1>1, <1>2 DEF Recovered, Ui
  <2> QED BY <2>1, NothingEnds
<1>3. CASE RecoveryDemoLimited
  <2> DEFINE u == DemoLimited(ui)
  <2>1. u \in Ui /\ ~u.signedIn /\ ~u.persisted /\ u.loading = ui.loading /\ u.dialog BY <1>1, PageStates
  <2>2. Failed(Recovering, u) /\ refresh.st # "none" BY <1>3 DEF RecoveryDemoLimited
  <2> HIDE DEF u
  <2>3. u.signedIn = u.persisted BY <2>1 DEF Ui
  <2>4. Recovering \in SUBSET Req BY <2>2, Recoverers
  <2>5. ui'.dialog = u.dialog BY <2>1, <2>2, <2>3, <2>4, Failing
  <2> QED BY <2>1, <2>5 DEF HasReason
<1>4. CASE RecoveryRefused BY <1>4 DEF RecoveryRefused, HasReason
<1> QED BY <1>2, <1>3, <1>4

LEMMA UserEnds ==
  ASSUME IInv, UserLogsOut, Ends
  PROVE  HasReason
<1>1. Logout(ui, "user") /\ ~ui.loading BY DEF UserLogsOut
<1>2. CASE ui.token = 0 BY <1>1, <1>2 DEF HasReason
<1>3. CASE ui.token # 0
  <2>1. LogoutPosts(ui) BY <1>3 DEF Ends, LogoutPosts
  <2>2. logout'.by = "user" BY <1>1, <2>1 DEF Logout
  <2> QED BY <2>2 DEF HasReason
<1> QED BY <1>2, <1>3

LEMMA FormEnds ==
  ASSUME IInv, FormAnswered, Ends
  PROVE  HasReason
<1>1. ui \in Ui BY Types DEF IInv
<1>2. UNCHANGED logout BY DEF FormAnswered
<1>3. CASE ui' = DemoLimited(ui)
  <2>1. ui'.dialog BY <1>1, <1>3, PageStates
  <2> QED BY <2>1 DEF HasReason
<1>4. CASE \/ ui' = Established(ui, login.tok) \/ ui' = [ui EXCEPT !.pendingMfa = TRUE]
           \/ ui' = [ui EXCEPT !.signedIn = FALSE] \/ ui' = ResetLoginFlow(ui)
  <2>1. ui'.persisted = ui.persisted \/ ui'.persisted = TRUE
    BY <1>1, <1>4 DEF Ui, Established, ResetLoginFlow
  <2> QED BY <1>2, <2>1, NothingEnds
<1> QED BY <1>3, <1>4 DEF FormAnswered

\* A session ends because the user or the deletion of the account asked for it, the
\* refresh was refused or lost, the demo was over, or the page's first request failed;
\* never by an expired access token alone.
THEOREM SessionsEndWithReason == Spec => SessionsEndForAReason
<1>1. IInv /\ [Next]_vars => [Ends => HasReason]_vars
  <2> SUFFICES ASSUME IInv, Next, Ends PROVE HasReason OBVIOUS
  <2>1. ASSUME NEW r \in Others, NEW k \in Kinds \ {"me"}, Send(r, k) PROVE HasReason
    BY <2>1, NothingEnds DEF Send
  <2>2. ASSUME NEW r \in Req,
               \/ ServerAnswers(r) \/ RequestLost(r) \/ ReceiveOk(r) \/ ReceiveFailed(r)
               \/ ReceiveDemoLimit(r) \/ ReceiveRefused(r) \/ JoinRefresh(r)
        PROVE  HasReason
    <3>1. CASE ServerAnswers(r) \/ RequestLost(r) \/ JoinRefresh(r)
      BY <3>1, NothingEnds DEF ServerAnswers, RequestLost, JoinRefresh
    <3>2. CASE ReceiveOk(r) \/ ReceiveFailed(r) \/ ReceiveDemoLimit(r) \/ ReceiveRefused(r)
      BY <3>2, RequestEnds
    <3> QED BY <2>2, <3>1, <3>2
  <2>3. CASE ServerRefreshes \/ RefreshLost BY <2>3, NothingEnds DEF ServerRefreshes, RefreshLost
  <2>4. CASE Recovered \/ RecoveryDemoLimited \/ RecoveryRefused BY <2>4, RecoveryEnds
  <2>5. CASE UserLogsOut BY <2>5, UserEnds
  <2>6. CASE ServerLogsOut \/ LogoutLost \/ LoggedOut
    BY <2>6 DEF ServerLogsOut, LogoutLost, LoggedOut, Ends
  <2>7. CASE SubmitForm \/ ServerLogsIn \/ ServerRegisters
    BY <2>7, NothingEnds DEF SubmitForm, ServerLogsIn, ServerRegisters
  <2>8. CASE FormAnswered BY <2>8, FormEnds
  <2>9. CASE CloseDialog \/ DeleteDemoAccount BY <2>9 DEF CloseDialog, DeleteDemoAccount, HasReason
  <2>10. CASE Reload
    <3>1. ui \in Ui BY Types DEF IInv
    <3>2. logout'.st = "none" /\ ui'.persisted = ui.persisted
      BY <2>10, <3>1 DEF Reload, NoLogout, Loaded, Ui
    <3> QED BY <3>2 DEF Ends
  <2>11. CASE DemoEnds \/ \E t \in Tokens : Expires(t)
    BY <2>11, NothingEnds DEF DemoEnds, Expires
  <2> QED BY <2>1, <2>2, <2>3, <2>4, <2>5, <2>6, <2>7, <2>8, <2>9, <2>10, <2>11 DEF Next
<1>2. [Ends => HasReason]_vars
      <=> [Ends => \/ logout'.by \in {"user", "delete"}
                   \/ refresh.st \in {"refused", "lost"}
                   \/ ui.dialog \/ ui'.dialog
                   \/ \E r \in Req : req[r].kind = "me" /\ req[r].st \in {"lost", "403"}
                   \/ ~ui.loading /\ ui.token = 0]_vars
  BY DEF HasReason
<1> QED BY <1>1, <1>2, Invariant, PTL DEF Spec, SessionsEndForAReason

-----------------------------------------------------------------------------
(* Accounts: the inductive invariant                                        *)

\* What a request knows: the MFA it has read to be on has a secret that is held, a code
\* for enabling is of a secret that is held, only what comes from the dialog of the set-up
\* goes with a row without MFA, and codes are looked up for those that ask for one.
Sound(a) ==
  /\ a.row.enabled => a.row.secret \in app
  /\ a.op = "enable" => a.code[1] \in app
  /\ a.op = "enable" /\ a.at = "commit" => a.row.secret \in app
  /\ a.op = "setup" /\ a.at = "commit" => ~a.row.enabled
  /\ a.at \notin {"idle", "sent"} => a.row.there
  /\ a.at \in {"device", "touch", "mark"} => a.op = "login"
  /\ a.at = "codes" => a.op \in {"password", "delete", "login", "verify"}
  /\ a.fresh => a.at = "ok" /\ a.row.secret # 0

Held == (row.enabled => row.secret \in app) /\ \A r \in Asking : Sound(ask[r])

\* The request is going to mark the backup code it has found.
Marks(a) == a.code[2] # 0 /\ (a.at = "mark" \/ (a.at = "commit" /\ a.op \in {"verify", "password"}))

Made == {c \in Code : c[1] <= made /\ c[2] # 0}

\* A code that let in is unused no more, and who still holds it, or holds it with another,
\* is known to have raced.
Once ==
  /\ unused \cup used \cup spent \subseteq Made
  /\ unused \cap spent = {}
  /\ twice \subseteq raced
  /\ \A r \in Asking :
       /\ ask[r].at = "mark" => ask[r].code[2] # 0
       /\ Marks(ask[r]) /\ ask[r].code \in spent => ask[r].code \in raced
  /\ \A r, o \in Asking :
       r # o /\ Marks(ask[r]) /\ Marks(ask[o]) /\ ask[r].code = ask[o].code => ask[r].code \in raced

\* As long as no two have crossed, who is going to write the row has read the one there is.
Agrees == row.password = meant.password /\ row.enabled = meant.enabled /\ row.secret = meant.secret
Stay == row.there /\ ~crossed => Agrees /\ \A r \in Asking : Writes(r) => ask[r].row = row

Devs == devices \cup gone \subseteq 1 .. issued /\ devices \cap gone = {}

\* The table has the codes of the account's secret, and a page those of the one it shows.
Kept == ~crossed /\ row.secret # 0 => CodesOf(row.secret) \subseteq unused \cup used
Honest(v) == v.codes \subseteq CodesOf(v.secret) /\ (v.secret = 0 => v.codes = {})
Shown == Kept /\ \A p \in Pages : Honest(view[p])

Gone == ~row.there => row = NoRow /\ Alone

AccountInv == AccountTypeOK /\ Held /\ Once /\ Stay /\ Devs /\ Shown /\ Gone

-----------------------------------------------------------------------------
(* Accounts: what a step does to the requests                               *)

LEMMA Blank == /\ NoRow \in Row /\ NoCode \in Code /\ NoAsk \in Asks
               /\ \A on \in BOOLEAN : NewView(on) \in View
BY AccountAssumption DEF NoRow, Row, NoCode, Code, NoAsk, Asks, Ops, Stages, NewView, View

LEMMA CodeNumbers == /\ \A s \in Nat : Totp(s) \in Code /\ CodesOf(s) \subseteq Code
                     /\ \A c \in Code : c[1] \in Nat /\ c[2] \in Nat
                     /\ \A s \in Nat : \A c \in CodesOf(s) : c[1] = s /\ c[2] # 0
BY AccountAssumption DEF Totp, CodesOf, Code

AskOK == ask \in [Asking -> Asks]

LEMMA Fields ==
  /\ \A a \in Asks : /\ a.op \in Ops /\ a.at \in Stages /\ a.page \in Pages \cup {NoPage}
                     /\ a.code \in Code /\ a.dev \in Nat /\ a.row \in Row /\ a.fresh \in BOOLEAN
  /\ \A v \in View : v.mfa \in BOOLEAN /\ v.open \in BOOLEAN /\ v.secret \in Nat /\ v.codes \subseteq Code
  /\ \A w \in Row : w.there \in BOOLEAN /\ w.password \in Nat /\ w.enabled \in BOOLEAN /\ w.secret \in Nat
BY DEF Asks, View, Row

LEMMA Moved ==
  ASSUME NEW a \in Asks
  PROVE  /\ \A at \in Stages : [a EXCEPT !.at = at] \in Asks
         /\ \A at \in Stages, w \in Row : [a EXCEPT !.at = at, !.row = w] \in Asks
         /\ \A at \in Stages, w \in Row, c \in Code : [a EXCEPT !.at = at, !.row = w, !.code = c] \in Asks
         /\ [a EXCEPT !.page = NoPage] \in Asks
BY DEF Asks

LEMMA Sent == \A op \in Ops, p \in Pages \cup {NoPage}, code \in Code, dev \in Nat :
  [NoAsk EXCEPT !.op = op, !.at = "sent", !.page = p, !.code = code, !.dev = dev] \in Asks
BY Blank DEF NoAsk, Asks, Stages

LEMMA Steps ==
  ASSUME AskOK, NEW r \in Asking
  PROVE  /\ \A at \in Stages : [ask EXCEPT ![r].at = at] \in [Asking -> Asks]
         /\ \A at \in Stages, w \in Row : [ask EXCEPT ![r].at = at, ![r].row = w] \in [Asking -> Asks]
         /\ \A at \in Stages, w \in Row, c \in Code :
              [ask EXCEPT ![r].at = at, ![r].row = w, ![r].code = c] \in [Asking -> Asks]
         /\ \A S \in SUBSET Asking :
              [o \in Asking |-> IF o \in S THEN [ask[o] EXCEPT !.page = NoPage] ELSE ask[o]]
                \in [Asking -> Asks]
BY Moved DEF AskOK

\* What the requests are after a step: one has come, ended, gone on, or read the row.
Turns(r, at) ==
  /\ ask' \in [Asking -> Asks] /\ \A o \in Asking \ {r} : ask'[o] = ask[o]
  /\ ask'[r].at = at /\ ask'[r].op = ask[r].op /\ ask'[r].code = ask[r].code
  /\ ask'[r].row = ask[r].row /\ ask'[r].fresh = ask[r].fresh

LEMMA Turning ==
  ASSUME ask \in [Asking -> Asks], NEW r \in Asking, NEW at \in Stages, ask' = [ask EXCEPT ![r].at = at]
  PROVE  Turns(r, at)
<1>1. ask' \in [Asking -> Asks] BY Steps DEF AskOK
<1>2. /\ \A o \in Asking \ {r} : ask'[o] = ask[o]
      /\ ask'[r].at = at /\ ask'[r].op = ask[r].op /\ ask'[r].code = ask[r].code
      /\ ask'[r].row = ask[r].row /\ ask'[r].fresh = ask[r].fresh
  BY DEF Asks
<1> QED BY <1>1, <1>2 DEF Turns

Becomes(r, a) == ask' \in [Asking -> Asks] /\ ask'[r] = a /\ \A o \in Asking \ {r} : ask'[o] = ask[o]

LEMMA Becoming ==
  ASSUME ask \in [Asking -> Asks], NEW r \in Asking, NEW a \in Asks, ask' = [ask EXCEPT ![r] = a]
  PROVE  Becomes(r, a)
BY DEF Becomes

Reading(r, op, at) ==
  /\ ask' \in [Asking -> Asks] /\ \A o \in Asking \ {r} : ask'[o] = ask[o]
  /\ ask[r].at = "sent" /\ row.there /\ ask[r].op = op /\ ask'[r].row = row /\ ask'[r].at = at
  /\ ask'[r].op = op /\ ask'[r].code \in {ask[r].code, NoCode} /\ ask'[r].fresh = ask[r].fresh
  /\ UNCHANGED <<tables, asked, user, wanted, uses, gone>>

LEMMA Read ==
  ASSUME AccountTypeOK, NEW r \in Asking, NEW op \in Ops, NEW at \in Stages, Reads(r, op, at)
  PROVE  Reading(r, op, at) /\ ask'[r].code = ask[r].code
<1>1. row \in Row /\ ask \in [Asking -> Asks] BY DEF AccountTypeOK
<1>2. ask' = [ask EXCEPT ![r].at = at, ![r].row = row] BY DEF Reads
<1>3. ask' \in [Asking -> Asks] BY <1>1, <1>2, Steps DEF AskOK
<1>4. /\ \A o \in Asking \ {r} : ask'[o] = ask[o]
      /\ ask'[r].row = row /\ ask'[r].at = at /\ ask'[r].op = ask[r].op
      /\ ask'[r].code = ask[r].code /\ ask'[r].fresh = ask[r].fresh
  BY <1>1, <1>2 DEF Asks
<1> QED BY <1>3, <1>4 DEF Reading, Reads

LEMMA ReadAll ==
  ASSUME AccountTypeOK, NEW r \in Asking
  PROVE  /\ ChangeReads(r) => \E op \in {"password", "delete"} :
              Reading(r, op, "codes") \/ (Reading(r, op, "commit") /\ ask'[r].code[2] = 0)
         /\ VerifyReads(r) => \/ Reading(r, "verify", "codes")
                              \/ Reading(r, "verify", "commit") /\ ask'[r].code[2] = 0
         /\ DisableReads(r) => Reading(r, "disable", "commit")
         /\ LoginReads(r) => Reading(r, "login", "device")
<1>1. /\ {"codes", "commit", "device"} \subseteq Stages
      /\ {"password", "delete", "verify", "disable", "login"} \subseteq Ops
  BY DEF Stages, Ops
<1>2. row \in Row /\ ask \in [Asking -> Asks] BY DEF AccountTypeOK
<1>3. \A s : Fits(r, s) => ask[r].code[2] = 0 BY DEF Fits, Totp
<1>4. ASSUME NEW op \in {"password", "delete"}, ask[r].op = op, ask[r].at = "sent", row.there,
             ask' = [ask EXCEPT ![r].at = "commit", ![r].row = row, ![r].code = NoCode],
             UNCHANGED <<tables, asked, user, wanted, uses, gone>>
      PROVE  Reading(r, op, "commit") /\ ask'[r].code[2] = 0
  <2>1. ask' \in [Asking -> Asks] BY <1>1, <1>2, <1>4, Steps, Blank DEF AskOK
  <2>2. /\ \A o \in Asking \ {r} : ask'[o] = ask[o]
        /\ ask'[r].row = row /\ ask'[r].at = "commit" /\ ask'[r].op = ask[r].op
        /\ ask'[r].code = NoCode /\ ask'[r].fresh = ask[r].fresh
    BY <1>2, <1>4 DEF Asks
  <2>3. ask'[r].code[2] = 0 BY <2>2 DEF NoCode
  <2> QED BY <1>4, <2>1, <2>2, <2>3 DEF Reading
<1>5. ChangeReads(r) => \E op \in {"password", "delete"} :
        Reading(r, op, "codes") \/ (Reading(r, op, "commit") /\ ask'[r].code[2] = 0)
  <2> HAVE ChangeReads(r)
  <2>1. PICK op \in {"password", "delete"} :
          \/ /\ ask[r].op = op /\ ask[r].at = "sent" /\ row.there
             /\ ask' = [ask EXCEPT ![r].at = "commit", ![r].row = row, ![r].code = NoCode]
             /\ UNCHANGED <<tables, asked, user, wanted, uses, gone>>
          \/ Fits(r, row.secret) /\ Reads(r, op, "commit")
          \/ Reads(r, op, "codes")
    BY DEF ChangeReads
  <2>2. CASE /\ ask[r].op = op /\ ask[r].at = "sent" /\ row.there
             /\ ask' = [ask EXCEPT ![r].at = "commit", ![r].row = row, ![r].code = NoCode]
             /\ UNCHANGED <<tables, asked, user, wanted, uses, gone>>
    BY <1>4, <2>2
  <2>3. CASE Fits(r, row.secret) /\ Reads(r, op, "commit")
    BY <1>1, <1>3, <2>3, Read
  <2>4. CASE Reads(r, op, "codes")
    BY <1>1, <2>4, Read
  <2> QED BY <2>1, <2>2, <2>3, <2>4
<1> QED BY <1>1, <1>3, <1>5, Read DEF VerifyReads, DisableReads, LoginReads


LEMMA Sending ==
  ASSUME AccountTypeOK, NEW r \in Asking, NEW op \in Ops, NEW p \in Pages \cup {NoPage}, NEW code \in Code,
         NEW dev \in Nat, Sends(r, op, p, code, dev)
  PROVE  /\ \E a \in Asks : /\ Becomes(r, a) /\ a.op = op /\ a.at = "sent" /\ a.code = code
                            /\ a.row = NoRow /\ ~a.fresh
         /\ asked' = asked + 1
<1> DEFINE a == [NoAsk EXCEPT !.op = op, !.at = "sent", !.page = p, !.code = code, !.dev = dev]
<1>1. a \in Asks BY Sent
<1>2. a.op = op /\ a.at = "sent" /\ a.code = code /\ a.row = NoRow /\ ~a.fresh BY DEF NoAsk
<1>3. ask' = [ask EXCEPT ![r] = a] /\ asked' = asked + 1 BY DEF Sends
<1>4. ask \in [Asking -> Asks] BY DEF AccountTypeOK
<1> HIDE DEF a
<1>5. Becomes(r, a) BY <1>1, <1>3, <1>4, Becoming
<1> QED BY <1>1, <1>2, <1>3, <1>5

LEMMA Enquiries ==
  ASSUME AccountTypeOK, NEW r \in Asking, AskChange(r) \/ AskLogin(r)
  PROVE  /\ asked' = asked + 1 /\ UNCHANGED <<tables, user, wanted, uses, gone>>
         /\ \E a \in Asks : /\ Becomes(r, a) /\ a.op \notin {"enable", "setup"} /\ a.at = "sent"
                            /\ a.row = NoRow /\ ~a.fresh
<1>1. Entered \subseteq Code /\ 0 .. issued \subseteq Nat
  BY Blank, CodeNumbers DEF Entered, AccountTypeOK
<1>2. PICK op \in {"password", "delete", "login", "verify"}, code \in Code, dev \in Nat :
        Sends(r, op, NoPage, code, dev)
  BY <1>1 DEF AskChange, AskLogin
<1>3. op \in Ops /\ op \notin {"enable", "setup"} BY DEF Ops
<1>4. /\ \E a \in Asks : /\ Becomes(r, a) /\ a.op = op /\ a.at = "sent" /\ a.code = code
                         /\ a.row = NoRow /\ ~a.fresh
      /\ asked' = asked + 1
  BY <1>2, <1>3, Sending
<1>5. UNCHANGED <<tables, user, wanted, uses, gone>> BY DEF AskChange, AskLogin
<1> QED BY <1>3, <1>4, <1>5

\* The forms of the profile page.
LEMMA PageAsking ==
  ASSUME AccountTypeOK, NEW p \in Pages, NEW r \in Asking
  PROVE  /\ AskSetup(p, r) \/ AskDisable(p, r) =>
              /\ asked' = asked + 1 /\ UNCHANGED <<tables, user, wanted, uses, gone>>
              /\ \E a \in Asks : /\ Becomes(r, a) /\ a.op \in {"setup", "disable"} /\ a.at = "sent"
                                 /\ a.row = NoRow /\ ~a.fresh
         /\ AskEnable(p, r) =>
              /\ asked' = asked + 1 /\ UNCHANGED <<tables, view, kept, invited, wanted, uses, gone>>
              /\ app' \subseteq Nat /\ app \subseteq app'
              /\ \E a \in Asks : /\ Becomes(r, a) /\ a.op = "enable" /\ a.at = "sent"
                                 /\ a.code[1] \in app' /\ a.row = NoRow /\ ~a.fresh
<1>1. {"setup", "enable", "disable"} \subseteq Ops BY DEF Ops
<1>2. view[p].secret \in Nat /\ app \subseteq Nat BY Fields DEF AccountTypeOK
<1>3. \A s \in Nat : Totp(s) \in Code /\ Totp(s)[1] = s BY CodeNumbers DEF Totp
<1> DEFINE New(op, A) == \E a \in Asks : /\ Becomes(r, a) /\ a.op = op /\ a.at = "sent"
                                      /\ a.code[1] \in A /\ a.row = NoRow /\ ~a.fresh
<1>4. ASSUME AskSetup(p, r) PROVE New("setup", Nat) /\ asked' = asked + 1
  <2>1. Sends(r, "setup", p, NoCode, 0) BY <1>4 DEF AskSetup
  <2> QED BY <1>1, <2>1, Sending, Blank, CodeNumbers
<1>5. ASSUME AskDisable(p, r) PROVE New("disable", Nat) /\ asked' = asked + 1
  <2>1. PICK s \in app : Sends(r, "disable", p, Totp(s), 0) BY <1>5 DEF AskDisable
  <2>2. Totp(s) \in Code /\ Totp(s)[1] \in Nat BY <1>2, <1>3
  <2> QED BY <1>1, <2>1, <2>2, Sending
<1>6. ASSUME AskEnable(p, r)
      PROVE  /\ New("enable", app') /\ asked' = asked + 1 /\ app' \subseteq Nat /\ app \subseteq app'
             /\ UNCHANGED <<tables, view, kept, invited, wanted, uses, gone>>
  <2>1. Sends(r, "enable", p, Totp(view[p].secret), 0) /\ app' = app \cup {view[p].secret}
    BY <1>6 DEF AskEnable
  <2>2. Totp(view[p].secret) \in Code /\ Totp(view[p].secret)[1] \in app' BY <1>2, <1>3, <2>1
  <2>3. New("enable", app') /\ asked' = asked + 1 BY <1>1, <2>1, <2>2, Sending
  <2> QED BY <1>2, <1>6, <2>1, <2>3 DEF AskEnable
<1>7. AskSetup(p, r) \/ AskDisable(p, r) => UNCHANGED <<tables, user, wanted, uses, gone>>
  BY DEF AskSetup, AskDisable
<1> QED BY <1>4, <1>5, <1>6, <1>7

\* The requests that go on, and those that end.
LEMMA GoingOn ==
  ASSUME AccountTypeOK, NEW r \in Asking
  PROVE  /\ Finds(r) => Turns(r, IF ask[r].op = "login" THEN "mark" ELSE "commit")
         /\ LoginMarks(r) => Turns(r, "commit")
         /\ SetupRepeats(r) \/ EnableCommits(r) \/ DisableCommits(r) => Turns(r, "ok")
         /\ DeleteBlocked(r) => Turns(r, "blocked")
<1>1. ask \in [Asking -> Asks] BY DEF AccountTypeOK
<1>2. {"mark", "commit", "ok", "blocked"} \subseteq Stages BY DEF Stages
<1> QED BY <1>1, <1>2, Turning
        DEF Finds, LoginMarks, SetupRepeats, EnableCommits, DisableCommits, DeleteBlocked

LEMMA Ending ==
  ASSUME AccountTypeOK, NEW r \in Asking
  PROVE  /\ Fails(r) \/ Touches(r) \/ LoginEnds(r) \/ VerifyCommits(r) \/ PasswordCommits(r)
            \/ DeleteCommits(r) => Becomes(r, NoAsk)
         /\ \A p \in Pages : SetupHeard(p, r) \/ EnableHeard(p, r) \/ DisableHeard(p, r)
              => Becomes(r, NoAsk)
<1>1. ask \in [Asking -> Asks] BY DEF AccountTypeOK
<1> QED BY <1>1, Blank, Becoming DEF Fails, Touches, LoginEnds, VerifyCommits, PasswordCommits,
        DeleteCommits, SetupHeard, EnableHeard, DisableHeard

LEMMA Checking ==
  ASSUME AccountTypeOK, NEW r \in Asking, LoginChecks(r)
  PROVE  /\ UNCHANGED <<tables, asked, view, app, kept, wanted, uses, gone>> /\ ask[r].at = "device"
         /\ invited' \in {invited, TRUE}
         /\ \/ Becomes(r, NoAsk) \/ Turns(r, "touch") \/ Turns(r, "codes")
            \/ (Turns(r, "commit") /\ ask[r].code[2] = 0)
<1> DEFINE at == IF Fits(r, ask[r].row.secret) THEN "commit" ELSE "codes"
<1>1. ask \in [Asking -> Asks] /\ {"touch", "codes", "commit"} \subseteq Stages
  BY DEF AccountTypeOK, Stages
<1>2. Fits(r, ask[r].row.secret) => ask[r].code[2] = 0 BY DEF Fits, Totp
<1>3. UNCHANGED <<tables, asked, view, app, kept, wanted, uses, gone>> /\ ask[r].at = "device"
  BY DEF LoginChecks
<1>4. \/ ask' = [ask EXCEPT ![r].at = "touch"] /\ UNCHANGED invited
      \/ ask' = [ask EXCEPT ![r] = NoAsk] /\ invited' = TRUE
      \/ ask' = [ask EXCEPT ![r].at = at] /\ UNCHANGED invited
  BY DEF LoginChecks
<1>5. CASE ask' = [ask EXCEPT ![r].at = "touch"] /\ UNCHANGED invited
  BY <1>1, <1>3, <1>5, Turning
<1>6. CASE ask' = [ask EXCEPT ![r] = NoAsk] /\ invited' = TRUE
  BY <1>1, <1>3, <1>6, Blank, Becoming
<1>7. CASE ask' = [ask EXCEPT ![r].at = at] /\ UNCHANGED invited
  <2>1. at \in {"commit", "codes"} /\ at \in Stages /\ (at = "commit" => ask[r].code[2] = 0)
    BY <1>1, <1>2
  <2> HIDE DEF at
  <2>2. Turns(r, at) BY <1>1, <1>7, <2>1, Turning
  <2> QED BY <1>3, <1>7, <2>1, <2>2
<1> QED BY <1>4, <1>5, <1>6, <1>7

LEMMA SetupReading ==
  ASSUME AccountTypeOK, NEW r \in Asking
  PROVE  /\ SetupReads(r) => Reading(r, "setup", "commit") /\ ~row.enabled
         /\ EnableReads(r) => /\ Reading(r, "enable", "commit")
                              /\ ask[r].code[1] = row.secret /\ ask'[r].code = ask[r].code
<1>1. {"setup", "enable"} \subseteq Ops /\ "commit" \in Stages BY DEF Ops, Stages
<1>2. Fits(r, row.secret) => ask[r].code[1] = row.secret BY DEF Fits, Totp
<1> QED BY <1>1, <1>2, Read DEF SetupReads, EnableReads

LEMMA SettingUp ==
  ASSUME AccountTypeOK, NEW r \in Asking, SetupCommits(r)
  PROVE  /\ ask' \in [Asking -> Asks] /\ \A o \in Asking \ {r} : ask'[o] = ask[o]
         /\ ask'[r].op = "setup" /\ ask'[r].at = "ok" /\ ask'[r].fresh
         /\ ask'[r].row = row' /\ row' \in Row /\ row'.secret = made + 1 /\ row'.there = ask[r].row.there
         /\ row'.enabled = ask[r].row.enabled /\ row'.password = ask[r].row.password
BY DEF AccountTypeOK, SetupCommits, Commits, WriteRow, Asks, Row, Stages

LEMMA Reloading ==
  ASSUME AccountTypeOK, NEW p \in Pages, Reloads(p)
  PROVE  /\ ask' \in [Asking -> Asks]
         /\ \A r \in Asking : /\ ask'[r].op = ask[r].op /\ ask'[r].at = ask[r].at
                              /\ ask'[r].code = ask[r].code /\ ask'[r].row = ask[r].row
                              /\ ask'[r].fresh = ask[r].fresh
<1> DEFINE S == {r \in Asking : ask[r].page = p}
<1>1. ask' = [r \in Asking |-> IF r \in S THEN [ask[r] EXCEPT !.page = NoPage] ELSE ask[r]]
  BY DEF Reloads
<1>2. ask' \in [Asking -> Asks] BY <1>1, Steps DEF AskOK, AccountTypeOK
<1>3. \A r \in Asking : ask[r] \in Asks BY DEF AccountTypeOK
<1> QED BY <1>1, <1>2, <1>3 DEF Asks

\* What becomes of the request r.
Course(r) ==
  \/ Becomes(r, NoAsk)
  \/ \E a \in Asks : /\ Becomes(r, a) /\ a.at = "sent" /\ a.row = NoRow /\ ~a.fresh
                     /\ a.op = "enable" => a.code[1] \in app'
  \/ \E op \in {"password", "delete", "verify"} : Reading(r, op, "codes")
  \/ \E op \in {"password", "delete", "verify"} : Reading(r, op, "commit") /\ ask'[r].code[2] = 0
  \/ Reading(r, "setup", "commit") /\ ~row.enabled
  \/ Reading(r, "enable", "commit") /\ ask[r].code[1] = row.secret /\ ask'[r].code = ask[r].code
  \/ Reading(r, "disable", "commit")
  \/ Reading(r, "login", "device")
  \/ ask[r].at = "device" /\ (Turns(r, "touch") \/ Turns(r, "codes"))
  \/ ask[r].at = "device" /\ Turns(r, "commit") /\ ask[r].code[2] = 0
  \/ Finds(r) /\ Turns(r, IF ask[r].op = "login" THEN "mark" ELSE "commit")
  \/ ask[r].at = "mark" /\ Turns(r, "commit")
  \/ ask[r].at = "commit" /\ (Turns(r, "ok") \/ Turns(r, "blocked"))
  \/ SetupCommits(r)

Resting == \A r \in Asking :
  /\ ask'[r].op = ask[r].op /\ ask'[r].at = ask[r].at /\ ask'[r].code = ask[r].code
  /\ ask'[r].row = ask[r].row /\ ask'[r].fresh = ask[r].fresh

LEMMA Courses ==
  ASSUME AccountTypeOK, AccountNext
  PROVE  ask' \in [Asking -> Asks] /\ app \subseteq app' /\ (Resting \/ \E r \in Asking : Course(r))
<1> DEFINE Goal == /\ ask' \in [Asking -> Asks] /\ app \subseteq app'
                   /\ Resting \/ \E r \in Asking : Course(r)
<1>1. ask \in [Asking -> Asks] BY DEF AccountTypeOK
<1>2. ASSUME Revokes \/ \E p \in Pages : OpenSetup(p) \/ CloseSetup(p) PROVE Goal
  <2>1. ask' = ask /\ app' = app BY <1>2 DEF Revokes, OpenSetup, CloseSetup, user
  <2> QED BY <1>1, <2>1 DEF Resting
<1>3. ASSUME NEW p \in Pages, Reloads(p) PROVE Goal
  BY <1>3, Reloading DEF Resting, Reloads
<1>4. ASSUME NEW p \in Pages, NEW r \in Asking, AskSetup(p, r) \/ AskDisable(p, r) PROVE Goal
  <2>1. UNCHANGED <<tables, user, wanted, uses, gone>> BY <1>4, PageAsking
  <2>2. PICK a \in Asks : /\ Becomes(r, a) /\ a.op \in {"setup", "disable"} /\ a.at = "sent"
                          /\ a.row = NoRow /\ ~a.fresh
    BY <1>4, PageAsking
  <2>3. Course(r) BY <2>2 DEF Course
  <2> QED BY <2>1, <2>2, <2>3 DEF Becomes, user
<1>5. ASSUME NEW p \in Pages, NEW r \in Asking, AskEnable(p, r) PROVE Goal
  <2>1. app \subseteq app' BY <1>5, PageAsking
  <2>2. PICK a \in Asks : /\ Becomes(r, a) /\ a.op = "enable" /\ a.at = "sent"
                          /\ a.code[1] \in app' /\ a.row = NoRow /\ ~a.fresh
    BY <1>5, PageAsking
  <2>3. Course(r) BY <2>2 DEF Course
  <2> QED BY <2>1, <2>2, <2>3 DEF Becomes
<1>6. ASSUME NEW r \in Asking, AskChange(r) \/ AskLogin(r) PROVE Goal
  <2>1. UNCHANGED <<tables, user, wanted, uses, gone>> BY <1>6, Enquiries
  <2>2. PICK a \in Asks : /\ Becomes(r, a) /\ a.op \notin {"enable", "setup"} /\ a.at = "sent"
                          /\ a.row = NoRow /\ ~a.fresh
    BY <1>6, Enquiries
  <2>3. Course(r) BY <2>2 DEF Course
  <2> QED BY <2>1, <2>2, <2>3 DEF Becomes, user
<1>7. ASSUME NEW r \in Asking,
             SetupReads(r) \/ EnableReads(r) \/ DisableReads(r) \/ ChangeReads(r) \/ VerifyReads(r)
             \/ LoginReads(r)
      PROVE  Goal
  <2>1. Course(r) BY <1>7, SetupReading, ReadAll DEF Course
  <2>2. \E op, at : Reading(r, op, at) BY <1>7, SetupReading, ReadAll
  <2> QED BY <2>1, <2>2 DEF Reading, user
<1>8. ASSUME NEW r \in Asking, LoginChecks(r) PROVE Goal
  <2>1. app' = app /\ Course(r) BY <1>8, Checking DEF Course
  <2>2. ask' \in [Asking -> Asks] BY <1>8, Checking DEF Becomes, Turns
  <2> QED BY <2>1, <2>2
<1>9. ASSUME NEW r \in Asking, \/ Finds(r) \/ LoginMarks(r) \/ SetupRepeats(r)
                              \/ EnableCommits(r) \/ DisableCommits(r) \/ DeleteBlocked(r)
      PROVE  Goal
  <2>1. app' = app
    BY <1>9 DEF Finds, LoginMarks, SetupRepeats, EnableCommits, DisableCommits, DeleteBlocked, user
  <2>2. /\ LoginMarks(r) => ask[r].at = "mark"
        /\ SetupRepeats(r) \/ EnableCommits(r) \/ DisableCommits(r) \/ DeleteBlocked(r)
             => ask[r].at = "commit"
    BY DEF LoginMarks, SetupRepeats, EnableCommits, DisableCommits, DeleteBlocked, Commits
  <2>3. Course(r) BY <1>9, <2>2, GoingOn DEF Course
  <2>4. \E at : Turns(r, at) BY <1>9, GoingOn
  <2> QED BY <2>1, <2>3, <2>4 DEF Turns
<1>10. ASSUME NEW r \in Asking,
              \/ Fails(r) \/ Touches(r) \/ LoginEnds(r) \/ VerifyCommits(r) \/ PasswordCommits(r)
              \/ DeleteCommits(r)
              \/ \E p \in Pages : SetupHeard(p, r) \/ EnableHeard(p, r) \/ DisableHeard(p, r)
       PROVE  Goal
  <2>1. app' = app
    BY <1>10 DEF Fails, Touches, LoginEnds, VerifyCommits, PasswordCommits, DeleteCommits,
                 SetupHeard, EnableHeard, DisableHeard, user
  <2>2. Becomes(r, NoAsk) BY <1>10, Ending
  <2>3. Course(r) BY <2>2 DEF Course
  <2> QED BY <2>1, <2>2, <2>3 DEF Becomes
<1>11. ASSUME NEW r \in Asking, SetupCommits(r) PROVE Goal
  <2>1. ask' \in [Asking -> Asks] BY <1>11, SettingUp
  <2> QED BY <1>11, <2>1 DEF SetupCommits, Course, user
<1> QED BY <1>2, <1>3, <1>4, <1>5, <1>6, <1>7, <1>8, <1>9, <1>10, <1>11
        DEF AccountNext, PageActs, PageAsks, Enquires, Concludes

LEMMA OthersRest ==
  ASSUME AccountTypeOK, NEW r \in Asking, Course(r)
  PROVE  \A o \in Asking \ {r} : ask'[o] = ask[o]
BY SettingUp DEF Course, Becomes, Turns, Reading

\* The steps that change neither the tables nor what is to be.
LEMMA Elsewhere ==
  ASSUME AccountNext
  PROVE  \/ UNCHANGED <<tables, wanted, spent, twice, gone>>
         \/ Revokes
         \/ \E r \in Asking : \/ LoginMarks(r) \/ LoginEnds(r) \/ VerifyCommits(r) \/ SetupCommits(r)
                             \/ EnableCommits(r) \/ DisableCommits(r) \/ PasswordCommits(r)
                             \/ DeleteCommits(r)
<1> DEFINE Q == UNCHANGED <<tables, wanted, spent, twice, gone>>
<1>1. \A p \in Pages : PageActs(p) => Q BY DEF PageActs, OpenSetup, CloseSetup, Reloads, uses
<1>2. \A p \in Pages, r \in Asking : PageAsks(p, r) => Q
  BY DEF PageAsks, AskSetup, AskEnable, AskDisable, SetupHeard, EnableHeard, DisableHeard, uses
<1>3. \A r \in Asking : AskChange(r) \/ AskLogin(r) \/ Fails(r) \/ Enquires(r) => Q
  BY DEF AskChange, AskLogin, Fails, Enquires, SetupReads, EnableReads, DisableReads, ChangeReads,
         VerifyReads, LoginReads, Reads, LoginChecks, Touches, Finds, uses
<1>4. \A r \in Asking : SetupRepeats(r) \/ DeleteBlocked(r) => Q
  BY DEF SetupRepeats, DeleteBlocked, uses
<1> QED BY <1>1, <1>2, <1>3, <1>4 DEF AccountNext, Concludes

-----------------------------------------------------------------------------
(* Accounts: what requests have read                                        *)

LEMMA StaysSound ==
  ASSUME AccountTypeOK, Held, NEW r \in Asking, Course(r), app \subseteq app'
  PROVE  Sound(ask[r])'
<1> DEFINE a == ask[r]
           b == ask'[r]
<1>1. Sound(a) /\ (row.enabled => row.secret \in app) BY DEF Held
<1>2. a \in Asks /\ row \in Row BY DEF AccountTypeOK
<1> SUFFICES /\ b.row.enabled => b.row.secret \in app'
             /\ b.op = "enable" => b.code[1] \in app'
             /\ b.op = "enable" /\ b.at = "commit" => b.row.secret \in app'
             /\ b.op = "setup" /\ b.at = "commit" => ~b.row.enabled
             /\ b.at \notin {"idle", "sent"} => b.row.there
             /\ b.at \in {"device", "touch", "mark"} => b.op = "login"
             /\ b.at = "codes" => b.op \in {"password", "delete", "login", "verify"}
             /\ b.fresh => b.at = "ok" /\ b.row.secret # 0
  BY DEF Sound
<1>3. CASE Becomes(r, NoAsk) BY <1>3 DEF Becomes, NoAsk, NoRow
<1>4. CASE \E x \in Asks : /\ Becomes(r, x) /\ x.at = "sent" /\ x.row = NoRow /\ ~x.fresh
                           /\ x.op = "enable" => x.code[1] \in app'
  BY <1>4 DEF Becomes, NoRow
<1>5. CASE \E op \in {"password", "delete", "verify"} : Reading(r, op, "codes")
  BY <1>1, <1>2, <1>5 DEF Reading, Sound
<1>6. CASE \E op \in {"password", "delete", "verify"} : Reading(r, op, "commit") /\ b.code[2] = 0
  BY <1>1, <1>2, <1>6 DEF Reading, Sound
<1>7. CASE Reading(r, "setup", "commit") /\ ~row.enabled
  BY <1>1, <1>2, <1>7 DEF Reading, Sound
<1>8. CASE Reading(r, "enable", "commit") /\ a.code[1] = row.secret /\ b.code = a.code
  BY <1>1, <1>2, <1>8 DEF Reading, Sound
<1>9. CASE Reading(r, "disable", "commit") \/ Reading(r, "login", "device")
  BY <1>1, <1>2, <1>9 DEF Reading, Sound
<1>10. CASE a.at = "device" /\ (Turns(r, "touch") \/ Turns(r, "codes") \/ Turns(r, "commit"))
  BY <1>1, <1>2, <1>10 DEF Turns, Sound
<1>11. CASE Finds(r) /\ Turns(r, IF a.op = "login" THEN "mark" ELSE "commit")
  <2>1. a.at = "codes" BY <1>11 DEF Finds
  <2> QED BY <1>1, <1>2, <1>11, <2>1 DEF Turns, Sound
<1>12. CASE a.at = "mark" /\ Turns(r, "commit")
  BY <1>1, <1>2, <1>12 DEF Turns, Sound
<1>13. CASE a.at = "commit" /\ (Turns(r, "ok") \/ Turns(r, "blocked"))
  <2>1. b.row = a.row /\ b.op = a.op /\ b.code = a.code /\ b.fresh = a.fresh
        /\ b.at \in {"ok", "blocked"}
    BY <1>13 DEF Turns
  <2>2. a.at = "commit" BY <1>13
  <2> QED BY <1>1, <1>2, <2>1, <2>2 DEF Sound
<1>14. CASE SetupCommits(r)
  <2>1. a.op = "setup" /\ a.at = "commit" /\ made \in Nat
    BY <1>14 DEF SetupCommits, Commits, AccountTypeOK
  <2>2. /\ b.op = "setup" /\ b.at = "ok" /\ b.row = row' /\ row'.secret = made + 1
        /\ row'.there = a.row.there /\ row'.enabled = a.row.enabled
    BY <1>14, SettingUp
  <2> QED BY <1>1, <2>1, <2>2 DEF Sound
<1> QED BY <1>3, <1>4, <1>5, <1>6, <1>7, <1>8, <1>9, <1>10, <1>11, <1>12, <1>13, <1>14 DEF Course

\* A row that is written is one that was read, or has no MFA on it, or a secret whose code
\* was right.
LEMMA HeldKept ==
  ASSUME AccountInv, AccountNext
  PROVE  Held'
<1>1. AccountTypeOK /\ Held BY DEF AccountInv
<1>2. app \subseteq app' /\ (Resting \/ \E r \in Asking : Course(r)) BY <1>1, Courses
<1>3. \A r \in Asking : Sound(ask[r]) BY <1>1 DEF Held
<1>4. \A r \in Asking : Sound(ask[r])'
  <2>1. CASE Resting BY <1>2, <1>3, <2>1 DEF Resting, Sound
  <2>2. ASSUME NEW r \in Asking, Course(r), NEW o \in Asking PROVE Sound(ask[o])'
    <3>1. CASE o = r BY <1>1, <1>2, <2>2, <3>1, StaysSound
    <3>2. CASE o # r
      <4>1. ask'[o] = ask[o] BY <1>1, <2>2, <3>2, OthersRest
      <4> QED BY <1>2, <1>3, <4>1 DEF Sound
    <3> QED BY <3>1, <3>2
  <2> QED BY <1>2, <2>1, <2>2
<1>5. (row.enabled => row.secret \in app)'
  <2>1. CASE row' = row BY <1>1, <1>2, <2>1 DEF Held
  <2>2. ASSUME NEW r \in Asking, SetupCommits(r) PROVE row'.enabled => row'.secret \in app'
    <3>1. row'.enabled = ask[r].row.enabled BY <1>1, <2>2, SettingUp
    <3>2. ~ask[r].row.enabled BY <1>3, <2>2 DEF SetupCommits, Commits, Sound
    <3> QED BY <3>1, <3>2
  <2>3. ASSUME NEW r \in Asking, EnableCommits(r), row' # row PROVE row'.enabled => row'.secret \in app'
    <3>1. ask[r].row \in Row BY <1>1 DEF AccountTypeOK, Asks
    <3>2. row' = [ask[r].row EXCEPT !.enabled = TRUE] BY <2>3 DEF EnableCommits, WriteRow
    <3>3. row'.secret = ask[r].row.secret BY <3>1, <3>2 DEF Row
    <3>4. ask[r].row.secret \in app BY <1>3, <2>3 DEF EnableCommits, Sound
    <3> QED BY <1>2, <3>3, <3>4
  <2>4. ASSUME NEW r \in Asking, DisableCommits(r) PROVE ~row'.enabled
    <3>1. ask[r].row \in Row BY <1>1 DEF AccountTypeOK, Asks
    <3> QED BY <2>4, <3>1 DEF DisableCommits, WriteRow, Row
  <2>5. ASSUME NEW r \in Asking, PasswordCommits(r), row' # row PROVE row'.enabled => row'.secret \in app'
    <3>1. ask[r].row \in Row BY <1>1 DEF AccountTypeOK, Asks
    <3>2. PICK n : row' = [ask[r].row EXCEPT !.password = n]
      BY <2>5 DEF PasswordCommits, WriteRow
    <3>3. row'.enabled = ask[r].row.enabled /\ row'.secret = ask[r].row.secret BY <3>1, <3>2 DEF Row
    <3> QED BY <1>2, <1>3, <3>3 DEF Sound
  <2>6. ASSUME NEW r \in Asking, DeleteCommits(r) PROVE ~row'.enabled
    BY <2>6 DEF DeleteCommits, NoRow
  <2>7. Revokes => row' = row BY DEF Revokes
  <2>8. \A r \in Asking : LoginMarks(r) \/ LoginEnds(r) \/ VerifyCommits(r) => row' = row
    BY DEF LoginMarks, LoginEnds, VerifyCommits
  <2>9. UNCHANGED <<tables, wanted, spent, twice, gone>> => row' = row BY DEF tables
  <2> QED BY Elsewhere, <2>1, <2>2, <2>3, <2>4, <2>5, <2>6, <2>7, <2>8, <2>9
<1> QED BY <1>4, <1>5 DEF Held

-----------------------------------------------------------------------------
(* Accounts: the one that is wanted                                         *)

\* Who is going to write the row was going to before, or has just read it.
LEMMA WritersRead ==
  ASSUME AccountTypeOK, Held, NEW r \in Asking, Course(r), Writes(r)'
  PROVE  /\ ask'[r].row = row \/ (Writes(r) /\ ask'[r].row = ask[r].row)
         /\ UNCHANGED <<tables, wanted>>
<1> DEFINE a == ask[r]
           b == ask'[r]
<1>1. Sound(a) /\ a \in Asks BY DEF Held, AccountTypeOK
<1>2. b.at \in {"codes", "commit"} /\ b.op # "login" BY DEF Writes
<1>3. ~Becomes(r, NoAsk) BY <1>2 DEF Becomes, NoAsk
<1>4. ~SetupCommits(r) BY <1>2, SettingUp
<1>5. \A op, at : Reading(r, op, at) => b.row = row /\ UNCHANGED <<tables, wanted>> BY DEF Reading
<1>6. CASE Finds(r) /\ Turns(r, IF a.op = "login" THEN "mark" ELSE "commit")
  BY <1>2, <1>6 DEF Turns, Finds, Writes
<1>7. ~ \E x \in Asks : Becomes(r, x) /\ x.at = "sent" BY <1>2 DEF Becomes
<1>8. ~(a.at = "device" /\ (Turns(r, "touch") \/ Turns(r, "codes") \/ Turns(r, "commit")))
  BY <1>1, <1>2 DEF Turns, Sound
<1>9. ~(a.at = "mark" /\ Turns(r, "commit")) BY <1>1, <1>2 DEF Turns, Sound
<1>10. ~(Turns(r, "ok") \/ Turns(r, "blocked")) BY <1>2 DEF Turns
<1> QED BY <1>3, <1>4, <1>5, <1>6, <1>7, <1>8, <1>9, <1>10 DEF Course

\* What a request writes: the row it has read, with its own change.
LEMMA SetupWrites ==
  ASSUME AccountTypeOK, NEW r \in Asking, SetupCommits(r)
  PROVE  /\ row' \in Row /\ row'.there = ask[r].row.there /\ row'.password = ask[r].row.password
         /\ row'.enabled = ask[r].row.enabled /\ row'.secret = made + 1
         /\ meant' \in Row /\ meant'.secret = made + 1
         /\ meant'.password = meant.password /\ meant'.enabled = meant.enabled
         /\ crossed' = (crossed \/ \E o \in Asking \ {r} : Writes(o))
<1>1. meant \in Row /\ made \in Nat BY DEF AccountTypeOK
<1>2. /\ meant' = [meant EXCEPT !.secret = made + 1]
      /\ crossed' = (crossed \/ \E o \in Asking \ {r} : Writes(o))
  BY DEF SetupCommits, WriteRow
<1> QED BY <1>1, <1>2, SettingUp DEF Row

LEMMA EnableWrites ==
  ASSUME AccountTypeOK, NEW r \in Asking, EnableCommits(r), ~UNCHANGED <<row, wanted>>
  PROVE  /\ row' \in Row /\ row'.there = ask[r].row.there /\ row'.password = ask[r].row.password
         /\ row'.enabled /\ ~ask[r].row.enabled /\ row'.secret = ask[r].row.secret
         /\ meant' \in Row /\ meant'.secret = meant.secret
         /\ meant'.password = meant.password /\ meant'.enabled
         /\ crossed' = (crossed \/ \E o \in Asking \ {r} : Writes(o))
<1>1. meant \in Row /\ ask[r].row \in Row BY DEF AccountTypeOK, Asks
<1>2. /\ row' = [ask[r].row EXCEPT !.enabled = TRUE] /\ ~ask[r].row.enabled
      /\ meant' = [meant EXCEPT !.enabled = TRUE]
      /\ crossed' = (crossed \/ \E o \in Asking \ {r} : Writes(o))
  BY DEF EnableCommits, WriteRow
<1> QED BY <1>1, <1>2 DEF Row

LEMMA DisableWrites ==
  ASSUME AccountTypeOK, NEW r \in Asking, DisableCommits(r)
  PROVE  /\ row' \in Row /\ row'.there = ask[r].row.there /\ row'.password = ask[r].row.password
         /\ ~row'.enabled /\ row'.secret = 0
         /\ meant' \in Row /\ meant'.secret = 0
         /\ meant'.password = meant.password /\ ~meant'.enabled
         /\ crossed' = (crossed \/ \E o \in Asking \ {r} : Writes(o))
<1>1. meant \in Row /\ ask[r].row \in Row BY DEF AccountTypeOK, Asks
<1>2. /\ row' = [ask[r].row EXCEPT !.enabled = FALSE, !.secret = 0]
      /\ meant' = [meant EXCEPT !.enabled = FALSE, !.secret = 0]
      /\ crossed' = (crossed \/ \E o \in Asking \ {r} : Writes(o))
  BY DEF DisableCommits, WriteRow
<1>3. \A w \in Row : LET v == [w EXCEPT !.enabled = FALSE, !.secret = 0] IN
        /\ v \in Row /\ v.there = w.there /\ v.password = w.password /\ ~v.enabled /\ v.secret = 0
  BY DEF Row
<1> QED BY <1>1, <1>2, <1>3

LEMMA PasswordWrites ==
  ASSUME AccountTypeOK, NEW r \in Asking, PasswordCommits(r), ~UNCHANGED <<row, wanted>>
  PROVE  /\ row' \in Row /\ row'.there = ask[r].row.there /\ row'.password = meant'.password
         /\ row'.enabled = ask[r].row.enabled /\ row'.secret = ask[r].row.secret
         /\ meant' \in Row /\ meant'.secret = meant.secret /\ meant'.enabled = meant.enabled
         /\ crossed' = (crossed \/ \E o \in Asking \ {r} : Writes(o))
<1>1. meant \in Row /\ ask[r].row \in Row BY DEF AccountTypeOK, Asks
<1>2. /\ meant' = [meant EXCEPT !.password = @ + 1]
      /\ row' = [ask[r].row EXCEPT !.password = meant'.password]
      /\ crossed' = (crossed \/ \E o \in Asking \ {r} : Writes(o))
  BY DEF PasswordCommits, WriteRow
<1>3. meant' \in Row /\ meant'.secret = meant.secret /\ meant'.enabled = meant.enabled
  BY <1>1, <1>2 DEF Row
<1>4. meant'.password \in Nat BY <1>3 DEF Row
<1> QED BY <1>1, <1>2, <1>3, <1>4 DEF Row

\* The row that is written is the one that is there, unless two writers overlap.
LEMMA StayWritten ==
  ASSUME AccountInv, NEW r \in Asking, row.there, Writes(r),
         \A o \in Asking \ {r} : ask'[o] = ask[o], ask'[r].at \in {"idle", "ok"},
         crossed' = (crossed \/ \E o \in Asking \ {r} : Writes(o)),
         ask[r].row = row /\ Agrees => Agrees'
  PROVE  Stay'
<1> SUFFICES ASSUME row'.there, ~crossed' PROVE Agrees' /\ \A o \in Asking : ~Writes(o)'
  BY DEF Stay
<1>1. ~crossed /\ \A o \in Asking \ {r} : ~Writes(o) BY DEF AccountInv, AccountTypeOK
<1>2. ask[r].row = row /\ Agrees BY <1>1 DEF AccountInv, Stay
<1>3. ~Writes(r)' BY DEF Writes
<1>4. \A o \in Asking \ {r} : ~Writes(o)' BY <1>1 DEF Writes
<1> QED BY <1>2, <1>3, <1>4

LEMMA StayKept ==
  ASSUME AccountInv, AccountNext
  PROVE  Stay'
<1>1. AccountTypeOK /\ Held /\ Stay BY DEF AccountInv
<1>2. Resting \/ \E r \in Asking : Course(r) BY <1>1, Courses
<1>3. \A r \in Asking : Writes(r)' => ask'[r].row = row \/ (Writes(r) /\ ask'[r].row = ask[r].row)
  <2>1. CASE Resting BY <2>1 DEF Resting, Writes
  <2>2. ASSUME NEW o \in Asking, Course(o), NEW r \in Asking, Writes(r)'
        PROVE  ask'[r].row = row \/ (Writes(r) /\ ask'[r].row = ask[r].row)
    <3>1. CASE o = r BY <1>1, <2>2, <3>1, WritersRead
    <3>2. CASE o # r
      <4>1. ask'[r] = ask[r] BY <1>1, <2>2, <3>2, OthersRest
      <4> QED BY <2>2, <4>1 DEF Writes
    <3> QED BY <3>1, <3>2
  <2> QED BY <1>2, <2>1, <2>2
<1>4. CASE UNCHANGED <<row, wanted>>
  BY <1>1, <1>3, <1>4 DEF Stay, Agrees, wanted
<1>5. ASSUME NEW r \in Asking, SetupCommits(r) PROVE Stay'
  <2>1. Writes(r) /\ row.there BY <1>5 DEF SetupCommits, Commits, Writes
  <2>2. ask'[r].at = "ok" /\ \A o \in Asking \ {r} : ask'[o] = ask[o] BY <1>1, <1>5, SettingUp
  <2> QED BY <1>1, <1>5, <2>1, <2>2, SetupWrites, StayWritten DEF Agrees
<1>6. ASSUME NEW r \in Asking, EnableCommits(r) PROVE Stay'
  <2> SUFFICES ASSUME ~UNCHANGED <<row, wanted>> PROVE Stay' BY <1>4
  <2>1. Writes(r) /\ row.there BY <1>6 DEF EnableCommits, Writes
  <2>2. ask'[r].at = "ok" /\ \A o \in Asking \ {r} : ask'[o] = ask[o]
    BY <1>1, <1>6, GoingOn DEF Turns
  <2>3. /\ row'.password = ask[r].row.password /\ row'.enabled /\ row'.secret = ask[r].row.secret
        /\ meant'.secret = meant.secret /\ meant'.password = meant.password /\ meant'.enabled
        /\ crossed' = (crossed \/ \E o \in Asking \ {r} : Writes(o))
        /\ row' \in Row /\ meant' \in Row
    BY <1>1, <1>6, EnableWrites
  <2>4. row'.enabled = meant'.enabled BY <2>3 DEF Row
  <2> QED BY <2>1, <2>2, <2>3, <2>4, StayWritten DEF Agrees
<1>7. ASSUME NEW r \in Asking, DisableCommits(r) PROVE Stay'
  <2>1. Writes(r) /\ row.there BY <1>7 DEF DisableCommits, Commits, Writes
  <2>2. ask'[r].at = "ok" /\ \A o \in Asking \ {r} : ask'[o] = ask[o]
    BY <1>1, <1>7, GoingOn DEF Turns
  <2>3. /\ row'.password = ask[r].row.password /\ ~row'.enabled /\ row'.secret = 0
        /\ meant'.secret = 0 /\ meant'.password = meant.password /\ ~meant'.enabled
        /\ crossed' = (crossed \/ \E o \in Asking \ {r} : Writes(o))
        /\ row' \in Row /\ meant' \in Row
    BY <1>1, <1>7, DisableWrites
  <2>4. row'.enabled = meant'.enabled BY <2>3 DEF Row
  <2> QED BY <2>1, <2>2, <2>3, <2>4, StayWritten DEF Agrees
<1>8. ASSUME NEW r \in Asking, PasswordCommits(r) PROVE Stay'
  <2> SUFFICES ASSUME ~UNCHANGED <<row, wanted>> PROVE Stay' BY <1>4
  <2>1. Writes(r) /\ row.there BY <1>8 DEF PasswordCommits, Commits, Writes
  <2>2. ask'[r].at = "idle" /\ \A o \in Asking \ {r} : ask'[o] = ask[o]
    BY <1>1, <1>8, Ending DEF Becomes, NoAsk
  <2> QED BY <1>1, <1>8, <2>1, <2>2, PasswordWrites, StayWritten DEF Agrees
<1>9. \A r \in Asking : DeleteCommits(r) => Stay' BY DEF DeleteCommits, NoRow, Stay
<1>10. Revokes => UNCHANGED <<row, wanted>> BY DEF Revokes
<1>11. \A r \in Asking : LoginMarks(r) \/ LoginEnds(r) \/ VerifyCommits(r) => UNCHANGED <<row, wanted>>
  BY DEF LoginMarks, LoginEnds, VerifyCommits
<1>12. UNCHANGED <<tables, wanted, spent, twice, gone>> => UNCHANGED <<row, wanted>> BY DEF tables
<1> QED BY Elsewhere, <1>4, <1>5, <1>6, <1>7, <1>8, <1>9, <1>10, <1>11, <1>12

-----------------------------------------------------------------------------
(* Accounts: devices                                                        *)

LEMMA DevsKept ==
  ASSUME AccountInv, AccountNext
  PROVE  Devs'
<1>1. issued \in Nat /\ devices \cup gone \subseteq 1 .. issued /\ devices \cap gone = {}
  BY DEF AccountInv, AccountTypeOK, Devs
<1>2. CASE UNCHANGED <<devices, issued, gone>> BY <1>1, <1>2 DEF Devs
<1>3. CASE Revokes BY <1>1, <1>3 DEF Revokes, Devs
<1>4. ASSUME Trusts, gone' = gone PROVE Devs'
  <2>1. CASE UNCHANGED <<issued, devices>> BY <1>2, <1>4, <2>1
  <2>2. CASE issued' = issued + 1 /\ devices' = devices \cup {issued'}
    <3>1. issued' \in 1 .. issued' /\ issued' \notin 1 .. issued /\ 1 .. issued \subseteq 1 .. issued'
      BY <1>1, <2>2
    <3> QED BY <1>1, <1>4, <2>2, <3>1 DEF Devs
  <2> QED BY <1>4, <2>1, <2>2 DEF Trusts
<1>5. \A r \in Asking : LoginEnds(r) \/ VerifyCommits(r) => Trusts /\ gone' = gone
  BY DEF LoginEnds, VerifyCommits
<1>6. \A r \in Asking : \/ LoginMarks(r) \/ SetupCommits(r) \/ EnableCommits(r) \/ DisableCommits(r)
                       \/ PasswordCommits(r) \/ DeleteCommits(r)
        => UNCHANGED <<devices, issued, gone>>
  BY DEF LoginMarks, SetupCommits, EnableCommits, DisableCommits, PasswordCommits, DeleteCommits
<1>7. UNCHANGED <<tables, wanted, spent, twice, gone>> => UNCHANGED <<devices, issued, gone>>
  BY DEF tables
<1> QED BY Elsewhere, <1>2, <1>3, <1>4, <1>5, <1>6, <1>7

-----------------------------------------------------------------------------
(* Accounts: backup codes                                                   *)

\* Marking moves a row; a set-up and a disabling write them anew, and nothing else does.
UsesCode(r) == LoginMarks(r) \/ (ask[r].code[2] # 0 /\ (VerifyCommits(r) \/ PasswordCommits(r)))

LEMMA Filing ==
  ASSUME AccountNext
  PROVE  \/ UNCHANGED <<unused, used, spent, twice, raced, made>>
         \/ \E r \in Asking : Finds(r)
         \/ \E r \in Asking : UsesCode(r) /\ Mark(ask[r].code) /\ made' = made
         \/ \E r \in Asking : SetupCommits(r) \/ DisableCommits(r)
<1> DEFINE Q == UNCHANGED <<unused, used, spent, twice, raced, made>>
<1>1. \A p \in Pages : PageActs(p) => Q BY DEF PageActs, OpenSetup, CloseSetup, Reloads, uses, tables
<1>2. \A p \in Pages, r \in Asking : PageAsks(p, r) => Q
  BY DEF PageAsks, AskSetup, AskEnable, AskDisable, SetupHeard, EnableHeard, DisableHeard, uses, tables
<1>3. \A r \in Asking : AskChange(r) \/ AskLogin(r) \/ Fails(r) => Q
  BY DEF AskChange, AskLogin, Fails, uses, tables
<1>4. \A r \in Asking : Enquires(r) => Q \/ Finds(r)
  BY DEF Enquires, SetupReads, EnableReads, DisableReads, ChangeReads, VerifyReads, LoginReads, Reads,
         LoginChecks, Touches, Finds, uses, tables
<1>5. \A r \in Asking : \/ SetupRepeats(r) \/ DeleteBlocked(r) \/ LoginEnds(r) \/ EnableCommits(r)
                       \/ DeleteCommits(r) => Q
  BY DEF SetupRepeats, DeleteBlocked, LoginEnds, EnableCommits, DeleteCommits, uses, tables
<1>6. \A r \in Asking : VerifyCommits(r) \/ PasswordCommits(r)
        => Q \/ (ask[r].code[2] # 0 /\ Mark(ask[r].code) /\ made' = made)
  BY DEF VerifyCommits, PasswordCommits, MarkFound, uses
<1>7. \A r \in Asking : LoginMarks(r) => Mark(ask[r].code) /\ made' = made BY DEF LoginMarks
<1>8. Revokes => Q BY DEF Revokes, uses
<1> QED BY <1>1, <1>2, <1>3, <1>4, <1>5, <1>6, <1>7, <1>8 DEF AccountNext, Concludes, UsesCode

\* Who holds a code held it before, or has just found it.
LEMMA HoldersFound ==
  ASSUME AccountTypeOK, Held, NEW r \in Asking, Course(r), ask'[r].at = "mark" \/ Marks(ask'[r])
  PROVE  ask'[r].code = ask[r].code /\ Finds(r)
<1> DEFINE a == ask[r]
           b == ask'[r]
<1>1. Sound(a) BY DEF Held
<1>2. b.at = "mark" \/ (b.at = "commit" /\ b.code[2] # 0 /\ b.op \in {"verify", "password"})
  BY DEF Marks
<1>3. ~Becomes(r, NoAsk) BY <1>2 DEF Becomes, NoAsk
<1>4. ~SetupCommits(r) BY <1>2, SettingUp
<1>5. ~ \E x \in Asks : Becomes(r, x) /\ x.at = "sent" BY <1>2 DEF Becomes
<1>6. ~(a.at = "device" /\ (Turns(r, "touch") \/ Turns(r, "codes") \/ Turns(r, "commit")))
  BY <1>1, <1>2 DEF Turns, Sound
<1>7. ~(a.at = "mark" /\ Turns(r, "commit")) BY <1>1, <1>2 DEF Turns, Sound
<1>8. ~(Turns(r, "ok") \/ Turns(r, "blocked")) BY <1>2 DEF Turns
<1>9. /\ \A op : ~Reading(r, op, "codes")
      /\ \A op : ~(Reading(r, op, "commit") /\ b.code[2] = 0)
      /\ ~Reading(r, "setup", "commit") /\ ~Reading(r, "enable", "commit")
      /\ ~Reading(r, "disable", "commit") /\ ~Reading(r, "login", "device")
  BY <1>2 DEF Reading
<1>10. Finds(r) /\ Turns(r, IF a.op = "login" THEN "mark" ELSE "commit")
  BY <1>3, <1>4, <1>5, <1>6, <1>7, <1>8, <1>9 DEF Course
<1> QED BY <1>10 DEF Turns

LEMMA StillHeld ==
  ASSUME AccountTypeOK, Held, AccountNext, ~ \E f \in Asking : Finds(f),
         NEW r \in Asking, ask'[r].at = "mark" \/ Marks(ask'[r])
  PROVE  ask'[r].code = ask[r].code /\ ask'[r].at = ask[r].at /\ ask'[r].op = ask[r].op
<1>1. CASE Resting BY <1>1 DEF Resting
<1>2. ASSUME NEW o \in Asking, Course(o)
      PROVE  ask'[r].code = ask[r].code /\ ask'[r].at = ask[r].at /\ ask'[r].op = ask[r].op
  <2>1. o # r BY <1>2, HoldersFound
  <2> QED BY <1>2, <2>1, OthersRest
<1> QED BY <1>1, <1>2, Courses

LEMMA FoundOnce ==
  ASSUME AccountInv, NEW f \in Asking, Finds(f)
  PROVE  Once'
<1> DEFINE c == ask[f].code
<1>1. AccountTypeOK /\ Once BY DEF AccountInv
<1>2. Turns(f, IF ask[f].op = "login" THEN "mark" ELSE "commit") BY <1>1, GoingOn
<1>3. UNCHANGED <<unused, used, spent, twice, made>> /\ c \in unused BY DEF Finds, tables
<1>4. raced' = IF \E o \in Asking \ {f} : Holds(o, c) THEN raced \cup {c} ELSE raced BY DEF Finds
<1>5. c \notin spent /\ c[2] # 0 BY <1>1, <1>3 DEF Once, Made
<1>6. ask'[f].code = c /\ \A o \in Asking \ {f} : ask'[o] = ask[o] BY <1>2 DEF Turns
<1>7. raced \subseteq raced' BY <1>4
<1>8. /\ unused' \cup used' \cup spent' \subseteq Made' /\ unused' \cap spent' = {}
      /\ twice' \subseteq raced'
  BY <1>1, <1>3, <1>7 DEF Once, Made
<1>9. ASSUME NEW r \in Asking
      PROVE  /\ ask'[r].at = "mark" => ask'[r].code[2] # 0
             /\ Marks(ask'[r]) /\ ask'[r].code \in spent' => ask'[r].code \in raced'
  <2>1. CASE r = f BY <1>3, <1>5, <1>6, <2>1
  <2>2. CASE r # f BY <1>1, <1>3, <1>6, <1>7, <2>2 DEF Once
  <2> QED BY <2>1, <2>2
<1>10. ASSUME NEW o \in Asking \ {f}, Marks(ask'[o]), ask'[o].code = c PROVE c \in raced'
  <2>1. Holds(o, c) BY <1>6, <1>10 DEF Marks, Holds
  <2> QED BY <1>4, <2>1
<1>11. ASSUME NEW r \in Asking, NEW o \in Asking, r # o, Marks(ask'[r]), Marks(ask'[o]),
              ask'[r].code = ask'[o].code
       PROVE  ask'[r].code \in raced'
  <2>1. CASE r = f BY <1>6, <1>10, <1>11, <2>1
  <2>2. CASE o = f BY <1>6, <1>10, <1>11, <2>2
  <2>3. CASE r # f /\ o # f BY <1>1, <1>6, <1>7, <1>11, <2>3 DEF Once
  <2> QED BY <2>1, <2>2, <2>3
<1> QED BY <1>8, <1>9, <1>11 DEF Once, Marks

LEMMA MarkedOnce ==
  ASSUME AccountInv, AccountNext, ~ \E f \in Asking : Finds(f), NEW m \in Asking,
         UsesCode(m), Mark(ask[m].code), made' = made
  PROVE  Once'
<1> DEFINE c == ask[m].code
<1>1. AccountTypeOK /\ Held /\ Once BY DEF AccountInv
<1>2. /\ c \in unused \cup used /\ unused' = unused \ {c} /\ used' = used \cup {c}
      /\ twice' = twice \cup (spent \cap {c}) /\ spent' = spent \cup {c} /\ raced' = raced
  BY DEF Mark
<1>3. Marks(ask[m]) /\ ~Marks(ask'[m]) /\ ask'[m].at # "mark"
  <2>1. CASE LoginMarks(m)
    <3>1. ask[m].at = "mark" /\ ask[m].op = "login" BY <1>1, <2>1 DEF LoginMarks, Held, Sound
    <3>2. ask'[m].at = "commit" /\ ask'[m].op = ask[m].op BY <1>1, <2>1, GoingOn DEF Turns
    <3> QED BY <1>1, <3>1, <3>2 DEF Once, Marks
  <2>2. CASE ask[m].code[2] # 0 /\ (VerifyCommits(m) \/ PasswordCommits(m))
    <3>1. ask'[m] = NoAsk BY <1>1, <2>2, Ending DEF Becomes
    <3> QED BY <2>2, <3>1 DEF VerifyCommits, PasswordCommits, Commits, Marks, NoAsk
  <2> QED BY <2>1, <2>2 DEF UsesCode
<1>4. c \in spent => c \in raced BY <1>1, <1>3 DEF Once
<1>5. /\ unused' \cup used' \cup spent' \subseteq Made' /\ unused' \cap spent' = {}
      /\ twice' \subseteq raced'
  BY <1>1, <1>2, <1>4 DEF Once, Made
<1>6. \A r \in Asking : ask'[r].at = "mark" \/ Marks(ask'[r])
        => /\ r # m /\ ask'[r].code = ask[r].code /\ ask'[r].at = ask[r].at
           /\ (Marks(ask'[r]) => Marks(ask[r]))
  BY <1>1, <1>3, StillHeld DEF Marks
<1>7. \A r \in Asking : ask'[r].at = "mark" => ask'[r].code[2] # 0 BY <1>1, <1>6 DEF Once
<1>8. ASSUME NEW r \in Asking, Marks(ask'[r]), ask'[r].code \in spent' PROVE ask'[r].code \in raced'
  <2>1. r # m /\ ask'[r].code = ask[r].code /\ Marks(ask[r]) BY <1>6, <1>8
  <2>2. CASE ask[r].code \in spent BY <1>1, <1>2, <2>1, <2>2 DEF Once
  <2>3. CASE ask[r].code = c BY <1>1, <1>2, <1>3, <2>1, <2>3 DEF Once
  <2> QED BY <1>2, <1>8, <2>1, <2>2, <2>3
<1>9. ASSUME NEW r \in Asking, NEW o \in Asking, r # o, Marks(ask'[r]), Marks(ask'[o]),
             ask'[r].code = ask'[o].code
      PROVE  ask'[r].code \in raced'
  BY <1>1, <1>2, <1>6, <1>9 DEF Once
<1> QED BY <1>5, <1>7, <1>8, <1>9 DEF Once, Marks

LEMMA Replaced ==
  ASSUME NEW r \in Asking, NEW codes, Replaces(r, codes)
  PROVE  /\ codes \subseteq unused' /\ unused' \subseteq codes \cup unused /\ used' \subseteq used
BY DEF Replaces

\* No code is made twice: those of a new set-up were never spent.
LEMMA OnceKept ==
  ASSUME AccountInv, AccountNext
  PROVE  Once'
<1>1. AccountTypeOK /\ Held /\ Once BY DEF AccountInv
<1>2. CASE \E f \in Asking : Finds(f) BY <1>2, FoundOnce
<1>3. CASE ~ \E f \in Asking : Finds(f)
  <2>1. \A r \in Asking : ask'[r].at = "mark" \/ Marks(ask'[r])
          => /\ ask'[r].code = ask[r].code /\ ask'[r].at = ask[r].at
             /\ (Marks(ask'[r]) => Marks(ask[r]))
    BY <1>1, <1>3, StillHeld DEF Marks
  <2>2. ASSUME spent' = spent, raced' = raced, twice' = twice,
               unused' \cup used' \cup spent' \subseteq Made', unused' \cap spent' = {}
        PROVE  Once'
    <3>1. ASSUME NEW r \in Asking
          PROVE  /\ ask'[r].at = "mark" => ask'[r].code[2] # 0
                 /\ Marks(ask'[r]) /\ ask'[r].code \in spent' => ask'[r].code \in raced'
      BY <1>1, <2>1, <2>2 DEF Once
    <3>2. ASSUME NEW r \in Asking, NEW o \in Asking, r # o, Marks(ask'[r]), Marks(ask'[o]),
                 ask'[r].code = ask'[o].code
          PROVE  ask'[r].code \in raced'
      BY <1>1, <2>1, <2>2, <3>2 DEF Once
    <3> QED BY <1>1, <2>2, <3>1, <3>2 DEF Once, Marks
  <2>3. CASE UNCHANGED <<unused, used, spent, twice, raced, made>>
    BY <1>1, <2>2, <2>3 DEF Once, Made
  <2>4. ASSUME NEW r \in Asking, SetupCommits(r) PROVE Once'
    <3> DEFINE s == made + 1
    <3>1. made \in Nat /\ unused \cup used \cup spent \subseteq Code BY <1>1 DEF AccountTypeOK
    <3>2. /\ made' = s /\ unused' \subseteq CodesOf(s) \cup unused /\ used' \subseteq used
          /\ spent' = spent /\ raced' = raced /\ twice' = twice
      BY <2>4, Replaced DEF SetupCommits, uses
    <3>3. CodesOf(s) \subseteq Code /\ \A d \in CodesOf(s) : d[1] = s /\ d[2] # 0
      BY <3>1, CodeNumbers
    <3>4. \A d \in unused \cup used \cup spent : d[1] \in Nat /\ d[1] <= made /\ d[2] # 0
      BY <1>1, <3>1, CodeNumbers DEF Once, Made
    <3>5. CodesOf(s) \cup unused \cup used \cup spent \subseteq Made' /\ CodesOf(s) \cap spent = {}
      BY <3>1, <3>2, <3>3, <3>4 DEF Made
    <3>6. unused \cap spent = {} BY <1>1 DEF Once
    <3> QED BY <2>2, <3>2, <3>5, <3>6
  <2>5. ASSUME NEW r \in Asking, DisableCommits(r) PROVE Once'
    <3>1. /\ unused' \subseteq unused /\ used' \subseteq used /\ made' = made
          /\ spent' = spent /\ raced' = raced /\ twice' = twice
      BY <2>5, Replaced DEF DisableCommits, uses
    <3>2. unused' \cup used' \cup spent' \subseteq Made' /\ unused' \cap spent' = {}
      BY <1>1, <3>1 DEF Once, Made
    <3> QED BY <2>2, <3>1, <3>2
  <2> QED BY <1>3, Filing, <2>3, <2>4, <2>5, MarkedOnce
<1> QED BY <1>2, <1>3

LEMMA FiledKept ==
  ASSUME NEW r \in Asking, MarkFound(r)
  PROVE  unused' \cup used' = unused \cup used
BY DEF MarkFound, Mark

\* Whoever writes the row without crossing writes the secret that is there.
LEMMA KeptKept ==
  ASSUME AccountInv, AccountNext
  PROVE  Kept'
<1>1. AccountTypeOK /\ Held /\ Stay /\ Kept BY DEF AccountInv, Shown
<1>2. CASE UNCHANGED <<row, crossed>> /\ unused' \cup used' = unused \cup used
  BY <1>1, <1>2 DEF Kept
<1>3. ASSUME NEW r \in Asking, SetupCommits(r) PROVE Kept'
  <2>1. row'.secret = made + 1 BY <1>1, <1>3, SetupWrites
  <2>2. CodesOf(made + 1) \subseteq unused' BY <1>3, Replaced DEF SetupCommits
  <2> QED BY <2>1, <2>2 DEF Kept
<1>4. ASSUME NEW r \in Asking, DisableCommits(r) PROVE Kept'
  BY <1>1, <1>4, DisableWrites DEF Kept
<1>5. ASSUME NEW r \in Asking, row.there, Writes(r), row'.secret = ask[r].row.secret,
             crossed' = (crossed \/ \E o \in Asking \ {r} : Writes(o)),
             unused' \cup used' = unused \cup used
      PROVE  Kept'
  <2> SUFFICES ASSUME ~crossed' PROVE Kept' BY DEF Kept
  <2>1. ~crossed BY <1>1, <1>5 DEF AccountTypeOK
  <2>2. row'.secret = row.secret BY <1>1, <1>5, <2>1 DEF Stay
  <2> QED BY <1>1, <1>5, <2>1, <2>2 DEF Kept
<1>6. ASSUME NEW r \in Asking, EnableCommits(r) PROVE Kept'
  <2>1. unused' \cup used' = unused \cup used BY <1>6 DEF EnableCommits
  <2>2. CASE UNCHANGED <<row, wanted>> BY <1>2, <2>1, <2>2 DEF wanted
  <2>3. CASE ~UNCHANGED <<row, wanted>>
    <3>1. Writes(r) /\ row.there BY <1>6, <2>3 DEF EnableCommits, Writes
    <3> QED BY <1>1, <1>5, <1>6, <2>1, <2>3, <3>1, EnableWrites
  <2> QED BY <2>2, <2>3
<1>7. ASSUME NEW r \in Asking, PasswordCommits(r) PROVE Kept'
  <2>1. unused' \cup used' = unused \cup used BY <1>7, FiledKept DEF PasswordCommits
  <2>2. CASE UNCHANGED <<row, wanted>> BY <1>2, <2>1, <2>2 DEF wanted
  <2>3. CASE ~UNCHANGED <<row, wanted>>
    <3>1. Writes(r) /\ row.there BY <1>7 DEF PasswordCommits, Commits, Writes
    <3> QED BY <1>1, <1>5, <1>7, <2>1, <2>3, <3>1, PasswordWrites
  <2> QED BY <2>2, <2>3
<1>8. \A r \in Asking : DeleteCommits(r) => Kept' BY DEF DeleteCommits, NoRow, Kept
<1>9. Revokes => UNCHANGED <<row, crossed>> /\ unused' \cup used' = unused \cup used
  BY DEF Revokes, wanted
<1>10. \A r \in Asking : LoginMarks(r) \/ LoginEnds(r) \/ VerifyCommits(r)
         => UNCHANGED <<row, crossed>> /\ unused' \cup used' = unused \cup used
  BY FiledKept DEF LoginMarks, LoginEnds, VerifyCommits, Mark, wanted
<1>11. UNCHANGED <<tables, wanted, spent, twice, gone>>
         => UNCHANGED <<row, crossed>> /\ unused' \cup used' = unused \cup used
  BY DEF tables, wanted
<1> QED BY Elsewhere, <1>2, <1>3, <1>4, <1>6, <1>7, <1>8, <1>9, <1>10, <1>11

\* What changes the view of the page p.
Viewed(p) ==
  \/ OpenSetup(p) \/ CloseSetup(p) \/ Reloads(p)
  \/ \E r \in Asking : SetupHeard(p, r) \/ EnableHeard(p, r) \/ DisableHeard(p, r)

LEMMA Views ==
  ASSUME AccountNext
  PROVE  view' = view \/ \E p \in Pages : Viewed(p)
<1>1. \A p \in Pages, r \in Asking : AskSetup(p, r) \/ AskEnable(p, r) \/ AskDisable(p, r) => view' = view
  BY DEF AskSetup, AskEnable, AskDisable, user
<1>2. \A r \in Asking : AskChange(r) \/ AskLogin(r) \/ Fails(r) \/ Enquires(r) => view' = view
  BY DEF AskChange, AskLogin, Fails, Enquires, SetupReads, EnableReads, DisableReads, ChangeReads,
         VerifyReads, LoginReads, Reads, LoginChecks, Touches, Finds, user
<1>3. \A r \in Asking : Concludes(r) => view' = view
  BY DEF Concludes, LoginMarks, LoginEnds, VerifyCommits, SetupCommits, SetupRepeats, EnableCommits,
         DisableCommits, PasswordCommits, DeleteCommits, DeleteBlocked, user
<1>4. Revokes => view' = view BY DEF Revokes, user
<1> QED BY <1>1, <1>2, <1>3, <1>4 DEF AccountNext, PageActs, PageAsks, Viewed

\* How a page's view changes.
LEMMA Viewing ==
  ASSUME NEW p \in Pages
  PROVE  LET v == view[p]
             To(w) == view' = [view EXCEPT ![p] = w]
         IN /\ OpenSetup(p) => To([v EXCEPT !.open = TRUE])
            /\ CloseSetup(p) => To(NewView(v.mfa))
            /\ Reloads(p) => To(NewView(row.enabled))
            /\ \A r \in Asking : EnableHeard(p, r) => To([v EXCEPT !.mfa = TRUE, !.step = "backup"])
            /\ \A r \in Asking : DisableHeard(p, r) => To([v EXCEPT !.mfa = FALSE])
            /\ \A r \in Asking : SetupHeard(p, r) =>
                 To([v EXCEPT !.step = "verify", !.secret = ask[r].row.secret,
                              !.codes = IF ask[r].fresh THEN CodesOf(ask[r].row.secret) ELSE {}])
BY DEF OpenSetup, CloseSetup, Reloads, EnableHeard, DisableHeard, SetupHeard

\* What a page comes to show is what it was answered.
LEMMA ViewKept ==
  ASSUME AccountInv, NEW p \in Pages, Viewed(p)
  PROVE  \E w \in View : Honest(w) /\ view' = [view EXCEPT ![p] = w]
<1> DEFINE v == view[p]
           Goal == \E w \in View : Honest(w) /\ view' = [view EXCEPT ![p] = w]
<1>1. AccountTypeOK /\ Held /\ v \in View /\ Honest(v) /\ row \in Row
  BY DEF AccountInv, Shown, AccountTypeOK
<1>2. \A on \in BOOLEAN : NewView(on) \in View /\ Honest(NewView(on))
  BY Blank DEF NewView, Honest
<1>3. CASE OpenSetup(p)
  <2>1. view' = [view EXCEPT ![p] = [v EXCEPT !.open = TRUE]] BY <1>3, Viewing
  <2> QED BY <1>1, <2>1 DEF View, Honest
<1>4. CASE CloseSetup(p)
  <2>1. view' = [view EXCEPT ![p] = NewView(v.mfa)] /\ v.mfa \in BOOLEAN BY <1>1, <1>4, Viewing, Fields
  <2> QED BY <1>2, <2>1
<1>5. CASE Reloads(p)
  <2>1. view' = [view EXCEPT ![p] = NewView(row.enabled)] /\ row.enabled \in BOOLEAN BY <1>1, <1>5, Viewing, Fields
  <2> QED BY <1>2, <2>1
<1>6. ASSUME NEW r \in Asking, SetupHeard(p, r) PROVE Goal
  <2> DEFINE s == ask[r].row.secret
             C == IF ask[r].fresh THEN CodesOf(s) ELSE {}
  <2>1. view' = [view EXCEPT ![p] = [v EXCEPT !.step = "verify", !.secret = s, !.codes = C]] BY <1>6, Viewing
  <2>2. s \in Nat BY <1>1, Fields DEF AccountTypeOK
  <2>3. ask[r].fresh => s # 0 BY <1>1 DEF Held, Sound
  <2>4. C \subseteq CodesOf(s) /\ (s = 0 => C = {}) /\ C \in SUBSET Code BY <2>2, <2>3, CodeNumbers
  <2> HIDE DEF s, C
  <2> QED BY <1>1, <2>1, <2>2, <2>4 DEF View, Honest
<1>7. ASSUME NEW r \in Asking, EnableHeard(p, r) PROVE Goal
  <2>1. view' = [view EXCEPT ![p] = [v EXCEPT !.mfa = TRUE, !.step = "backup"]] BY <1>7, Viewing
  <2> QED BY <1>1, <2>1 DEF View, Honest
<1>8. ASSUME NEW r \in Asking, DisableHeard(p, r) PROVE Goal
  <2>1. view' = [view EXCEPT ![p] = [v EXCEPT !.mfa = FALSE]] BY <1>8, Viewing
  <2> QED BY <1>1, <2>1 DEF View, Honest
<1> QED BY <1>3, <1>4, <1>5, <1>6, <1>7, <1>8 DEF Viewed

LEMMA ShownKept ==
  ASSUME AccountInv, AccountNext
  PROVE  Shown' /\ view' \in [Pages -> View]
<1>1. AccountTypeOK /\ Shown BY DEF AccountInv
<1>2. Kept' BY KeptKept
<1>3. view \in [Pages -> View] BY <1>1 DEF AccountTypeOK
<1>4. CASE view' = view BY <1>1, <1>2, <1>3, <1>4 DEF Shown
<1>5. ASSUME NEW p \in Pages, Viewed(p) PROVE Shown' /\ view' \in [Pages -> View]
  <2>1. PICK w \in View : Honest(w) /\ view' = [view EXCEPT ![p] = w] BY <1>5, ViewKept
  <2>2. view' \in [Pages -> View] /\ \A q \in Pages : view'[q] \in {w, view[q]} BY <1>3, <2>1
  <2> QED BY <1>1, <1>2, <2>1, <2>2 DEF Shown
<1> QED BY <1>4, <1>5, Views

-----------------------------------------------------------------------------
(* Accounts: the deleted one                                                *)

LEMMA GoneKept ==
  ASSUME AccountInv, AccountNext
  PROVE  Gone'
<1>1. AccountTypeOK /\ Held /\ Gone BY DEF AccountInv
<1>2. CASE UNCHANGED <<row, unused, used>> /\ devices' \subseteq devices
  BY <1>1, <1>2 DEF Gone, Alone
<1>3. CASE row'.there BY <1>3 DEF Gone
<1>4. \A r \in Asking : ask[r].at = "commit" => ask[r].row.there BY <1>1 DEF Held, Sound
<1>5. ASSUME NEW r \in Asking, LoginMarks(r) PROVE Gone'
  <2>1. row.there BY <1>1, <1>5 DEF LoginMarks, Mark, Gone, Alone
  <2> QED BY <1>3, <1>5, <2>1 DEF LoginMarks
<1>6. ASSUME NEW r \in Asking, LoginEnds(r) \/ VerifyCommits(r) PROVE Gone'
  BY <1>3, <1>6 DEF LoginEnds, VerifyCommits, Commits
<1>7. ASSUME NEW r \in Asking, SetupCommits(r) PROVE Gone'
  <2>1. row'.there = ask[r].row.there BY <1>1, <1>7, SetupWrites
  <2> QED BY <1>3, <1>4, <1>7, <2>1 DEF SetupCommits, Commits
<1>8. ASSUME NEW r \in Asking, DisableCommits(r) PROVE Gone'
  <2>1. row'.there = ask[r].row.there BY <1>1, <1>8, DisableWrites
  <2> QED BY <1>3, <1>4, <1>8, <2>1 DEF DisableCommits, Commits
<1>9. ASSUME NEW r \in Asking, EnableCommits(r) PROVE Gone'
  <2>1. CASE UNCHANGED <<row, wanted>> BY <1>2, <1>9, <2>1 DEF EnableCommits
  <2>2. CASE ~UNCHANGED <<row, wanted>>
    <3>1. row'.there = ask[r].row.there BY <1>1, <1>9, <2>2, EnableWrites
    <3> QED BY <1>3, <1>4, <1>9, <3>1 DEF EnableCommits
  <2> QED BY <2>1, <2>2
<1>10. ASSUME NEW r \in Asking, PasswordCommits(r) PROVE Gone'
  <2>1. row.there /\ ask[r].at = "commit" BY <1>10 DEF PasswordCommits, Commits
  <2>2. CASE UNCHANGED <<row, wanted>> BY <1>3, <2>1, <2>2
  <2>3. CASE ~UNCHANGED <<row, wanted>>
    <3>1. row'.there = ask[r].row.there BY <1>1, <1>10, <2>3, PasswordWrites
    <3> QED BY <1>3, <1>4, <2>1, <3>1
  <2> QED BY <2>2, <2>3
<1>11. \A r \in Asking : DeleteCommits(r) => Gone' BY DEF DeleteCommits, Alone, Gone
<1>12. Revokes => UNCHANGED <<row, unused, used>> /\ devices' \subseteq devices BY DEF Revokes
<1>13. UNCHANGED <<tables, wanted, spent, twice, gone>>
         => UNCHANGED <<row, unused, used>> /\ devices' \subseteq devices
  BY DEF tables
<1> QED BY Elsewhere, <1>2, <1>5, <1>6, <1>7, <1>8, <1>9, <1>10, <1>11, <1>12, <1>13

-----------------------------------------------------------------------------
(* Accounts: types                                                          *)

LEMMA RowsTyped ==
  ASSUME AccountInv, AccountNext
  PROVE  row' \in Row /\ meant' \in Row /\ crossed' \in BOOLEAN
<1>1. AccountTypeOK /\ row \in Row /\ meant \in Row /\ crossed \in BOOLEAN
  BY DEF AccountInv, AccountTypeOK
<1>2. CASE UNCHANGED <<row, wanted>> BY <1>1, <1>2 DEF wanted
<1>3. ASSUME NEW r \in Asking, SetupCommits(r)
      PROVE  row' \in Row /\ meant' \in Row /\ crossed' \in BOOLEAN
  BY <1>1, <1>3, SetupWrites
<1>4. ASSUME NEW r \in Asking, EnableCommits(r)
      PROVE  row' \in Row /\ meant' \in Row /\ crossed' \in BOOLEAN
  BY <1>1, <1>2, <1>4, EnableWrites
<1>5. ASSUME NEW r \in Asking, DisableCommits(r)
      PROVE  row' \in Row /\ meant' \in Row /\ crossed' \in BOOLEAN
  BY <1>1, <1>5, DisableWrites
<1>6. ASSUME NEW r \in Asking, PasswordCommits(r)
      PROVE  row' \in Row /\ meant' \in Row /\ crossed' \in BOOLEAN
  BY <1>1, <1>2, <1>6, PasswordWrites
<1>7. ASSUME NEW r \in Asking, DeleteCommits(r)
      PROVE  row' \in Row /\ meant' \in Row /\ crossed' \in BOOLEAN
  BY <1>1, <1>7, Blank DEF DeleteCommits, wanted
<1>8. Revokes => UNCHANGED <<row, wanted>> BY DEF Revokes
<1>9. \A r \in Asking : LoginMarks(r) \/ LoginEnds(r) \/ VerifyCommits(r) => UNCHANGED <<row, wanted>>
  BY DEF LoginMarks, LoginEnds, VerifyCommits
<1>10. UNCHANGED <<tables, wanted, spent, twice, gone>> => UNCHANGED <<row, wanted>> BY DEF tables
<1> QED BY Elsewhere, <1>2, <1>3, <1>4, <1>5, <1>6, <1>7, <1>8, <1>9, <1>10

LEMMA NumbersTyped ==
  ASSUME AccountInv, AccountNext
  PROVE  made' \in Nat /\ issued' \in Nat
<1>1. made \in Nat /\ issued \in Nat BY DEF AccountInv, AccountTypeOK
<1>2. CASE UNCHANGED <<made, issued>> BY <1>1, <1>2
<1>3. \A r \in Asking : SetupCommits(r) => made' \in Nat /\ issued' \in Nat
  BY <1>1 DEF SetupCommits
<1>4. Trusts => issued' \in Nat BY <1>1 DEF Trusts
<1>5. \A r \in Asking : LoginEnds(r) \/ VerifyCommits(r) => Trusts /\ made' = made
  BY DEF LoginEnds, VerifyCommits
<1>6. \A r \in Asking : \/ LoginMarks(r) \/ EnableCommits(r) \/ DisableCommits(r)
                       \/ PasswordCommits(r) \/ DeleteCommits(r) => UNCHANGED <<made, issued>>
  BY DEF LoginMarks, EnableCommits, DisableCommits, PasswordCommits, DeleteCommits
<1>7. Revokes => UNCHANGED <<made, issued>> BY DEF Revokes
<1>8. UNCHANGED <<tables, wanted, spent, twice, gone>> => UNCHANGED <<made, issued>> BY DEF tables
<1> QED BY Elsewhere, <1>1, <1>2, <1>3, <1>4, <1>5, <1>6, <1>7, <1>8

LEMMA UsersTyped ==
  ASSUME AccountInv, AccountNext
  PROVE  asked' \in Nat /\ app' \subseteq Nat /\ kept' \subseteq Code /\ invited' \in BOOLEAN
<1> DEFINE Goal == asked' \in Nat /\ app' \subseteq Nat /\ kept' \subseteq Code /\ invited' \in BOOLEAN
<1>1. AccountTypeOK BY DEF AccountInv
<1>2. asked \in Nat /\ app \subseteq Nat /\ kept \subseteq Code /\ invited \in BOOLEAN
  BY <1>1 DEF AccountTypeOK
<1>3. CASE UNCHANGED <<asked, app, kept, invited>> BY <1>2, <1>3
<1>4. \A p \in Pages : PageActs(p) => UNCHANGED <<asked, app, kept, invited>>
  BY DEF PageActs, OpenSetup, CloseSetup, Reloads
<1>5. ASSUME NEW p \in Pages, NEW r \in Asking, PageAsks(p, r) PROVE Goal
  <2>1. CASE AskSetup(p, r) \/ AskDisable(p, r)
    <3>1. asked' = asked + 1 /\ UNCHANGED user BY <1>1, <2>1, PageAsking
    <3> QED BY <1>2, <3>1 DEF user
  <2>2. CASE AskEnable(p, r) BY <1>1, <1>2, <2>2, PageAsking
  <2>3. CASE SetupHeard(p, r) \/ DisableHeard(p, r) BY <1>2, <2>3 DEF SetupHeard, DisableHeard
  <2>4. CASE EnableHeard(p, r)
    <3>1. view[p].codes \subseteq Code BY <1>1, Fields DEF AccountTypeOK
    <3> QED BY <1>2, <2>4, <3>1 DEF EnableHeard
  <2> QED BY <1>5, <2>1, <2>2, <2>3, <2>4 DEF PageAsks
<1>6. ASSUME NEW r \in Asking, AskChange(r) \/ AskLogin(r) PROVE Goal
  <2>1. asked' = asked + 1 /\ UNCHANGED user BY <1>1, <1>6, Enquiries
  <2> QED BY <1>2, <2>1 DEF user
<1>7. ASSUME NEW r \in Asking, LoginChecks(r) PROVE Goal
  BY <1>1, <1>2, <1>7, Checking
<1>8. \A r \in Asking : Fails(r) \/ (Enquires(r) /\ ~LoginChecks(r)) => UNCHANGED <<asked, app, kept, invited>>
  BY DEF Fails, Enquires, SetupReads, EnableReads, DisableReads, ChangeReads, VerifyReads, LoginReads,
         Reads, Touches, Finds, user
<1>9. \A r \in Asking : Concludes(r) => UNCHANGED <<asked, app, kept, invited>>
  BY DEF Concludes, LoginMarks, LoginEnds, VerifyCommits, SetupCommits, SetupRepeats, EnableCommits,
         DisableCommits, PasswordCommits, DeleteCommits, DeleteBlocked, user
<1>10. Revokes => UNCHANGED <<asked, app, kept, invited>> BY DEF Revokes, user
<1> QED BY <1>3, <1>4, <1>5, <1>6, <1>7, <1>8, <1>9, <1>10 DEF AccountNext

LEMMA RacedTyped ==
  ASSUME AccountInv, AccountNext
  PROVE  raced' \subseteq Code
<1>1. AccountTypeOK /\ raced \subseteq Code BY DEF AccountInv, AccountTypeOK
<1>2. ASSUME NEW r \in Asking, Finds(r) PROVE raced' \subseteq Code
  <2>1. ask[r].code \in Code BY <1>1, Fields DEF AccountTypeOK
  <2> QED BY <1>1, <1>2, <2>1 DEF Finds
<1>3. \A r \in Asking : SetupCommits(r) \/ DisableCommits(r) => raced' = raced
  BY DEF SetupCommits, DisableCommits, uses
<1>4. \A c : Mark(c) => raced' = raced BY DEF Mark
<1> QED BY Filing, <1>1, <1>2, <1>3, <1>4

LEMMA AccountTypesKept ==
  ASSUME AccountInv, AccountNext
  PROVE  AccountTypeOK'
<1>1. AccountTypeOK BY DEF AccountInv
<1>2. ask' \in [Asking -> Asks] BY <1>1, Courses
<1>3. view' \in [Pages -> View] BY ShownKept
<1>4. row' \in Row /\ meant' \in Row /\ crossed' \in BOOLEAN BY RowsTyped
<1>5. made' \in Nat /\ issued' \in Nat BY NumbersTyped
<1>6. asked' \in Nat /\ app' \subseteq Nat /\ kept' \subseteq Code /\ invited' \in BOOLEAN BY UsersTyped
<1>7. raced' \subseteq Code BY RacedTyped
<1>8. /\ unused' \subseteq Code /\ used' \subseteq Code /\ spent' \subseteq Code
      /\ twice' \subseteq Code
  BY <1>7, OnceKept DEF Once, Made
<1>9. devices' \subseteq Nat /\ gone' \subseteq Nat
  <2>1. devices' \cup gone' \subseteq 1 .. issued' BY DevsKept DEF Devs
  <2>2. 1 .. issued' \subseteq Nat BY <1>5
  <2> QED BY <2>1, <2>2
<1> QED BY <1>2, <1>3, <1>4, <1>5, <1>6, <1>7, <1>8, <1>9 DEF AccountTypeOK

-----------------------------------------------------------------------------
(* Accounts: the theorems                                                   *)

\* The inductive invariant: AccountInit has it and every step keeps it.
THEOREM AccountInvariant == AccountSpec => []AccountInv
<1>1. AccountInit => AccountInv
  <2> SUFFICES ASSUME AccountInit PROVE AccountInv OBVIOUS
  <2>1. row \in Row /\ row.there /\ ~row.enabled /\ row.secret = 0
    BY DEF AccountInit, NoRow, Row
  <2>2. /\ unused = {} /\ used = {} /\ devices = {} /\ made = 0 /\ issued = 0 /\ asked = 0
        /\ ask = [r \in Asking |-> NoAsk] /\ view = [p \in Pages |-> NewView(FALSE)]
        /\ app = {} /\ kept = {} /\ invited = FALSE /\ meant = row /\ crossed = FALSE
        /\ spent = {} /\ twice = {} /\ raced = {} /\ gone = {}
    BY DEF AccountInit
  <2>3. AccountTypeOK BY <2>1, <2>2, Blank DEF AccountTypeOK
  <2>4. Held BY <2>1, <2>2 DEF Held, Sound, NoAsk, NoRow
  <2>5. Once BY <2>2 DEF Once, Marks, Made, NoAsk
  <2>6. Stay BY <2>2 DEF Stay, Agrees, Writes, NoAsk
  <2>7. Devs BY <2>2 DEF Devs
  <2>8. Shown BY <2>1, <2>2 DEF Shown, Kept, Honest, NewView
  <2>9. Gone BY <2>1 DEF Gone
  <2> QED BY <2>3, <2>4, <2>5, <2>6, <2>7, <2>8, <2>9 DEF AccountInv
<1>2. AccountInv /\ [AccountNext]_accountVars => AccountInv'
  <2> SUFFICES ASSUME AccountInv, [AccountNext]_accountVars PROVE AccountInv' OBVIOUS
  <2>1. CASE AccountNext
    BY <2>1, AccountTypesKept, HeldKept, OnceKept, StayKept, DevsKept, ShownKept, GoneKept DEF AccountInv
  <2>2. CASE UNCHANGED accountVars
    BY <2>2 DEF AccountInv, AccountTypeOK, Held, Sound, Once, Marks, Made, Stay, Agrees, Writes, Devs, Shown,
                Kept, Honest, Gone, Alone, accountVars, tables, user, wanted, uses
  <2> QED BY <2>1, <2>2
<1> QED BY <1>1, <1>2, PTL DEF AccountSpec

\* The variables keep their types.
THEOREM AccountTypeCorrect == AccountSpec => []AccountTypeOK
<1>1. AccountInv => AccountTypeOK BY DEF AccountInv
<1> QED BY <1>1, AccountInvariant, PTL

\* Whatever overlaps, an account with MFA on has a secret that is in its user's
\* authenticator.
THEOREM NobodyIsLockedOut == AccountSpec => []EnabledSecretsAreHeld
<1>1. AccountInv => EnabledSecretsAreHeld BY DEF AccountInv, Held, EnabledSecretsAreHeld
<1> QED BY <1>1, AccountInvariant, PTL

\* A backup code lets in once, but when two requests hold it at a time.
THEOREM CodesAreSpent == AccountSpec => []CodesWorkOnce
<1>1. AccountInv => CodesWorkOnce BY DEF AccountInv, Once, CodesWorkOnce
<1> QED BY <1>1, AccountInvariant, PTL

\* A device that was revoked does not come back.
THEOREM RevocationLasts == AccountSpec => []RevokedStayRevoked
<1>1. AccountInv => RevokedStayRevoked BY DEF AccountInv, Devs, RevokedStayRevoked
<1> QED BY <1>1, AccountInvariant, PTL

\* Only a change that overlaps another one undoes it.
THEOREM ChangesLast == AccountSpec => []ChangesStay
<1>1. AccountInv => ChangesStay BY DEF AccountInv, Stay, Agrees, ChangesStay
<1> QED BY <1>1, AccountInvariant, PTL

\* The codes that a page shows are in the table as long as their secret is the account's.
THEOREM ShownCodesWork == AccountSpec => []ShownCodesAreThere
<1>1. AccountInv => ShownCodesAreThere
  <2> SUFFICES ASSUME AccountInv, ~crossed, NEW p \in Pages, view[p].secret = row.secret
               PROVE  view[p].codes \subseteq unused \cup used
    BY DEF ShownCodesAreThere
  <2>1. Kept /\ Honest(view[p]) BY DEF AccountInv, Shown
  <2> QED BY <2>1 DEF Kept, Honest
<1> QED BY <1>1, AccountInvariant, PTL

\* An account that was deleted leaves no code and no device.
THEOREM DeletionLeavesNothing == AccountSpec => []DeletedLeaveNothing
<1>1. AccountInv => DeletedLeaveNothing BY DEF AccountInv, Gone, DeletedLeaveNothing
<1> QED BY <1>1, AccountInvariant, PTL
=============================================================================
