------------------------------ MODULE Accounts ------------------------------
(***************************************************************************)
(* One account: its row, backup codes and trusted devices in the tables of  *)
(* the auth service, the requests that read and change them, and the MFA    *)
(* dialogs of the profile page.  Most handlers are one transaction, READ    *)
(* COMMITTED and without versions, so that what a handler has read may be   *)
(* old when it writes; a save writes the whole row.  The login is no        *)
(* transaction, and each of its statements stands alone.                    *)
(* Secrets, devices and passwords are numbered as they come; <<s, 0>> is an *)
(* authenticator's code for the secret s, <<s, n>> a backup code made with  *)
(* it.  Everybody who asks has the password and a valid access token.       *)
(***************************************************************************)
EXTENDS Integers, FiniteSets

CONSTANTS Pages,     \* browser tabs with the profile page
          Asking,    \* requests that can be in flight
          PerSetup,  \* backup codes made at a time
          MaxAsks    \* bound: requests ever sent

ASSUME AccountAssumption == PerSetup \in Nat /\ MaxAsks \in Nat

VARIABLES
  row,               \* the user's row
  unused, used,      \* the rows of its backup codes
  devices,           \* the rows of its trusted devices
  made, issued,      \* the number of secrets and of device tokens so far
  ask, asked,        \* the requests, and their number so far
  view,              \* each page: user.mfaEnabled and the dialog of the set-up
  app, kept,         \* the secrets in the user's authenticator, the codes they noted
  invited,           \* whether a login was answered with an MFA token
  meant, crossed,    \* what the answered changes say, whether two overlapped
  spent, twice, raced, \* codes that let in, that did so again, that two held at a time
  gone               \* devices that were revoked

tables == <<row, unused, used, devices, made, issued>>
user == <<view, app, kept, invited>>
wanted == <<meant, crossed>>
uses == <<spent, twice, raced>>
accountVars == <<tables, ask, asked, user, wanted, uses, gone>>

Code == Nat \X Nat
NoCode == <<0, 0>>
Totp(s) == <<s, 0>>
CodesOf(s) == {<<s, n>> : n \in 1 .. PerSetup}

NoRow == [there |-> FALSE, password |-> 0, enabled |-> FALSE, secret |-> 0]
Row == [there : BOOLEAN, password : Nat, enabled : BOOLEAN, secret : Nat]

NoPage == "none"
NoAsk == [op |-> "none", at |-> "idle", page |-> NoPage, code |-> NoCode, dev |-> 0,
          row |-> NoRow, fresh |-> FALSE]
Ops == {"none", "setup", "enable", "disable", "password", "delete", "login", "verify"}
Stages == {"idle", "sent", "device", "touch", "codes", "mark", "commit", "ok", "blocked"}
Asks == [op : Ops, at : Stages, page : Pages \cup {NoPage}, code : Code, dev : Nat, row : Row,
         fresh : BOOLEAN]
NewView(on) == [mfa |-> on, open |-> FALSE, step |-> "setup", secret |-> 0, codes |-> {}]
View == [mfa : BOOLEAN, open : BOOLEAN, step : {"setup", "verify", "backup"}, secret : Nat,
         codes : SUBSET Code]

AccountTypeOK ==
  /\ row \in Row /\ unused \subseteq Code /\ used \subseteq Code /\ devices \subseteq Nat
  /\ made \in Nat /\ issued \in Nat /\ ask \in [Asking -> Asks] /\ asked \in Nat
  /\ view \in [Pages -> View] /\ app \subseteq Nat /\ kept \subseteq Code /\ invited \in BOOLEAN
  /\ meant \in Row /\ crossed \in BOOLEAN
  /\ spent \subseteq Code /\ twice \subseteq Code /\ raced \subseteq Code /\ gone \subseteq Nat

-----------------------------------------------------------------------------
(* What pages and other clients of the service send                         *)

Sends(r, op, p, code, dev) ==
  /\ ask[r] = NoAsk /\ asked < MaxAsks
  /\ asked' = asked + 1
  /\ ask' = [ask EXCEPT ![r] = [NoAsk EXCEPT !.op = op, !.at = "sent", !.page = p,
                                             !.code = code, !.dev = dev]]

\* A form of the page is disabled while its request is on its way.
Busy(p, op) == \E r \in Asking : ask[r].page = p /\ ask[r].op = op

OpenSetup(p) ==
  /\ ~view[p].mfa /\ ~view[p].open
  /\ view' = [view EXCEPT ![p].open = TRUE]
  /\ UNCHANGED <<tables, ask, asked, app, kept, invited, wanted, uses, gone>>

\* Closing the dialog forgets what it shows, but not the requests it has sent.
CloseSetup(p) ==
  /\ view[p].open
  /\ view' = [view EXCEPT ![p] = NewView(view[p].mfa)]
  /\ UNCHANGED <<tables, ask, asked, app, kept, invited, wanted, uses, gone>>

AskSetup(p, r) ==
  /\ view[p].open /\ view[p].step = "setup" /\ ~Busy(p, "setup")
  /\ Sends(r, "setup", p, NoCode, 0)
  /\ UNCHANGED <<tables, user, wanted, uses, gone>>

\* The user scans the secret that is shown and enters its code.
AskEnable(p, r) ==
  /\ view[p].open /\ view[p].step = "verify" /\ view[p].secret # 0 /\ ~Busy(p, "enable")
  /\ Sends(r, "enable", p, Totp(view[p].secret), 0)
  /\ app' = app \cup {view[p].secret}
  /\ UNCHANGED <<tables, view, kept, invited, wanted, uses, gone>>

AskDisable(p, r) ==
  /\ view[p].mfa /\ ~Busy(p, "disable")
  /\ \E s \in app : Sends(r, "disable", p, Totp(s), 0)
  /\ UNCHANGED <<tables, user, wanted, uses, gone>>

\* A page that is loaded anew learns whether MFA is on; answers to the old one are lost.
Reloads(p) ==
  /\ row.there
  /\ view' = [view EXCEPT ![p] = NewView(row.enabled)]
  /\ ask' = [r \in Asking |-> IF ask[r].page = p THEN [ask[r] EXCEPT !.page = NoPage] ELSE ask[r]]
  /\ UNCHANGED <<tables, asked, app, kept, invited, wanted, uses, gone>>

\* The codes that the user can enter.  The pages' own forms take six digits only, other
\* clients of the service the backup codes as well.
Entered == {NoCode} \cup {Totp(s) : s \in app} \cup kept

AskChange(r) ==
  /\ \E op \in {"password", "delete"}, code \in Entered : Sends(r, op, NoPage, code, 0)
  /\ UNCHANGED <<tables, user, wanted, uses, gone>>

\* A login goes with the device token the browser has, if any; an MFA token opens verify-mfa.
AskLogin(r) ==
  /\ \/ \E code \in Entered, dev \in 0 .. issued : Sends(r, "login", NoPage, code, dev)
     \/ invited /\ \E code \in Entered \ {NoCode} : Sends(r, "verify", NoPage, code, 0)
  /\ UNCHANGED <<tables, user, wanted, uses, gone>>

\* What a handler refuses changes nothing; nor does a request that is lost, a transaction
\* that is rolled back or an answer that does not arrive undo or add anything.
Fails(r) ==
  /\ ask[r] # NoAsk
  /\ ask' = [ask EXCEPT ![r] = NoAsk]
  /\ UNCHANGED <<tables, asked, user, wanted, uses, gone>>

-----------------------------------------------------------------------------
(* What the handlers read                                                   *)

Fits(r, s) == s # 0 /\ ask[r].code = Totp(s)

\* The handler of "op" goes on with the row as it is now.
Reads(r, op, at) ==
  /\ ask[r].op = op /\ ask[r].at = "sent" /\ row.there
  /\ ask' = [ask EXCEPT ![r].at = at, ![r].row = row]
  /\ UNCHANGED <<tables, asked, user, wanted, uses, gone>>

SetupReads(r) == ~row.enabled /\ Reads(r, "setup", "commit")

\* Mutant: the code is not compared.
EnableReadsAny(r) == row.secret # 0 /\ Reads(r, "enable", "commit")

\* verifyAndEnableMfa: there is a secret, and the code is one for it.
EnableReads(r) == Fits(r, row.secret) /\ Reads(r, "enable", "commit")

\* disableMfa: no backup codes here.
DisableReads(r) == row.enabled /\ Fits(r, row.secret) /\ Reads(r, "disable", "commit")

\* updatePassword and deleteUser ask for a code if MFA is on, and do not look at it otherwise.
ChangeReads(r) ==
  \E op \in {"password", "delete"} :
    \/ /\ ~row.enabled
       /\ ask[r].op = op /\ ask[r].at = "sent" /\ row.there
       /\ ask' = [ask EXCEPT ![r].at = "commit", ![r].row = row, ![r].code = NoCode]
       /\ UNCHANGED <<tables, asked, user, wanted, uses, gone>>
    \/ row.enabled /\ Fits(r, row.secret) /\ Reads(r, op, "commit")
    \/ row.enabled /\ ~Fits(r, row.secret) /\ ask[r].code # NoCode /\ Reads(r, op, "codes")

\* verifyMfa asks for the code of the secret there is, whether MFA is on or not.
VerifyReads(r) ==
  \/ Fits(r, row.secret) /\ Reads(r, "verify", "commit")
  \/ row.secret # 0 /\ ~Fits(r, row.secret) /\ Reads(r, "verify", "codes")

\* login: without MFA the session is given at once, which changes nothing here.
LoginReads(r) == row.enabled /\ Reads(r, "login", "device")

\* The trusted device, if the token is there, its fingerprint right and its time not over;
\* else the code; without one the answer is an MFA token.
LoginChecks(r) ==
  /\ ask[r].at = "device"
  /\ \/ /\ ask[r].dev \in devices
        /\ ask' = [ask EXCEPT ![r].at = "touch"]
        /\ UNCHANGED invited
     \/ /\ ask[r].code = NoCode
        /\ ask' = [ask EXCEPT ![r] = NoAsk]
        /\ invited' = TRUE
     \/ /\ ask[r].code # NoCode
        /\ ask' = [ask EXCEPT ![r].at = IF Fits(r, ask[r].row.secret) THEN "commit" ELSE "codes"]
        /\ UNCHANGED invited
  /\ UNCHANGED <<tables, asked, view, app, kept, wanted, uses, gone>>

\* Mutant: a save inserts what is not there any more.
TouchesInserts(r) ==
  /\ ask[r].at = "touch"
  /\ devices' = devices \cup {ask[r].dev}
  /\ ask' = [ask EXCEPT ![r] = NoAsk]
  /\ UNCHANGED <<row, unused, used, made, issued, asked, user, wanted, uses, gone>>

\* isDeviceTrusted saves the time of use and the session is given.  Hibernate refuses to
\* save a row that was deleted meanwhile.
Touches(r) ==
  /\ ask[r].at = "touch" /\ ask[r].dev \in devices
  /\ ask' = [ask EXCEPT ![r] = NoAsk]
  /\ UNCHANGED <<tables, asked, user, wanted, uses, gone>>

\* Requests that have found a backup code unused and not yet answered.
Holds(r, c) == ask[r].at \in {"mark", "commit"} /\ ask[r].code = c

\* Mutant: used codes are found as well.
FindsAny(r) ==
  LET c == ask[r].code IN
  /\ ask[r].at = "codes" /\ c \in unused \cup used
  /\ ask' = [ask EXCEPT ![r].at = IF ask[r].op = "login" THEN "mark" ELSE "commit"]
  /\ raced' = IF \E o \in Asking \ {r} : Holds(o, c) THEN raced \cup {c} ELSE raced
  /\ UNCHANGED <<tables, asked, user, wanted, spent, twice, gone>>

\* verifyAndUseBackupCode finds the code among the unused ones.
Finds(r) ==
  LET c == ask[r].code IN
  /\ ask[r].at = "codes" /\ c \in unused
  /\ ask' = [ask EXCEPT ![r].at = IF ask[r].op = "login" THEN "mark" ELSE "commit"]
  /\ raced' = IF \E o \in Asking \ {r} : Holds(o, c) THEN raced \cup {c} ELSE raced
  /\ UNCHANGED <<tables, asked, user, wanted, spent, twice, gone>>

-----------------------------------------------------------------------------
(* What they write                                                          *)

\* The code is marked as used, if its row is there still.
Mark(c) ==
  /\ c \in unused \cup used
  /\ unused' = unused \ {c} /\ used' = used \cup {c}
  /\ twice' = twice \cup (spent \cap {c}) /\ spent' = spent \cup {c}
  /\ UNCHANGED raced

\* A transaction marks the backup code it has found when it commits.
MarkFound(r) ==
  \/ ask[r].code[2] # 0 /\ Mark(ask[r].code)
  \/ ask[r].code[2] = 0 /\ UNCHANGED <<unused, used, uses>>

\* A login marks it before it goes on.
LoginMarks(r) ==
  /\ ask[r].at = "mark" /\ Mark(ask[r].code)
  /\ ask' = [ask EXCEPT ![r].at = "commit"]
  /\ UNCHANGED <<row, devices, made, issued, asked, user, wanted, gone>>

Commits(r, op) == ask[r].op = op /\ ask[r].at = "commit" /\ row.there

\* The session is given, and the device trusted if that was asked for.
Trusts ==
  \/ issued' = issued + 1 /\ devices' = devices \cup {issued'}
  \/ UNCHANGED <<issued, devices>>

\* Mutant: the user is saved with the time of the login.
LoginEndsUser(r) ==
  /\ Commits(r, "login") /\ Trusts
  /\ row' = ask[r].row
  /\ ask' = [ask EXCEPT ![r] = NoAsk]
  /\ UNCHANGED <<unused, used, made, asked, user, wanted, uses, gone>>

LoginEnds(r) ==
  /\ Commits(r, "login") /\ Trusts
  /\ ask' = [ask EXCEPT ![r] = NoAsk]
  /\ UNCHANGED <<row, unused, used, made, asked, user, wanted, uses, gone>>

VerifyCommits(r) ==
  /\ Commits(r, "verify") /\ Trusts /\ MarkFound(r)
  /\ ask' = [ask EXCEPT ![r] = NoAsk]
  /\ UNCHANGED <<row, made, asked, user, wanted, gone>>

\* The request is going to write the row it has read, with a change.
Writes(r) ==
  /\ ask[r].at \in {"codes", "commit"}
  /\ \/ ask[r].op \in {"disable", "password"}
     \/ ask[r].op = "setup" /\ ask[r].row.secret = 0
     \/ ask[r].op = "enable" /\ ~ask[r].row.enabled

\* It writes it, each column as it was read but for the change.
WriteRow(r, new) ==
  /\ row' = new
  /\ crossed' = (crossed \/ \E o \in Asking \ {r} : Writes(o))

\* A handler deletes the backup codes it finds: all of them, or those of a set-up that was
\* committed since it read the row are there too late for it and stay.
Late(r) == IF row.secret # ask[r].row.secret THEN {{}, unused \cup used} ELSE {{}}
Replaces(r, codes) ==
  \E late \in Late(r) : unused' = codes \cup (unused \cap late) /\ used' = used \cap late

\* setupMfa makes a secret and its codes, and answers with both,
SetupCommits(r) ==
  LET s == made + 1 IN
  /\ Commits(r, "setup") /\ ask[r].row.secret = 0
  /\ made' = s
  /\ WriteRow(r, [ask[r].row EXCEPT !.secret = s])
  /\ Replaces(r, CodesOf(s))
  /\ meant' = [meant EXCEPT !.secret = s]
  /\ ask' = [ask EXCEPT ![r].at = "ok", ![r].row.secret = s, ![r].fresh = TRUE]
  /\ UNCHANGED <<devices, issued, asked, user, uses, gone>>

\* or answers with the secret that is there, without codes.
SetupRepeats(r) ==
  /\ ask[r].op = "setup" /\ ask[r].at = "commit" /\ ask[r].row.secret # 0
  /\ ask' = [ask EXCEPT ![r].at = "ok"]
  /\ UNCHANGED <<tables, asked, user, wanted, uses, gone>>

\* verifyAndEnableMfa; a row that has not changed is not written.
EnableCommits(r) ==
  /\ ask[r].op = "enable" /\ ask[r].at = "commit"
  /\ \/ /\ row.there /\ ~ask[r].row.enabled
        /\ WriteRow(r, [ask[r].row EXCEPT !.enabled = TRUE])
        /\ meant' = [meant EXCEPT !.enabled = TRUE]
     \/ ask[r].row.enabled /\ UNCHANGED <<row, wanted>>
  /\ ask' = [ask EXCEPT ![r].at = "ok"]
  /\ UNCHANGED <<unused, used, devices, made, issued, asked, user, uses, gone>>

\* disableMfa deletes the secret and the codes; the devices stay.
DisableCommits(r) ==
  /\ Commits(r, "disable")
  /\ WriteRow(r, [ask[r].row EXCEPT !.enabled = FALSE, !.secret = 0])
  /\ Replaces(r, {})
  /\ meant' = [meant EXCEPT !.enabled = FALSE, !.secret = 0]
  /\ ask' = [ask EXCEPT ![r].at = "ok"]
  /\ UNCHANGED <<devices, made, issued, asked, user, uses, gone>>

\* updatePassword; a wrong old password is refused after the code was used up.
PasswordCommits(r) ==
  /\ Commits(r, "password") /\ MarkFound(r)
  /\ \/ /\ meant' = [meant EXCEPT !.password = @ + 1]
        /\ WriteRow(r, [ask[r].row EXCEPT !.password = meant'.password])
     \/ UNCHANGED <<row, wanted>>
  /\ ask' = [ask EXCEPT ![r] = NoAsk]
  /\ UNCHANGED <<devices, made, issued, asked, user, gone>>

\* No row refers to the account.
Alone == unused = {} /\ used = {} /\ devices = {}

\* deleteUser deletes the row, which codes and devices refer to by a foreign key.  (With a
\* backup code there is a row, or the transaction fails for want of it.)
DeleteCommits(r) ==
  /\ Commits(r, "delete") /\ ask[r].code[2] = 0 /\ Alone
  /\ row' = NoRow
  /\ ask' = [ask EXCEPT ![r] = NoAsk]
  /\ UNCHANGED <<unused, used, devices, made, issued, asked, user, wanted, uses, gone>>

\* With any of them there, the transaction is rolled back and answered with an error.
DeleteBlocked(r) ==
  /\ Commits(r, "delete") /\ ~Alone
  /\ ask' = [ask EXCEPT ![r].at = "blocked"]
  /\ UNCHANGED <<tables, asked, user, wanted, uses, gone>>

\* revokeTrustedDevice and revokeAllTrustedDevices.
Revokes ==
  /\ \E D \in {{d} : d \in devices} \cup {devices} :
       /\ D # {}
       /\ devices' = devices \ D
       /\ gone' = gone \cup D
  /\ UNCHANGED <<row, unused, used, made, issued, ask, asked, user, wanted, uses>>

-----------------------------------------------------------------------------
(* What the dialogs make of the answers                                     *)

Heard(r, op, p) == ask[r].op = op /\ ask[r].at = "ok" /\ ask[r].page = p

SetupHeard(p, r) ==
  /\ Heard(r, "setup", p)
  /\ view' = [view EXCEPT ![p].step = "verify", ![p].secret = ask[r].row.secret,
                          ![p].codes = IF ask[r].fresh THEN CodesOf(ask[r].row.secret) ELSE {}]
  /\ ask' = [ask EXCEPT ![r] = NoAsk]
  /\ UNCHANGED <<tables, asked, app, kept, invited, wanted, uses, gone>>

\* The codes are shown, those that the dialog still knows.
EnableHeard(p, r) ==
  /\ Heard(r, "enable", p)
  /\ view' = [view EXCEPT ![p].mfa = TRUE, ![p].step = "backup"]
  /\ kept' = kept \cup view[p].codes
  /\ ask' = [ask EXCEPT ![r] = NoAsk]
  /\ UNCHANGED <<tables, asked, app, invited, wanted, uses, gone>>

DisableHeard(p, r) ==
  /\ Heard(r, "disable", p)
  /\ view' = [view EXCEPT ![p].mfa = FALSE]
  /\ ask' = [ask EXCEPT ![r] = NoAsk]
  /\ UNCHANGED <<tables, asked, app, kept, invited, wanted, uses, gone>>

-----------------------------------------------------------------------------
AccountInit ==
  /\ row = [NoRow EXCEPT !.there = TRUE] /\ unused = {} /\ used = {} /\ devices = {}
  /\ made = 0 /\ issued = 0 /\ ask = [r \in Asking |-> NoAsk] /\ asked = 0
  /\ view = [p \in Pages |-> NewView(FALSE)] /\ app = {} /\ kept = {} /\ invited = FALSE
  /\ meant = row /\ crossed = FALSE /\ spent = {} /\ twice = {} /\ raced = {} /\ gone = {}

PageActs(p) == OpenSetup(p) \/ CloseSetup(p) \/ Reloads(p)
PageAsks(p, r) ==
  \/ AskSetup(p, r) \/ AskEnable(p, r) \/ AskDisable(p, r)
  \/ SetupHeard(p, r) \/ EnableHeard(p, r) \/ DisableHeard(p, r)
Enquires(r) ==
  \/ SetupReads(r) \/ EnableReads(r) \/ DisableReads(r) \/ ChangeReads(r) \/ VerifyReads(r)
  \/ LoginReads(r) \/ LoginChecks(r) \/ Touches(r) \/ Finds(r)
Concludes(r) ==
  \/ LoginMarks(r) \/ LoginEnds(r) \/ VerifyCommits(r) \/ SetupCommits(r) \/ SetupRepeats(r)
  \/ EnableCommits(r) \/ DisableCommits(r) \/ PasswordCommits(r) \/ DeleteCommits(r)
  \/ DeleteBlocked(r)

AccountNext ==
  \/ Revokes
  \/ \E p \in Pages : PageActs(p)
  \/ \E p \in Pages, r \in Asking : PageAsks(p, r)
  \/ \E r \in Asking : AskChange(r) \/ AskLogin(r) \/ Fails(r) \/ Enquires(r) \/ Concludes(r)

AccountSpec == AccountInit /\ [][AccountNext]_accountVars

-----------------------------------------------------------------------------
\* Whatever overlaps, and whatever rows are written from what was read before: an
\* account with MFA on has a secret that its user's authenticator holds, so that
\* nobody is locked out by a set-up, a change of password and a disabling that cross.
EnabledSecretsAreHeld == row.there /\ row.enabled => row.secret \in app

\* A backup code lets in once, but when two requests have found it unused before
\* either has marked it.
CodesWorkOnce == twice \subseteq raced

\* A device that was revoked is not trusted again, although a login that was being
\* served from it saves its row afterwards.
RevokedStayRevoked == devices \cap gone = {}

\* The account is what the answered changes made it, whatever logins, codes and
\* devices were dealt with meanwhile: only a change that overlaps another undoes it.
ChangesStay == row.there /\ ~crossed =>
  /\ row.password = meant.password
  /\ row.enabled = meant.enabled
  /\ row.secret = meant.secret

\* The codes that a page shows are in the table, used or not, as long as the account
\* has the secret they were made with, however often dialogs are closed and opened.
ShownCodesAreThere == ~crossed =>
  \A p \in Pages : view[p].secret = row.secret => view[p].codes \subseteq unused \cup used

\* No code or device is left behind by an account that was deleted, whichever set-up
\* or login was under way.
DeletedLeaveNothing == ~row.there => Alone

\* As the service's test has it: a deletion with a right code deletes the account.
DeletionsDelete == \A r \in Asking : ask[r].at # "blocked"

=============================================================================
