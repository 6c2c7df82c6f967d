------------------------------- MODULE MCAuth -------------------------------
(* AuthSessions and Accounts for TLC, in two scenes: a tab keeps its session *)
(* with the auth service; pages and logins change an account.  The fairness  *)
(* is that of the tab's requests.  In the scene "account" the tab stands     *)
(* still without a request under way, so that it asks for nothing there.     *)
EXTENDS AuthSessions, Accounts

VARIABLE scene
MCvars == <<vars, accountVars, scene>>

MCInit ==
    /\ scene \in {"tab", "account"} /\ Init /\ AccountInit
    /\ scene = "account" => ~ui.persisted /\ ~srv.mfa

MCNext ==
    /\ UNCHANGED scene
    /\ \/ scene = "tab" /\ Next /\ UNCHANGED accountVars
       \/ scene = "account" /\ AccountNext /\ UNCHANGED vars

MCSpec == MCInit /\ [][MCNext]_MCvars /\ Fairness
=============================================================================
