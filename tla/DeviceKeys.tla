------------------------------ MODULE DeviceKeys ------------------------------
(***************************************************************************)
(* The keys of one user's device: the database of the browser              *)
(* (CryptKeyStorage), the page that sets the keys up from a recovery       *)
(* phrase, the guard that sends a tab there, the CryptKeyManager that a    *)
(* tab makes whenever its socket connects, and the user's rows among a     *)
(* hub's device keys.                                                      *)
(*                                                                         *)
(* Every get and every put is a transaction of its own.  Those of a tab    *)
(* run in the order in which it made them, with those of other tabs in     *)
(* between; closing a tab drops the ones that have not run.                *)
(*                                                                         *)
(* Abstracted: a phrase stands for the private key, the public key and the *)
(* device id that are derived from it, each of which can be told from      *)
(* those of any other phrase.  A tab makes one manager at a time, and is   *)
(* not sent elsewhere while it saves a phrase.                             *)
(***************************************************************************)
EXTENDS Naturals, Sequences

CONSTANTS
    Tab,    \* of one browser
    Phrase, \* recovery phrases
    Random, \* bound: ids and key pairs that tabs make on their own
    Old,    \* the key pair (an object, no JWKs) and the id of an older version
    None,   \* undefined
    MaxTurns \* bound: set-ups and managers begun, and failures

ASSUME PhraseAssumption ==
    /\ Phrase \cap Random = {}
    /\ Old \notin Phrase \cup Random
    /\ None \notin Phrase \cup Random \cup {Old}
ASSUME TurnsAssumption == MaxTurns \in Nat

VARIABLES
    db,      \* the store "meta"
    page,    \* each tab: the route it is at, and what the guard has found
    save,    \* each tab: the transactions of its last set-up
    job,     \* each tab: CryptKeyManager.create
    manager, \* each tab: the manager in use
    rows,    \* hub: the public key of each device id
    made,    \* phrases and random values that exist
    turns,   \* history: for the bound
    clean, misled \* history, see below
store == <<db, made, turns>>
deviceVars == <<store, page, save, job, manager, rows, clean, misled>>

\* The histories give the properties their words; no action reads them.
\*   clean    the database is as it was at first, or as a set-up made it that
\*            ran to its end with nobody else writing; and nobody has written since
\*   misled   ids that were registered with what was read from another database
\*   calm     of a set-up or a manager: so it is going, or so it was made

Value == Phrase \cup Random \cup {Old, None}
Entry == {"private", "public", "spki", "legacy", "id"}

\* The order in which initFromDerived makes its transactions, and what they put.
Order == <<"private", "public", "spki", "legacy", "id">>
Looked == <<"private", "public", "legacy">>
Content(v, n) == IF Order[n] = "legacy" THEN None ELSE v

NoPage == [at |-> "closed", seen |-> {}, next |-> 1]
NoSave == [phrase |-> None, next |-> 6, calm |-> FALSE]
NoJob == [at |-> "none", id |-> None, private |-> None, public |-> None, spki |-> None,
          next |-> 1, heeded |-> FALSE, calm |-> FALSE]
NoManager == [id |-> None, private |-> None, public |-> None, spki |-> None, calm |-> FALSE]

Page == [at: {"closed", "check", "keys", "saving", "app"}, seen: SUBSET Entry, next: 1..4]
Save == [phrase: Phrase \cup {None}, next: 1..6, calm: BOOLEAN]
Creation == [at: {"none", "id", "newid", "load", "legacy", "store", "spoiled", "register"},
        id: Value, private: Value, public: Value, spki: Value,
        next: 1..5, heeded: BOOLEAN, calm: BOOLEAN]
Manager == [id: Value, private: Value, public: Value, spki: Value, calm: BOOLEAN]

DevicesTypeOK ==
    /\ db \in [Entry -> Value] /\ made \subseteq Value /\ turns \in 0..MaxTurns
    /\ page \in [Tab -> Page] /\ save \in [Tab -> Save]
    /\ job \in [Tab -> Creation] /\ manager \in [Tab -> Manager]
    /\ rows \in [Value -> Value]
    /\ clean \in BOOLEAN /\ misled \subseteq Value

Pending(t) == save[t].next < 6
Kept(e) == db[e] # None
Turn == turns < MaxTurns /\ turns' = turns + 1

-----------------------------------------------------------------------------
(* The guard of the routes                                                 *)

At(route) == [NoPage EXCEPT !.at = route]

Opens(t) ==
    /\ page[t].at \in {"closed", "keys"}
    /\ page' = [page EXCEPT ![t] = At("check")]
    /\ UNCHANGED <<store, save, job, manager, rows, clean, misled>>

\* By its address; the app is left, and a manager being made is not heeded any more.
OpensKeys(t) ==
    /\ page[t].at \in {"closed", "app"}
    /\ page' = [page EXCEPT ![t] = At("keys")]
    /\ job' = [job EXCEPT ![t].heeded = FALSE]
    /\ manager' = [manager EXCEPT ![t] = NoManager]
    /\ UNCHANGED <<store, save, rows, clean, misled>>

\* hasKeypair, a get at a time.
Looks(t) ==
    LET e == Looked[page[t].next]
    IN  /\ page[t].at = "check" /\ page[t].next < 4
        /\ page' = [page EXCEPT ![t].next = @ + 1, ![t].seen = IF Kept(e) THEN @ \cup {e} ELSE @]
        /\ UNCHANGED <<store, save, job, manager, rows, clean, misled>>

HasKeypair(seen) == {"private", "public"} \subseteq seen \/ "legacy" \in seen

Decides(t) ==
    /\ page[t].at = "check" /\ page[t].next = 4
    /\ page' = [page EXCEPT ![t] = At(IF HasKeypair(page[t].seen) THEN "app" ELSE "keys")]
    /\ UNCHANGED <<store, save, job, manager, rows, clean, misled>>

\* The database cannot be read.
LookFails(t) ==
    /\ page[t].at = "check"
    /\ Turn
    /\ page' = [page EXCEPT ![t] = At("keys")]
    /\ UNCHANGED <<db, made, save, job, manager, rows, clean, misled>>

Closes(t) ==
    /\ page[t].at # "closed"
    /\ page' = [page EXCEPT ![t] = NoPage]
    /\ save' = [save EXCEPT ![t] = NoSave]
    /\ job' = [job EXCEPT ![t] = NoJob]
    /\ manager' = [manager EXCEPT ![t] = NoManager]
    /\ UNCHANGED <<store, rows, clean, misled>>

-----------------------------------------------------------------------------
(* The set-up                                                              *)

\* persistIdentityAndRedirect derives the keys and makes the transactions.  Those of an
\* earlier try that failed run before.
Saves(t, p) ==
    /\ page[t].at = "keys" /\ ~Pending(t)
    /\ Turn
    /\ page' = [page EXCEPT ![t].at = "saving"]
    /\ save' = [o \in Tab |->
                  IF o = t
                  THEN [phrase |-> p, next |-> 1, calm |-> \A q \in Tab \ {t} : ~Pending(q)]
                  ELSE [save[o] EXCEPT !.calm = FALSE]]
    /\ job' = [o \in Tab |-> [job[o] EXCEPT !.calm = FALSE]]
    /\ made' = made \cup {p}
    /\ clean' = FALSE
    /\ UNCHANGED <<db, manager, rows, misled>>

\* The phrase that the page has drawn.
Creates(t) == \E p \in Phrase \ made : Saves(t, p)

\* One that the user has noted, here or in another browser.
Imports(t) == \E p \in Phrase : Saves(t, p)

\* Mutant: a device keeps the id it has.
PutsNoNewId(t) ==
    LET n == save[t].next
    IN  /\ Pending(t)
        /\ db' = [db EXCEPT ![Order[n]] = IF n = 5 /\ @ # None THEN @ ELSE Content(save[t].phrase, n)]
        /\ save' = [save EXCEPT ![t].next = n + 1]
        /\ UNCHANGED <<made, turns, page, job, manager, rows, clean, misled>>

\* Mutant: the pair of the older version stays.
PutsBesideLegacy(t) ==
    LET n == save[t].next
    IN  /\ Pending(t)
        /\ db' = [db EXCEPT ![Order[n]] = IF n = 4 THEN @ ELSE Content(save[t].phrase, n)]
        /\ save' = [save EXCEPT ![t].next = n + 1]
        /\ UNCHANGED <<made, turns, page, job, manager, rows, clean, misled>>

Puts(t) ==
    LET n == save[t].next
    IN  /\ Pending(t)
        /\ db' = [db EXCEPT ![Order[n]] = Content(save[t].phrase, n)]
        /\ save' = [save EXCEPT ![t].next = n + 1]
        /\ UNCHANGED <<made, turns, page, job, manager, rows, clean, misled>>

\* The page shows the error.  The other transactions run.
PutFails(t) ==
    /\ Pending(t)
    /\ Turn
    /\ save' = [save EXCEPT ![t].next = @ + 1, ![t].calm = FALSE]
    /\ page' = [page EXCEPT ![t].at = IF @ = "saving" THEN "keys" ELSE @]
    /\ UNCHANGED <<db, made, job, manager, rows, clean, misled>>

\* On to the hubs, and so to the guard.
Saved(t) ==
    /\ page[t].at = "saving" /\ ~Pending(t)
    /\ page' = [page EXCEPT ![t] = At("check")]
    /\ clean' = (clean \/ save[t].calm)
    /\ save' = [save EXCEPT ![t] = NoSave]
    /\ UNCHANGED <<store, job, manager, rows, misled>>

-----------------------------------------------------------------------------
(* The manager                                                             *)

\* The socket connects, for the first time or again.
Connects(t) ==
    /\ page[t].at = "app" /\ job[t].at = "none"
    /\ Turn
    /\ job' = [job EXCEPT ![t] = [NoJob EXCEPT !.at = "id", !.heeded = TRUE, !.calm = clean]]
    /\ UNCHANGED <<db, made, page, save, manager, rows, clean, misled>>

GetsId(t) ==
    /\ job[t].at = "id"
    /\ job' = [job EXCEPT ![t].id = db["id"], ![t].at = IF Kept("id") THEN "load" ELSE "newid"]
    /\ UNCHANGED <<store, page, save, manager, rows, clean, misled>>

\* What a manager writes ends the calm of the others, unless it has its own.
Writes(t, new) ==
    IF job[t].calm
    THEN job' = [job EXCEPT ![t] = new] /\ UNCHANGED <<save, clean>>
    ELSE /\ job' = [o \in Tab |-> [IF o = t THEN new ELSE job[o] EXCEPT !.calm = FALSE]]
         /\ save' = [o \in Tab |-> [save[o] EXCEPT !.calm = FALSE]]
         /\ clean' = FALSE

\* getOrCreateDeviceId makes one up.  Another tab may have done so meanwhile.
PutsId(t) ==
    /\ job[t].at = "newid"
    /\ \E r \in Random \ made :
           /\ db' = [db EXCEPT !["id"] = r]
           /\ made' = made \cup {r}
           /\ Writes(t, [job[t] EXCEPT !.id = r, !.at = "load"])
    /\ UNCHANGED <<turns, page, manager, rows, misled>>

\* loadStoredKeyMaterial, a get at a time.
Loads(t) ==
    /\ job[t].at = "load" /\ job[t].next < 4
    /\ LET n == job[t].next
           r == [job[t] EXCEPT !.next = n + 1]
       IN  job' = [job EXCEPT ![t] =
                     CASE n = 1 -> [r EXCEPT !.private = db["private"]]
                       [] n = 2 -> [r EXCEPT !.public = db["public"]]
                       [] n = 3 -> [r EXCEPT !.spki = db["spki"]]]
    /\ UNCHANGED <<store, page, save, manager, rows, clean, misled>>

Loaded(t) ==
    /\ job[t].at = "load" /\ job[t].next = 4
    /\ job' = [job EXCEPT ![t].at = IF None \in {job[t].private, job[t].public, job[t].spki}
                                    THEN "legacy" ELSE "register"]
    /\ UNCHANGED <<store, page, save, manager, rows, clean, misled>>

WithPair(r, k) == [r EXCEPT !.private = k, !.public = k, !.spki = k]

\* The older version's pair will do.
TakesLegacy(t) ==
    /\ job[t].at = "legacy" /\ Kept("legacy")
    /\ job' = [job EXCEPT ![t] = [WithPair(@, db["legacy"]) EXCEPT !.at = "register"]]
    /\ UNCHANGED <<store, page, save, manager, rows, clean, misled>>

\* Without one the tab makes a pair of its own.
Generates(t) ==
    /\ job[t].at = "legacy" /\ ~Kept("legacy")
    /\ \E r \in Random \ made :
           /\ job' = [job EXCEPT ![t] = [WithPair(@, r) EXCEPT !.at = "store", !.next = 1]]
           /\ made' = made \cup {r}
    /\ UNCHANGED <<db, turns, page, save, manager, rows, clean, misled>>

\* storeKeyMaterial: all but the id.  A put that fails fails the call, not the others.
Stores(t) ==
    LET n == job[t].next
        r == [job[t] EXCEPT !.next = n + 1]
    IN  /\ job[t].at \in {"store", "spoiled"} /\ n < 5
        /\ \/ /\ db' = [db EXCEPT ![Order[n]] = Content(job[t].private, n)]
              /\ Writes(t, r)
              /\ UNCHANGED turns
           \/ Writes(t, [r EXCEPT !.at = "spoiled"]) /\ Turn /\ UNCHANGED db
        /\ UNCHANGED <<made, page, manager, rows, misled>>

Stored(t) ==
    /\ job[t].at \in {"store", "spoiled"} /\ job[t].next = 5
    /\ job' = [job EXCEPT ![t] = IF @.at = "store" THEN [@ EXCEPT !.at = "register"] ELSE NoJob]
    /\ UNCHANGED <<store, page, save, manager, rows, clean, misled>>

\* The list of hubs, a get or a put fails: there is no manager.
JobFails(t) ==
    /\ job[t].at \in {"id", "newid", "load", "legacy"}
    /\ Turn
    /\ job' = [job EXCEPT ![t] = NoJob]
    /\ UNCHANGED <<db, made, page, save, manager, rows, clean, misled>>

\* The upsert of the hub service.
Row(id, key, calm) ==
    /\ rows' = [rows EXCEPT ![id] = key]
    /\ misled' = IF calm THEN misled ELSE misled \cup {id}

ManagerOf(r) ==
    [id |-> r.id, private |-> r.private, public |-> r.public, spki |-> r.spki, calm |-> r.calm]

\* The hub is told, which may fail, and the manager put to use, unless the tab has left the app.
Registers(t) ==
    /\ job[t].at = "register"
    /\ Row(job[t].id, job[t].spki, job[t].calm) \/ UNCHANGED <<rows, misled>>
    /\ manager' = IF job[t].heeded THEN [manager EXCEPT ![t] = ManagerOf(job[t])] ELSE manager
    /\ job' = [job EXCEPT ![t] = NoJob]
    /\ UNCHANGED <<store, page, save, clean>>

\* Mutant: under the id that is stored now.
RegistersStoredId(t) ==
    /\ manager[t] # NoManager
    /\ Row(db["id"], manager[t].spki, manager[t].calm)
    /\ UNCHANGED <<store, page, save, job, manager, clean>>

\* The user redeems an invitation to the hub, with a manager made long ago perhaps.
RegistersWithHub(t) ==
    /\ manager[t] # NoManager
    /\ Row(manager[t].id, manager[t].spki, manager[t].calm)
    /\ UNCHANGED <<store, page, save, job, manager, clean>>

-----------------------------------------------------------------------------
DevicesInit ==
    /\ \E k, i \in {None, Old} :
           db = [e \in Entry |-> CASE e = "legacy" -> k [] e = "id" -> i [] OTHER -> None]
    /\ made = {}
    /\ page = [t \in Tab |-> NoPage]
    /\ save = [t \in Tab |-> NoSave]
    /\ job = [t \in Tab |-> NoJob]
    /\ manager = [t \in Tab |-> NoManager]
    /\ rows = [i \in Value |-> None]
    /\ clean = TRUE /\ misled = {} /\ turns = 0

Guards(t) == Opens(t) \/ OpensKeys(t) \/ Looks(t) \/ Decides(t) \/ LookFails(t) \/ Closes(t)
SetsUp(t) == Creates(t) \/ Imports(t) \/ Puts(t) \/ PutFails(t) \/ Saved(t)
Manages(t) ==
    \/ Connects(t) \/ GetsId(t) \/ PutsId(t) \/ Loads(t) \/ Loaded(t) \/ TakesLegacy(t)
    \/ Generates(t) \/ Stores(t) \/ Stored(t) \/ JobFails(t) \/ Registers(t) \/ RegistersWithHub(t)

DevicesNext == \E t \in Tab : Guards(t) \/ SetsUp(t) \/ Manages(t)

DevicesSpec == DevicesInit /\ [][DevicesNext]_deviceVars

-----------------------------------------------------------------------------
\* The store has nothing that was derived from a phrase, or all that was from one.
Untouched == db["private"] = None /\ db["public"] = None /\ db["spki"] = None
KeepsAllOf(p) == \A n \in 1..5 : db[Order[n]] = Content(p, n)

\* A set-up that runs to its end with no other tab writing leaves one phrase's
\* keys and id in the store, whatever tabs that were closed in the middle of
\* theirs have left there.
SetupsMend == clean => Untouched \/ \E p \in Phrase : KeepsAllOf(p)

\* The private key, the public key and the id of a manager belong together if no
\* set-up ran as they were read, one at a time, from a clean store.
ManagersAreWhole ==
    \A t \in Tab : manager[t].calm =>
        /\ manager[t].private = manager[t].spki /\ manager[t].public = manager[t].spki
        /\ manager[t].id \in Phrase \/ manager[t].spki \in Phrase => manager[t].id = manager[t].spki

\* A tab makes a key pair of its own only where a set-up was cut short, failed or
\* was crossed: from a clean store the guard lets no tab through without keys.
OwnKeysOnlyAfterTrouble ==
    \A t \in Tab : job[t].at \in {"store", "spoiled"} => ~job[t].calm

\* Under the id of a phrase the hub has the public key of that phrase, to which
\* members seal channel keys, also from tabs that go on with an earlier phrase;
\* unless a manager that is not calm has registered the id.
RowsFitTheirDevices ==
    \A p \in Phrase \ misled : rows[p] \in {None, p}

=============================================================================
