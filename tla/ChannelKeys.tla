----------------------------- MODULE ChannelKeys -----------------------------
(***************************************************************************)
(* Keys of one text channel: CryptKeyManager in each member's client over  *)
(* its IndexedDB, and the hub service's tables of members, device keys,    *)
(* key bundles and rotation flags.                                         *)
(*                                                                         *)
(* A client operation is a job that walks through its awaits; every await  *)
(* (IndexedDB, WebCrypto, an HTTP call) lets other jobs, of the same or of *)
(* another client, run.  A hub request is one step, except the loop over   *)
(* the bundles of a POST, which writes one row per step.  A channel key is *)
(* a model value: two clients that generate "version 1" have two keys.     *)
(* A user has one client and one device.  The look-up and the write of one *)
(* bundle row are one step: that two requests which store the same row at  *)
(* the same time insert it twice is left out.                              *)
(***************************************************************************)
EXTENDS Naturals, FiniteSets

CONSTANTS
    User,
    Owner,      \* the hub's owner, who can neither leave nor be kicked
    Key,        \* bound: the channel keys that can be generated
    NoKey,      \* undefined
    Slot,       \* bound: client operations in flight at once
    MaxVersion, \* bound: the highest key version
    Rotator,    \* bound: users whose client calls rotateChannelKey
    Told,       \* bound: users whose client hears of a new member
    Leaver,     \* bound: users that may be removed from the hub
    MaxMessages \* bound: messages in the channel

ASSUME OwnerAssumption   == Owner \in User
ASSUME NoKeyAssumption   == NoKey \notin Key
ASSUME VersionAssumption == MaxVersion \in Nat \ {0}
ASSUME BoundsAssumption  == /\ Rotator \subseteq User /\ Told \subseteq User
                            /\ Leaver \subseteq User \ {Owner}
                            /\ MaxMessages \in Nat

VARIABLES
    members,  \* hub: user ids of the members
    removing, \* hub: removals between the delete and the flag
    devices,  \* hub: users with a row in member_device_keys
    bundle,   \* hub: the key wrapped for a user's device, per version
    flag,     \* hub: rotation needed
    msgs,     \* hub: messages, with the key they are sealed with
    stored,   \* client: channel keys in IndexedDB, per version
    current,  \* client: current version, 0 when there is none
    jobs,     \* client: encrypt, rotateChannelKey and topUpChannelKey calls
    syncs,    \* client: syncKeyBundles calls
    entitled, reach, abandoned, crossed  \* history, see below

hub     == <<members, removing, devices, bundle, flag, msgs>>
client  == <<stored, current>>
history == <<entitled, reach, abandoned, crossed>>
vars    == <<hub, client, jobs, syncs, history>>

\* The histories give the properties their words; no action reads them.
\*   entitled[k]  users that were members since k was generated, and who did it
\*   reach[k]     devices that the generator of k set out to send it to
\*   abandoned    keys whose first distribution failed or was cut off
\*   crossed      clients that began to write a key while already writing one

Version == 1..MaxVersion
KeyOrNone == Key \cup {NoKey}

\* Where a job stands: it has chosen a version; stored its new key; made it the
\* current version; got the device keys; is posting the bundles; is through; a
\* message is sealed.
Phase == {"mint", "stored", "versioned", "fetched", "posting", "through", "sealed"}
Job  == [user: User, slot: Slot, kind: {"send", "rotate", "topUp"}, at: Phase,
         ver: Version, key: KeyOrNone, list: SUBSET User, allowed: SUBSET User]

\* Where a sync stands: at the head of its loop; it found the key missing; has
\* stored it; has seen a lower current version.
Sync == [user: User, slot: Slot, at: {"loop", "missing", "stored", "lower"},
         ver: 0..MaxVersion, key: KeyOrNone, todo: SUBSET (Version \X Key)]
Message == [sender: User, ver: Version, key: Key]

TypeOK ==
    /\ members   \in SUBSET User /\ Owner \in members
    /\ removing  \in SUBSET User
    /\ devices   \in SUBSET User
    /\ bundle    \in [User -> [Version -> KeyOrNone]]
    /\ flag      \in BOOLEAN
    /\ msgs      \in SUBSET Message
    /\ stored    \in [User -> [Version -> KeyOrNone]]
    /\ current   \in [User -> 0..MaxVersion]
    /\ jobs      \in SUBSET Job
    /\ syncs     \in SUBSET Sync
    /\ entitled  \in [Key -> SUBSET User]
    /\ reach     \in [Key -> SUBSET User]
    /\ abandoned \in SUBSET Key
    /\ crossed   \in SUBSET User

Init ==
    /\ members = {Owner} /\ removing = {} /\ devices = {}
    /\ bundle  = [u \in User |-> [v \in Version |-> NoKey]]
    /\ flag    = FALSE
    /\ msgs    = {}
    /\ stored  = [u \in User |-> [v \in Version |-> NoKey]]
    /\ current = [u \in User |-> 0]
    /\ jobs = {} /\ syncs = {}
    /\ entitled = [k \in Key |-> {}]
    /\ reach    = [k \in Key |-> {}]
    /\ abandoned = {} /\ crossed = {}

-----------------------------------------------------------------------------
(* Membership and device keys, in the hub service                          *)

\* RedeemInvite or InviteMember.
JoinHub(u) ==
    /\ u \notin members
    /\ members'  = members \cup {u}
    /\ entitled' = [k \in Key |-> IF entitled[k] # {} THEN entitled[k] \cup {u} ELSE {}]
    /\ UNCHANGED <<removing, devices, bundle, flag, msgs, client, jobs, syncs,
                   reach, abandoned, crossed>>

\* KickMember or LeaveHub: first the member row, then the flags of the hub's
\* channels.  Device keys and bundles of the user stay.
RemoveMember(u) ==
    /\ u \in members \cap Leaver
    /\ members'  = members \ {u}
    /\ removing' = removing \cup {u}
    /\ UNCHANGED <<devices, bundle, flag, msgs, client, jobs, syncs, history>>

\* markHubChannelsForRotation; a database error leaves the flag as it is.
MarkForRotation(u) ==
    /\ u \in removing
    /\ removing' = removing \ {u}
    /\ flag' \in {flag, TRUE}
    /\ UNCHANGED <<members, devices, bundle, msgs, client, jobs, syncs, history>>

RegisterDeviceKey(u) ==
    /\ u \in members
    /\ u \notin devices
    /\ devices' = devices \cup {u}
    /\ UNCHANGED <<members, removing, bundle, flag, msgs, client, jobs, syncs, history>>

-----------------------------------------------------------------------------
(* Client jobs                                                             *)

FreeSlot(k) == \A j \in jobs \cup syncs : j.slot # k

\* Between reading that a key is missing (or a new one due) and the end of the
\* writes this leads to.
Writing(u) ==
    \/ \E j \in jobs  : j.user = u /\ j.at \in {"mint", "stored"}
    \/ \E y \in syncs : y.user = u /\ y.at # "loop"
Crossing(u) == {x \in {u} : Writing(u)}

NewJob(u, k, kind, at, ver, key) ==
    [user |-> u, slot |-> k, kind |-> kind, at |-> at, ver |-> ver, key |-> key,
     list |-> {}, allowed |-> {}]

\* Replaces job j by what it becomes; drops it.
Becomes(j, next) == jobs' = (jobs \ {j}) \cup {next}
Ends(j) == jobs' = jobs \ {j}

\* encrypt: without a current version it generates version 1, it does not ask
\* the hub for one.
StartSend(u, k) ==
    /\ FreeSlot(k)
    /\ Cardinality(msgs) < MaxMessages
    /\ IF current[u] = 0
       THEN /\ jobs' = jobs \cup {NewJob(u, k, "send", "mint", 1, NoKey)}
            /\ crossed' = crossed \cup Crossing(u)
       ELSE /\ jobs' = jobs \cup {NewJob(u, k, "send", "through", current[u], NoKey)}
            /\ UNCHANGED crossed
    /\ UNCHANGED <<hub, client, syncs, entitled, reach, abandoned>>

\* rotateChannelKey.
StartRotate(u, k) ==
    /\ u \in Rotator
    /\ FreeSlot(k)
    /\ current[u] < MaxVersion
    /\ jobs' = jobs \cup {NewJob(u, k, "rotate", "mint", current[u] + 1, NoKey)}
    /\ crossed' = crossed \cup Crossing(u)
    /\ UNCHANGED <<hub, client, syncs, entitled, reach, abandoned>>

\* topUpChannelKey, on member-joined: the relay drops that event without a userId,
\* which this repository's client leaves out, and passes it on for a client that
\* sends it.
StartTopUp(u, k) ==
    /\ u \in Told
    /\ FreeSlot(k)
    /\ current[u] # 0
    /\ stored[u][current[u]] # NoKey
    /\ jobs' = jobs \cup
         {NewJob(u, k, "topUp", "versioned", current[u], stored[u][current[u]])}
    /\ UNCHANGED <<hub, client, syncs, history>>

\* Mutant: the key is not stored.
ForgetNewKey(j, k) ==
    /\ j.at = "mint"
    /\ entitled[k] = {}
    /\ Becomes(j, [j EXCEPT !.at = "stored", !.key = k])
    /\ entitled' = [entitled EXCEPT ![k] = members \cup {j.user}]
    /\ UNCHANGED <<hub, client, syncs, reach, abandoned, crossed>>

\* generateAesKey and storeChannelKey.
StoreNewKey(j, k) ==
    /\ j.at = "mint"
    /\ entitled[k] = {}
    /\ stored'   = [stored EXCEPT ![j.user][j.ver] = k]
    /\ Becomes(j, [j EXCEPT !.at = "stored", !.key = k])
    /\ entitled' = [entitled EXCEPT ![k] = members \cup {j.user}]
    /\ UNCHANGED <<hub, current, syncs, reach, abandoned, crossed>>

SetNewVersion(j) ==
    /\ j.at = "stored"
    /\ current' = [current EXCEPT ![j.user] = j.ver]
    /\ Becomes(j, [j EXCEPT !.at = "versioned"])
    /\ UNCHANGED <<hub, stored, syncs, history>>

\* The first distribution of a key ends before it is complete.
CutOff(j) == abandoned' = abandoned \cup {x \in {j.key} : j.kind # "topUp" /\ x # NoKey}

\* getDeviceKeys, and for a top-up the bundles "existing": the hub returns the
\* caller's own.  With nobody to send to, the distribution is complete.
Missing(j) ==
    IF j.kind = "topUp" /\ bundle[j.user][j.ver] # NoKey THEN devices \ {j.user} ELSE devices

FetchDevices(j) ==
    /\ j.at = "versioned"
    /\ IF j.user \in members
       THEN /\ Becomes(j, [j EXCEPT !.at = IF Missing(j) = {} THEN "through" ELSE "fetched",
                                    !.list = Missing(j)])
            /\ reach' = IF j.kind = "topUp" THEN reach ELSE [reach EXCEPT ![j.key] = devices]
            /\ UNCHANGED abandoned
       ELSE /\ Ends(j)
            /\ CutOff(j)
            /\ UNCHANGED reach
    /\ UNCHANGED <<hub, client, syncs, entitled, crossed>>

\* PostKeyBundles: the checks before its loop, then one row at a time in the
\* order of the request, until one names a user who is not a member.
PostBundles(j) ==
    /\ j.at = "fetched"
    /\ IF j.user \in members
       THEN Becomes(j, [j EXCEPT !.at = "posting", !.allowed = members]) /\ UNCHANGED abandoned
       ELSE Ends(j) /\ CutOff(j)
    /\ UNCHANGED <<hub, client, syncs, entitled, reach, crossed>>

\* Mutant: recipients are not checked.
StoreAnyBundle(j, r) ==
    /\ j.at = "posting"
    /\ r \in j.list
    /\ bundle' = [bundle EXCEPT ![r][j.ver] = j.key]
    /\ Becomes(j, [j EXCEPT !.list = @ \ {r},
                            !.at = IF j.list = {r} THEN "through" ELSE @])
    /\ UNCHANGED <<members, removing, devices, flag, msgs, client, syncs, history>>

\* Mutant: one row and no more.
StoreOneBundle(j, r) ==
    /\ j.at = "posting"
    /\ r \in j.list \cap j.allowed
    /\ bundle' = [bundle EXCEPT ![r][j.ver] = j.key]
    /\ Becomes(j, [j EXCEPT !.at = "through"])
    /\ UNCHANGED <<members, removing, devices, flag, msgs, client, syncs, history>>

StoreBundle(j, r) ==
    /\ j.at = "posting"
    /\ r \in j.list
    /\ IF r \in j.allowed
       THEN /\ bundle' = [bundle EXCEPT ![r][j.ver] = j.key]
            /\ Becomes(j, [j EXCEPT !.list = @ \ {r},
                                    !.at = IF j.list = {r} THEN "through" ELSE @])
            /\ UNCHANGED abandoned
       ELSE /\ Ends(j)
            /\ CutOff(j)
            /\ UNCHANGED bundle
    /\ UNCHANGED <<members, removing, devices, flag, msgs, client, syncs,
                   entitled, reach, crossed>>

\* encrypt loads the key of the version it chose, then the message is posted.
Seal(j) ==
    /\ j.kind = "send" /\ j.at = "through"
    /\ stored[j.user][j.ver] # NoKey
    /\ Becomes(j, [j EXCEPT !.at = "sealed", !.key = stored[j.user][j.ver]])
    /\ UNCHANGED <<hub, client, syncs, history>>

SendMessage(j) ==
    /\ j.at = "sealed"
    /\ Ends(j)
    /\ msgs' = IF j.user \in members
               THEN msgs \cup {[sender |-> j.user, ver |-> j.ver, key |-> j.key]} ELSE msgs
    /\ UNCHANGED <<members, removing, devices, bundle, flag, client, syncs, history>>

\* clearRotationNeeded deletes the flag whatever set it since.
ClearRotationNeeded(j) ==
    /\ j.kind = "rotate" /\ j.at = "through"
    /\ Ends(j)
    /\ flag' = (flag /\ j.user \notin members)
    /\ UNCHANGED <<members, removing, devices, bundle, msgs, client, syncs, history>>

EndTopUp(j) ==
    /\ j.kind = "topUp" /\ j.at = "through"
    /\ Ends(j)
    /\ UNCHANGED <<hub, client, syncs, history>>

\* A request or a database access fails, or the page is closed.
Abandon(j) ==
    /\ Ends(j)
    /\ IF j.at \in {"stored", "versioned", "fetched", "posting"}
       THEN CutOff(j) ELSE UNCHANGED abandoned
    /\ UNCHANGED <<hub, client, syncs, entitled, reach, crossed>>

-----------------------------------------------------------------------------
(* syncKeyBundles                                                          *)

Continues(y, next) == syncs' = (syncs \ {y}) \cup {next}

\* GetKeyBundles; an outsider gets an error, and nothing follows.
StartSync(u, k) ==
    /\ u \in members
    /\ FreeSlot(k)
    /\ syncs' = syncs \cup
         {[user |-> u, slot |-> k, at |-> "loop", ver |-> 0, key |-> NoKey,
           todo |-> {<<v, bundle[u][v]>> : v \in {w \in Version : bundle[u][w] # NoKey}}]}
    /\ UNCHANGED <<hub, client, jobs, history>>

\* Mutant: keys already stored are fetched again.
SyncAnyway(y, v, k) ==
    /\ y.at = "loop"
    /\ <<v, k>> \in y.todo
    /\ Continues(y, [y EXCEPT !.todo = @ \ {<<v, k>>}, !.at = "missing", !.ver = v, !.key = k])
    /\ crossed' = crossed \cup Crossing(y.user)
    /\ UNCHANGED <<hub, client, jobs, entitled, reach, abandoned>>

SyncCheck(y, v, k) ==
    /\ y.at = "loop"
    /\ <<v, k>> \in y.todo
    /\ IF stored[y.user][v] # NoKey
       THEN /\ Continues(y, [y EXCEPT !.todo = @ \ {<<v, k>>}])
            /\ UNCHANGED crossed
       ELSE /\ Continues(y, [y EXCEPT !.todo = @ \ {<<v, k>>}, !.at = "missing",
                                      !.ver = v, !.key = k])
            /\ crossed' = crossed \cup Crossing(y.user)
    /\ UNCHANGED <<hub, client, jobs, entitled, reach, abandoned>>

SyncStore(y) ==
    /\ y.at = "missing"
    /\ stored' = [stored EXCEPT ![y.user][y.ver] = y.key]
    /\ Continues(y, [y EXCEPT !.at = "stored"])
    /\ UNCHANGED <<hub, current, jobs, history>>

SyncCompare(y) ==
    /\ y.at = "stored"
    /\ Continues(y, [y EXCEPT !.at = IF y.ver > current[y.user] THEN "lower" ELSE "loop"])
    /\ UNCHANGED <<hub, client, jobs, history>>

SyncRaise(y) ==
    /\ y.at = "lower"
    /\ current' = [current EXCEPT ![y.user] = y.ver]
    /\ Continues(y, [y EXCEPT !.at = "loop"])
    /\ UNCHANGED <<hub, stored, jobs, history>>

\* The loop is through, or was cut off as a job is.
EndSync(y) ==
    /\ syncs' = syncs \ {y}
    /\ UNCHANGED <<hub, client, jobs, history>>

-----------------------------------------------------------------------------
UserStep(u) ==
    \/ JoinHub(u)
    \/ RemoveMember(u)
    \/ MarkForRotation(u)
    \/ RegisterDeviceKey(u)
    \/ \E k \in Slot : StartSend(u, k) \/ StartRotate(u, k) \/ StartTopUp(u, k) \/ StartSync(u, k)

JobStep(j) ==
    \/ \E k \in Key : StoreNewKey(j, k)
    \/ SetNewVersion(j)
    \/ FetchDevices(j)
    \/ PostBundles(j)
    \/ \E r \in User : StoreBundle(j, r)
    \/ Seal(j)
    \/ SendMessage(j)
    \/ ClearRotationNeeded(j)
    \/ EndTopUp(j)
    \/ Abandon(j)

SyncStep(y) ==
    \/ \E v \in Version, k \in Key : SyncCheck(y, v, k)
    \/ SyncStore(y)
    \/ SyncCompare(y)
    \/ SyncRaise(y)
    \/ EndSync(y)

Next ==
    \/ \E u \in User : UserStep(u)
    \/ \E j \in jobs : JobStep(j)
    \/ \E y \in syncs : SyncStep(y)

Spec == Init /\ [][Next]_vars

-----------------------------------------------------------------------------
\* A current version has its key: encrypt never meets the "key not found" error,
\* wherever a page was closed or a request failed before.
VersionHasKey ==
    \A u \in User : current[u] # 0 => stored[u][current[u]] # NoKey

\* A key reaches nobody but those who were members at some time since it was
\* generated (and its generator): not through the device keys that removed users
\* leave behind, nor through a member list read before a removal.
KeysOnlyForMembers ==
    \A u \in User, v \in Version :
        \A k \in {stored[u][v], bundle[u][v]} : k # NoKey => u \in entitled[k]

\* A client can read its own messages for good, unless two of its operations
\* overlapped while writing keys.
OwnMessagesReadable ==
    \A m \in msgs : m.sender \in crossed \/ stored[m.sender][m.ver] = m.key

\* Every device that the key was meant for has a bundle of its version.
Distributed(k, v) == \A r \in reach[k] : bundle[r][v] # NoKey

\* A message is sent under a distributed key, unless the distribution failed or
\* is still under way.
SentKeysReachable ==
    \A m \in msgs :
        \/ m.key \in abandoned
        \/ \E j \in jobs : /\ j.key = m.key /\ j.kind # "topUp"
                           /\ j.at \in {"stored", "versioned", "fetched", "posting"}
        \/ Distributed(m.key, m.ver)

=============================================================================
