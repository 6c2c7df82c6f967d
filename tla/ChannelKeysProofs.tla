------------------------- MODULE ChannelKeysProofs -------------------------
(***************************************************************************)
(* What ChannelKeys promises about who holds a key, for any number of       *)
(* users, keys, versions and operations in flight.  The inductive invariant *)
(* follows a key on its way: from the client that generates it through the  *)
(* operation that distributes it, with the member list that was read for    *)
(* it, the bundle rows, and the synchronisation that fetched them.          *)
(* The second part is about DeviceKeys, the key pairs that channel keys are *)
(* sealed to.                                                               *)
(***************************************************************************)
EXTENDS ChannelKeys, DeviceKeys, TLAPS

\* Whoever is a member is entitled to every key there is.
MembersEntitled == \A k \in Key : entitled[k] # {} => members \subseteq entitled[k]

\* An operation has a key its user is entitled to; the recipients it may post to
\* are entitled to it; the version it is about to make current has a key, and so
\* does a message that is sealed.
JobKnows(j) ==
    /\ j.key # NoKey => j.user \in entitled[j.key]
    /\ j.at = "posting" /\ j.key # NoKey => j.allowed \subseteq entitled[j.key]
    /\ j.at = "stored" => stored[j.user][j.ver] # NoKey
    /\ j.at = "sealed" => j.key # NoKey

\* A synchronisation has keys its user is entitled to, and stores one before it
\* makes its version the current one.
SyncKnows(y) ==
    /\ \A p \in y.todo : y.user \in entitled[p[2]]
    /\ y.at # "loop" => y.ver \in Version /\ y.key \in Key /\ y.user \in entitled[y.key]
    /\ y.at \in {"stored", "lower"} => stored[y.user][y.ver] # NoKey

JobsKnow  == \A j \in jobs  : JobKnows(j)
SyncsKnow == \A y \in syncs : SyncKnows(y)
TablesKnow == MembersEntitled /\ VersionHasKey /\ KeysOnlyForMembers

IInv == TypeOK /\ TablesKnow /\ JobsKnow /\ SyncsKnow

-----------------------------------------------------------------------------
(* Operations in flight                                                     *)

\* Entitlements and stored keys are never taken back.
Grows ==
    /\ \A k \in Key : entitled[k] \subseteq entitled'[k]
    /\ \A u \in User, v \in Version : stored[u][v] # NoKey => stored'[u][v] # NoKey

LEMMA JobStays ==
    ASSUME Grows, NEW j \in Job, JobKnows(j)
    PROVE  JobKnows(j)'
<1>1. j.user \in User /\ j.ver \in Version /\ j.key \in Key \cup {NoKey} BY DEF Job, KeyOrNone
<1>2. j.key # NoKey => entitled[j.key] \subseteq entitled'[j.key] BY <1>1 DEF Grows
<1> HIDE DEF Job
<1>3. j.at = "stored" => stored'[j.user][j.ver] # NoKey BY <1>1 DEF Grows, JobKnows
<1> QED BY <1>2, <1>3 DEF JobKnows

LEMMA SyncStays ==
    ASSUME Grows, NEW y \in Sync, SyncKnows(y)
    PROVE  SyncKnows(y)'
<1>1. y.user \in User /\ y.todo \subseteq Version \X Key BY DEF Sync
<1>2. \A p \in y.todo : p[2] \in Key BY <1>1
<1>3. \A p \in y.todo : y.user \in entitled'[p[2]] BY <1>2 DEF Grows, SyncKnows
<1>4. y.at # "loop" => y.ver \in Version /\ y.key \in Key /\ y.user \in entitled'[y.key]
    BY DEF Grows, SyncKnows
<1>5. y.at \in {"stored", "lower"} => stored'[y.user][y.ver] # NoKey
    BY <1>1 DEF Grows, SyncKnows
<1> QED BY <1>3, <1>4, <1>5 DEF SyncKnows

\* It is enough to look at the operations a step adds.
LEMMA WorkKnows ==
    ASSUME IInv, Grows,
           \A j \in jobs'  : j \in jobs  \/ (j \in Job  /\ JobKnows(j)'),
           \A y \in syncs' : y \in syncs \/ (y \in Sync /\ SyncKnows(y)')
    PROVE  jobs' \in SUBSET Job /\ syncs' \in SUBSET Sync /\ JobsKnow' /\ SyncsKnow'
<1>1. jobs \subseteq Job /\ syncs \subseteq Sync BY DEF IInv, TypeOK
<1>2. \A j \in jobs : JobKnows(j)' BY <1>1, JobStays DEF IInv, JobsKnow
<1>3. \A y \in syncs : SyncKnows(y)' BY <1>1, SyncStays DEF IInv, SyncsKnow
<1> HIDE DEF Job, Sync, JobKnows, SyncKnows
<1>4. jobs' \subseteq Job /\ syncs' \subseteq Sync BY <1>1
<1>5. JobsKnow' BY <1>2 DEF JobsKnow
<1>6. SyncsKnow' BY <1>3 DEF SyncsKnow
<1> QED BY <1>4, <1>5, <1>6

LEMMA NothingTaken ==
    ASSUME UNCHANGED <<stored, entitled>>
    PROVE  Grows
BY DEF Grows

\* A step of operations only.
LEMMA OnlyWork ==
    ASSUME IInv, UNCHANGED <<hub, client, entitled>>,
           reach' \in [Key -> SUBSET User], abandoned' \in SUBSET Key, crossed' \in SUBSET User,
           \A j \in jobs'  : j \in jobs  \/ (j \in Job  /\ JobKnows(j)'),
           \A y \in syncs' : y \in syncs \/ (y \in Sync /\ SyncKnows(y)')
    PROVE  IInv'
<1>1. Grows BY NothingTaken DEF client
<1>2. jobs' \in SUBSET Job /\ syncs' \in SUBSET Sync /\ JobsKnow' /\ SyncsKnow'
    BY <1>1, WorkKnows
<1> HIDE DEF Job, Sync, JobsKnow, SyncsKnow, Message
<1>3. TypeOK' BY <1>2 DEF IInv, TypeOK, hub, client
<1>4. TablesKnow'
    BY DEF IInv, TablesKnow, MembersEntitled, VersionHasKey, KeysOnlyForMembers, hub, client
<1> QED BY <1>2, <1>3, <1>4 DEF IInv

\* What is known of a job in flight, and of what it becomes.
LEMMA JobFields ==
    ASSUME IInv, NEW j \in jobs
    PROVE  /\ j \in Job /\ JobKnows(j)
           /\ j.user \in User /\ j.ver \in Version /\ j.key \in Key \cup {NoKey}
           /\ j.list \in SUBSET User /\ j.allowed \in SUBSET User
BY DEF IInv, TypeOK, JobsKnow, Job, KeyOrNone

LEMMA SyncFields ==
    ASSUME IInv, NEW y \in syncs
    PROVE  /\ y \in Sync /\ SyncKnows(y)
           /\ y.user \in User /\ y.ver \in 0 .. MaxVersion /\ y.key \in Key \cup {NoKey}
           /\ y.todo \in SUBSET (Version \X Key)
BY DEF IInv, TypeOK, SyncsKnow, Sync, KeyOrNone

LEMMA CutOffKeys ==
    ASSUME IInv, NEW j \in jobs, CutOff(j)
    PROVE  abandoned' \in SUBSET Key
<1>1. j.key \in Key \cup {NoKey} BY JobFields
<1>2. abandoned \in SUBSET Key BY DEF IInv, TypeOK
<1> QED BY <1>1, <1>2 DEF CutOff

LEMMA CrossingUsers ==
    ASSUME NEW u \in User
    PROVE  Crossing(u) \in SUBSET User
BY DEF Crossing

LEMMA NewJobFields ==
    ASSUME NEW u \in User, NEW k \in Slot, NEW kind \in {"send", "rotate", "topUp"},
           NEW at \in Phase, NEW ver \in Version, NEW key \in KeyOrNone
    PROVE  LET j == NewJob(u, k, kind, at, ver, key)
           IN  /\ j \in Job /\ j.user = u /\ j.at = at /\ j.ver = ver /\ j.key = key
BY DEF NewJob, Job

-----------------------------------------------------------------------------
(* The steps                                                                *)

LEMMA InitInv == Init => IInv
<1> SUFFICES ASSUME Init PROVE IInv OBVIOUS
<1>1. TypeOK
    <2>1. jobs = {} /\ syncs = {} /\ msgs = {} BY DEF Init
    <2>2. bundle \in [User -> [Version -> KeyOrNone]] /\ stored \in [User -> [Version -> KeyOrNone]]
        BY DEF Init, KeyOrNone
    <2>3. current \in [User -> 0 .. MaxVersion] BY VersionAssumption DEF Init
    <2>4. entitled \in [Key -> SUBSET User] /\ reach \in [Key -> SUBSET User] BY DEF Init
    <2>5. flag \in BOOLEAN BY DEF Init
    <2>6. /\ members \in SUBSET User /\ Owner \in members
          /\ removing = {} /\ devices = {} /\ abandoned = {} /\ crossed = {}
        BY OwnerAssumption DEF Init
    <2> QED BY <2>1, <2>2, <2>3, <2>4, <2>5, <2>6 DEF TypeOK
<1>2. JobsKnow /\ SyncsKnow BY DEF Init, JobsKnow, SyncsKnow
<1>3. MembersEntitled BY DEF Init, MembersEntitled
<1>4. VersionHasKey BY DEF Init, VersionHasKey
<1>5. KeysOnlyForMembers BY DEF Init, KeysOnlyForMembers
<1> QED BY <1>1, <1>2, <1>3, <1>4, <1>5 DEF IInv, TablesKnow

\* A new member is entitled to the keys there are.
LEMMA JoinHubKeeps ==
    ASSUME IInv, NEW u \in User, JoinHub(u)
    PROVE  IInv'
<1>1. /\ members' = members \cup {u}
      /\ entitled' = [k \in Key |-> IF entitled[k] # {} THEN entitled[k] \cup {u} ELSE {}]
      /\ UNCHANGED <<removing, devices, bundle, flag, msgs, stored, current, jobs, syncs,
                     reach, abandoned, crossed>>
    BY DEF JoinHub, client
<1>2. entitled \in [Key -> SUBSET User] BY DEF IInv, TypeOK
<1>3. \A k \in Key : entitled'[k] = IF entitled[k] # {} THEN entitled[k] \cup {u} ELSE {}
    BY <1>1
<1>4. entitled' \in [Key -> SUBSET User] BY <1>1, <1>2
<1>5. Grows BY <1>1, <1>3 DEF Grows
<1>6. jobs' \in SUBSET Job /\ syncs' \in SUBSET Sync /\ JobsKnow' /\ SyncsKnow'
    BY <1>1, <1>5, WorkKnows
<1>7. TypeOK' BY <1>1, <1>4, <1>6 DEF IInv, TypeOK
<1>8. MembersEntitled' BY <1>1, <1>3 DEF IInv, TablesKnow, MembersEntitled
<1>9. VersionHasKey' BY <1>1 DEF IInv, TablesKnow, VersionHasKey
<1>10. KeysOnlyForMembers'
    <2>1. \A v \in Version, w \in User :
              stored[w][v] \in Key \cup {NoKey} /\ bundle[w][v] \in Key \cup {NoKey}
        BY DEF IInv, TypeOK, KeyOrNone
    <2> QED BY <1>1, <1>3, <2>1 DEF IInv, TablesKnow, KeysOnlyForMembers
<1> QED BY <1>6, <1>7, <1>8, <1>9, <1>10 DEF IInv, TablesKnow

\* Steps of the hub that leave keys and bundles alone.
LEMMA HubStepKeeps ==
    ASSUME IInv, NEW u \in User, RemoveMember(u) \/ MarkForRotation(u) \/ RegisterDeviceKey(u)
    PROVE  IInv'
<1>1. /\ members' \in SUBSET User /\ Owner \in members' /\ members' \subseteq members
      /\ removing' \in SUBSET User /\ devices' \in SUBSET User /\ flag' \in BOOLEAN
      /\ UNCHANGED <<bundle, msgs, stored, current, jobs, syncs, entitled, reach, abandoned, crossed>>
    <2>1. CASE RemoveMember(u)
        BY <2>1, BoundsAssumption DEF RemoveMember, IInv, TypeOK, client, history
    <2>2. CASE MarkForRotation(u)
        BY <2>2 DEF MarkForRotation, IInv, TypeOK, client, history
    <2>3. CASE RegisterDeviceKey(u)
        BY <2>3 DEF RegisterDeviceKey, IInv, TypeOK, client, history
    <2> QED BY <2>1, <2>2, <2>3
<1>2. Grows BY <1>1, NothingTaken
<1>3. jobs' \in SUBSET Job /\ syncs' \in SUBSET Sync /\ JobsKnow' /\ SyncsKnow'
    BY <1>1, <1>2, WorkKnows
<1>4. TypeOK' BY <1>1, <1>3 DEF IInv, TypeOK
<1>5. TablesKnow'
    BY <1>1 DEF IInv, TablesKnow, MembersEntitled, VersionHasKey, KeysOnlyForMembers
<1> QED BY <1>3, <1>4, <1>5 DEF IInv

\* A history that a step of operations leaves alone keeps its type.
LEMMA Histories ==
    ASSUME IInv
    PROVE  /\ reach \in [Key -> SUBSET User] /\ abandoned \in SUBSET Key /\ crossed \in SUBSET User
           /\ devices \in SUBSET User /\ members \in SUBSET User
           /\ \A u \in User : current[u] \in 0 .. MaxVersion
           /\ \A u \in User, v \in Version : stored[u][v] \in KeyOrNone /\ bundle[u][v] \in KeyOrNone
BY DEF IInv, TypeOK

LEMMA StartsKeep ==
    ASSUME IInv, NEW u \in User, NEW k \in Slot
    PROVE  /\ StartSend(u, k) => IInv'
           /\ StartRotate(u, k) => IInv'
           /\ StartTopUp(u, k) => IInv'
<1>1. current[u] \in 0 .. MaxVersion /\ MaxVersion \in Nat \ {0} BY Histories, VersionAssumption
<1>2. crossed \in SUBSET User /\ crossed \cup Crossing(u) \in SUBSET User
    BY Histories, CrossingUsers
<1>3. ASSUME StartSend(u, k) PROVE IInv'
    <2>1. PICK at \in {"mint", "through"}, ver \in Version :
              jobs' = jobs \cup {NewJob(u, k, "send", at, ver, NoKey)}
        <3>1. CASE current[u] = 0
            <4>1. 1 \in Version BY <1>1 DEF Version
            <4> QED BY <1>3, <3>1, <4>1 DEF StartSend
        <3>2. CASE current[u] # 0
            <4>1. current[u] \in Version BY <1>1, <3>2 DEF Version
            <4> QED BY <1>3, <3>2, <4>1 DEF StartSend
        <3> QED BY <3>1, <3>2
    <2> DEFINE n == NewJob(u, k, "send", at, ver, NoKey)
    <2>2. n \in Job /\ n.at = at /\ n.key = NoKey
        BY NewJobFields DEF Phase, KeyOrNone
    <2> HIDE DEF n
    <2>3. JobKnows(n)' BY <2>2 DEF JobKnows
    <2>4. \A j \in jobs' : j \in jobs \/ (j \in Job /\ JobKnows(j)') BY <2>1, <2>2, <2>3 DEF n
    <2>5. crossed' \in SUBSET User BY <1>2, <1>3 DEF StartSend
    <2> QED BY <1>3, <2>4, <2>5, Histories, OnlyWork DEF StartSend
<1>4. ASSUME StartRotate(u, k) PROVE IInv'
    <2>0. PICK n : n = NewJob(u, k, "rotate", "mint", current[u] + 1, NoKey) OBVIOUS
    <2>1. current[u] + 1 \in Version BY <1>1, <1>4 DEF StartRotate, Version
    <2>2. n \in Job /\ n.at = "mint" /\ n.key = NoKey
        BY <2>0, <2>1, NewJobFields DEF Phase, KeyOrNone
    <2>3. jobs' = jobs \cup {n} BY <1>4, <2>0 DEF StartRotate
    <2>4. JobKnows(n)' BY <2>2 DEF JobKnows
    <2>5. \A j \in jobs' : j \in jobs \/ (j \in Job /\ JobKnows(j)') BY <2>2, <2>3, <2>4
    <2>6. crossed' \in SUBSET User BY <1>2, <1>4 DEF StartRotate
    <2> QED BY <1>4, <2>5, <2>6, Histories, OnlyWork DEF StartRotate
<1>5. ASSUME StartTopUp(u, k) PROVE IInv'
    <2> DEFINE key == stored[u][current[u]]
    <2>0. PICK n : n = NewJob(u, k, "topUp", "versioned", current[u], key) OBVIOUS
    <2>1. current[u] \in Version BY <1>1, <1>5 DEF StartTopUp, Version
    <2>2. key \in KeyOrNone /\ (key # NoKey => u \in entitled[key])
        BY <2>1, Histories DEF IInv, TablesKnow, KeysOnlyForMembers
    <2> HIDE DEF key
    <2>3. n \in Job /\ n.at = "versioned" /\ n.key = key /\ n.user = u
        BY <2>0, <2>1, <2>2, NewJobFields DEF Phase
    <2>4. jobs' = jobs \cup {n} BY <1>5, <2>0 DEF StartTopUp, key
    <2>5. UNCHANGED entitled BY <1>5 DEF StartTopUp, history
    <2>6. JobKnows(n)' BY <2>2, <2>3, <2>5 DEF JobKnows
    <2>7. \A j \in jobs' : j \in jobs \/ (j \in Job /\ JobKnows(j)') BY <2>3, <2>4, <2>6
    <2> QED BY <1>5, <2>7, Histories, OnlyWork DEF StartTopUp, history
<1> QED BY <1>3, <1>4, <1>5

\* A job goes on with what is known of it still known.
LEMMA GoesOn ==
    ASSUME IInv, Grows, NEW j \in jobs, NEW n \in Job, JobKnows(n)', Becomes(j, n), UNCHANGED syncs
    PROVE  /\ \A i \in jobs' : i \in jobs \/ (i \in Job /\ JobKnows(i)')
           /\ \A y \in syncs' : y \in syncs \/ (y \in Sync /\ SyncKnows(y)')
           /\ jobs' \in SUBSET Job /\ syncs' \in SUBSET Sync /\ JobsKnow' /\ SyncsKnow'
<1>1. \A i \in jobs' : i \in jobs \/ (i \in Job /\ JobKnows(i)') BY DEF Becomes
<1>2. \A y \in syncs' : y \in syncs \/ (y \in Sync /\ SyncKnows(y)') OBVIOUS
<1> QED BY <1>1, <1>2, WorkKnows

\* Steps at the end of a job, which change only that it is gone.
LEMMA EndsKeep ==
    ASSUME IInv, NEW j \in jobs, Ends(j), UNCHANGED <<hub, client, syncs, entitled, reach, crossed>>,
           CutOff(j) \/ UNCHANGED abandoned
    PROVE  IInv'
<1>1. \A i \in jobs' : i \in jobs BY DEF Ends
<1>2. abandoned' \in SUBSET Key BY CutOffKeys, Histories
<1> QED BY <1>1, <1>2, Histories, OnlyWork

\* The generated key is nobody's yet: those who are members now are entitled to it.
LEMMA StoreNewKeyKeeps ==
    ASSUME IInv, NEW j \in jobs, NEW k \in Key, StoreNewKey(j, k)
    PROVE  IInv'
<1> DEFINE u == j.user
           v == j.ver
           n == [j EXCEPT !.at = "stored", !.key = k]
<1>1. j \in Job /\ u \in User /\ v \in Version BY JobFields
<1>2. n \in Job /\ n.at = "stored" /\ n.key = k /\ n.user = u /\ n.ver = v
    BY <1>1 DEF Job, Phase, KeyOrNone
<1>3. /\ entitled[k] = {} /\ Becomes(j, n)
      /\ stored' = [stored EXCEPT ![u][v] = k]
      /\ entitled' = [entitled EXCEPT ![k] = members \cup {u}]
      /\ UNCHANGED <<members, removing, devices, bundle, flag, msgs, current, syncs,
                     reach, abandoned, crossed>>
    BY DEF StoreNewKey, hub
<1> HIDE DEF u, v, n
<1>4. /\ entitled \in [Key -> SUBSET User] /\ members \in SUBSET User
      /\ stored \in [User -> [Version -> KeyOrNone]] /\ k \in KeyOrNone /\ k # NoKey
    BY NoKeyAssumption DEF IInv, TypeOK, KeyOrNone
<1>5. entitled' \in [Key -> SUBSET User]
      /\ \A l \in Key : entitled'[l] = IF l = k THEN members \cup {u} ELSE entitled[l]
    BY <1>1, <1>3, <1>4
<1>6. stored' \in [User -> [Version -> KeyOrNone]]
      /\ \A w \in User, x \in Version :
             stored'[w][x] = IF w = u /\ x = v THEN k ELSE stored[w][x]
    BY <1>1, <1>3, <1>4
<1>7. Grows BY <1>3, <1>4, <1>5, <1>6 DEF Grows
<1>8. JobKnows(n)' BY <1>1, <1>2, <1>4, <1>5, <1>6 DEF JobKnows
<1>9. jobs' \in SUBSET Job /\ syncs' \in SUBSET Sync /\ JobsKnow' /\ SyncsKnow'
    BY <1>2, <1>3, <1>7, <1>8, GoesOn
<1>10. TypeOK' BY <1>3, <1>5, <1>6, <1>9 DEF IInv, TypeOK
<1>11. MembersEntitled' BY <1>3, <1>5 DEF IInv, TablesKnow, MembersEntitled
<1>12. VersionHasKey'
    <2>1. \A w \in User : current[w] # 0 => current[w] \in Version
        BY VersionAssumption DEF IInv, TypeOK, Version
    <2> QED BY <1>3, <1>4, <1>6, <2>1 DEF IInv, TablesKnow, VersionHasKey
<1>13. KeysOnlyForMembers'
    <2> SUFFICES ASSUME NEW w \in User, NEW x \in Version,
                        NEW l \in {stored'[w][x], bundle'[w][x]}, l # NoKey
                 PROVE  w \in entitled'[l]
        BY DEF KeysOnlyForMembers
    <2>1. CASE w = u /\ x = v /\ l = stored'[w][x]
        BY <1>5, <1>6, <2>1
    <2>2. CASE ~(w = u /\ x = v /\ l = stored'[w][x])
        <3>1. l \in {stored[w][x], bundle[w][x]} BY <1>3, <1>6, <2>2
        <3>2. w \in entitled[l] BY <3>1 DEF IInv, TablesKnow, KeysOnlyForMembers
        <3>3. l \in Key BY <3>1, Histories DEF KeyOrNone
        <3>4. l # k BY <1>3, <3>2
        <3> QED BY <1>5, <3>2, <3>3, <3>4
    <2> QED BY <2>1, <2>2
<1> QED BY <1>9, <1>10, <1>11, <1>12, <1>13 DEF IInv, TablesKnow

\* The version that becomes current has its key.
LEMMA SetNewVersionKeeps ==
    ASSUME IInv, NEW j \in jobs, SetNewVersion(j)
    PROVE  IInv'
<1> DEFINE n == [j EXCEPT !.at = "versioned"]
<1>1. j \in Job /\ j.user \in User /\ j.ver \in Version /\ JobKnows(j) BY JobFields
<1>2. n \in Job /\ n.at = "versioned" /\ n.key = j.key /\ n.user = j.user
    BY <1>1 DEF Job, Phase
<1>3. /\ j.at = "stored" /\ Becomes(j, n) /\ current' = [current EXCEPT ![j.user] = j.ver]
      /\ UNCHANGED <<members, removing, devices, bundle, flag, msgs, stored, syncs,
                     entitled, reach, abandoned, crossed>>
    BY DEF SetNewVersion, hub, history
<1> HIDE DEF n
<1>4. Grows BY <1>3, NothingTaken
<1>5. JobKnows(n)' BY <1>1, <1>2, <1>3 DEF JobKnows
<1>6. jobs' \in SUBSET Job /\ syncs' \in SUBSET Sync /\ JobsKnow' /\ SyncsKnow'
    BY <1>2, <1>3, <1>4, <1>5, GoesOn
<1>7. current' \in [User -> 0 .. MaxVersion]
      /\ \A w \in User : current'[w] = IF w = j.user THEN j.ver ELSE current[w]
    BY <1>1, <1>3, VersionAssumption DEF IInv, TypeOK, Version
<1>8. TypeOK' BY <1>3, <1>6, <1>7 DEF IInv, TypeOK
<1>9. MembersEntitled' /\ KeysOnlyForMembers'
    BY <1>3 DEF IInv, TablesKnow, MembersEntitled, KeysOnlyForMembers
<1>10. VersionHasKey'
    BY <1>1, <1>3, <1>7 DEF IInv, TablesKnow, VersionHasKey, JobKnows
<1> QED BY <1>6, <1>8, <1>9, <1>10 DEF IInv, TablesKnow

LEMMA FetchDevicesKeeps ==
    ASSUME IInv, NEW j \in jobs, FetchDevices(j)
    PROVE  IInv'
<1>1. j \in Job /\ JobKnows(j) BY JobFields
<1>2. CASE j.user \in members
    <2>1. PICK at \in {"through", "fetched"}, list \in SUBSET User :
              Becomes(j, [j EXCEPT !.at = at, !.list = list])
        <3>1. Missing(j) \in SUBSET User BY Histories DEF Missing
        <3> QED BY <1>2, <3>1 DEF FetchDevices
    <2> DEFINE n == [j EXCEPT !.at = at, !.list = list]
    <2>2. n \in Job /\ n.at = at /\ n.key = j.key /\ n.user = j.user BY <1>1 DEF Job, Phase
    <2>3. Becomes(j, n) BY <2>1
    <2> HIDE DEF n
    <2>4. UNCHANGED <<hub, client, syncs, entitled, crossed, abandoned>>
        BY <1>2 DEF FetchDevices
    <2>5. Grows BY <2>4, NothingTaken DEF client
    <2>6. JobKnows(n)' BY <1>1, <2>2, <2>4 DEF JobKnows
    <2>7. reach' \in [Key -> SUBSET User]
        <3>1. reach \in [Key -> SUBSET User] /\ devices \in SUBSET User BY Histories
        <3>2. reach' = reach \/ reach' = [reach EXCEPT ![j.key] = devices]
            BY <1>2 DEF FetchDevices
        <3> QED BY <3>1, <3>2
    <2> QED BY <2>2, <2>3, <2>4, <2>5, <2>6, <2>7, Histories, GoesOn, OnlyWork
<1>3. CASE j.user \notin members
    BY <1>3, EndsKeep DEF FetchDevices
<1> QED BY <1>2, <1>3

\* The members that are read for a request to post are entitled to its key.
LEMMA PostBundlesKeeps ==
    ASSUME IInv, NEW j \in jobs, PostBundles(j)
    PROVE  IInv'
<1>1. j \in Job /\ JobKnows(j) /\ j.key \in Key \cup {NoKey} BY JobFields
<1>2. CASE j.user \in members
    <2>1. PICK ms \in SUBSET User :
              ms = members /\ Becomes(j, [j EXCEPT !.at = "posting", !.allowed = ms])
        BY <1>2, Histories DEF PostBundles
    <2> DEFINE n == [j EXCEPT !.at = "posting", !.allowed = ms]
    <2>2. n \in Job /\ n.at = "posting" /\ n.key = j.key /\ n.user = j.user /\ n.allowed = ms
        BY <1>1 DEF Job, Phase
    <2>3. Becomes(j, n) BY <2>1
    <2> HIDE DEF n
    <2>4. UNCHANGED <<hub, client, syncs, entitled, reach, crossed, abandoned>>
        BY <1>2 DEF PostBundles
    <2>5. Grows BY <2>4, NothingTaken DEF client
    <2>6. j.key # NoKey => ms \subseteq entitled[j.key]
        BY <1>1, <2>1 DEF IInv, TablesKnow, MembersEntitled, JobKnows
    <2>7. JobKnows(n)' BY <1>1, <2>2, <2>4, <2>6 DEF JobKnows
    <2> QED BY <2>2, <2>3, <2>4, <2>5, <2>7, Histories, GoesOn, OnlyWork
<1>3. CASE j.user \notin members
    BY <1>3, EndsKeep DEF PostBundles
<1> QED BY <1>2, <1>3

\* A bundle row goes to one of the members that were read.
LEMMA StoreBundleKeeps ==
    ASSUME IInv, NEW j \in jobs, NEW r \in User, StoreBundle(j, r)
    PROVE  IInv'
<1>1. j \in Job /\ JobKnows(j) /\ j.key \in Key \cup {NoKey} /\ j.ver \in Version
      /\ j.list \in SUBSET User
    BY JobFields
<1>2. CASE r \in j.allowed
    <2>1. PICK at \in {"through", "posting"}, list \in SUBSET User :
              Becomes(j, [j EXCEPT !.list = list, !.at = at])
        <3>1. j.at = "posting" BY DEF StoreBundle
        <3>2. Becomes(j, [j EXCEPT !.list = @ \ {r}, !.at = IF j.list = {r} THEN "through" ELSE @])
            BY <1>2 DEF StoreBundle
        <3>3. j.list \ {r} \in SUBSET User BY <1>1
        <3>4. CASE j.list = {r} BY <3>2, <3>3, <3>4
        <3>5. CASE j.list # {r} BY <3>1, <3>2, <3>3, <3>5
        <3> QED BY <3>4, <3>5
    <2> DEFINE n == [j EXCEPT !.list = list, !.at = at]
    <2>2. /\ n \in Job /\ n.at = at /\ n.key = j.key /\ n.user = j.user /\ n.allowed = j.allowed
        BY <1>1 DEF Job, Phase
    <2>3. Becomes(j, n) BY <2>1
    <2> HIDE DEF n
    <2>4. /\ j.at = "posting" /\ bundle' = [bundle EXCEPT ![r][j.ver] = j.key]
          /\ UNCHANGED <<members, removing, devices, flag, msgs, stored, current, syncs,
                         entitled, reach, abandoned, crossed>>
        BY <1>2 DEF StoreBundle, client
    <2>5. Grows BY <2>4, NothingTaken
    <2>6. JobKnows(n)' BY <1>1, <2>2, <2>4 DEF JobKnows
    <2>7. jobs' \in SUBSET Job /\ syncs' \in SUBSET Sync /\ JobsKnow' /\ SyncsKnow'
        BY <2>2, <2>3, <2>4, <2>5, <2>6, GoesOn
    <2>8. bundle' \in [User -> [Version -> KeyOrNone]]
          /\ \A w \in User, x \in Version :
                 bundle'[w][x] = IF w = r /\ x = j.ver THEN j.key ELSE bundle[w][x]
        BY <1>1, <2>4 DEF IInv, TypeOK, KeyOrNone
    <2>9. TypeOK' BY <2>4, <2>7, <2>8 DEF IInv, TypeOK
    <2>10. MembersEntitled' /\ VersionHasKey'
        BY <2>4 DEF IInv, TablesKnow, MembersEntitled, VersionHasKey
    <2>11. j.key # NoKey => r \in entitled[j.key] BY <1>1, <1>2, <2>4 DEF JobKnows
    <2>12. KeysOnlyForMembers'
        BY <2>4, <2>8, <2>11 DEF IInv, TablesKnow, KeysOnlyForMembers
    <2> QED BY <2>7, <2>9, <2>10, <2>12 DEF IInv, TablesKnow
<1>3. CASE r \notin j.allowed
    <2>1. /\ Ends(j) /\ CutOff(j)
          /\ UNCHANGED <<hub, client, syncs, entitled, reach, crossed>>
        BY <1>3 DEF StoreBundle, hub
    <2> QED BY <2>1, EndsKeep
<1> QED BY <1>2, <1>3

\* A message is sealed with a key its sender has.
LEMMA SealKeeps ==
    ASSUME IInv, NEW j \in jobs, Seal(j)
    PROVE  IInv'
<1>1. j \in Job /\ j.user \in User /\ j.ver \in Version BY JobFields
<1>2. PICK key \in KeyOrNone :
          key = stored[j.user][j.ver] /\ Becomes(j, [j EXCEPT !.at = "sealed", !.key = key])
    BY <1>1, Histories DEF Seal
<1> DEFINE n == [j EXCEPT !.at = "sealed", !.key = key]
<1>3. n \in Job /\ n.at = "sealed" /\ n.key = key /\ n.user = j.user BY <1>1 DEF Job, Phase
<1>4. Becomes(j, n) BY <1>2
<1> HIDE DEF n
<1>5. UNCHANGED <<hub, client, syncs, entitled, reach, crossed, abandoned>>
    BY DEF Seal, history
<1>6. Grows BY <1>5, NothingTaken DEF client
<1>7. key # NoKey => j.user \in entitled[key]
    BY <1>1, <1>2 DEF IInv, TablesKnow, KeysOnlyForMembers
<1>8. JobKnows(n)' BY <1>2, <1>3, <1>5, <1>7 DEF JobKnows, Seal
<1> QED BY <1>3, <1>4, <1>5, <1>6, <1>8, Histories, GoesOn, OnlyWork

\* A sealed message has a key; the ends of the other operations change the flag at most.
LEMMA FinishKeeps ==
    ASSUME IInv, NEW j \in jobs, SendMessage(j) \/ ClearRotationNeeded(j)
    PROVE  IInv'
<1>1. /\ Ends(j) /\ flag' \in BOOLEAN
      /\ UNCHANGED <<members, removing, devices, bundle, stored, current, syncs,
                     entitled, reach, abandoned, crossed>>
    BY DEF SendMessage, ClearRotationNeeded, client, history, IInv, TypeOK
<1>2. Grows BY <1>1, NothingTaken
<1>3. \A i \in jobs' : i \in jobs BY <1>1 DEF Ends
<1>4. jobs' \in SUBSET Job /\ syncs' \in SUBSET Sync /\ JobsKnow' /\ SyncsKnow'
    BY <1>1, <1>2, <1>3, WorkKnows
<1>5. TablesKnow'
    BY <1>1 DEF IInv, TablesKnow, MembersEntitled, VersionHasKey, KeysOnlyForMembers
<1>6. msgs' \in SUBSET Message
    <2>1. CASE ClearRotationNeeded(j) BY <2>1 DEF ClearRotationNeeded, IInv, TypeOK
    <2>2. CASE SendMessage(j)
        <3>1. j.user \in User /\ j.ver \in Version /\ j.key \in Key BY <2>2, JobFields DEF SendMessage, JobKnows
        <3>2. [sender |-> j.user, ver |-> j.ver, key |-> j.key] \in Message BY <3>1 DEF Message
        <3> QED BY <2>2, <3>2 DEF SendMessage, IInv, TypeOK
    <2> QED BY <2>1, <2>2
<1>7. TypeOK' BY <1>1, <1>4, <1>6 DEF IInv, TypeOK
<1> QED BY <1>4, <1>5, <1>7 DEF IInv

LEMMA JobEndsKeep ==
    ASSUME IInv, NEW j \in jobs, EndTopUp(j) \/ Abandon(j)
    PROVE  IInv'
<1>1. CASE EndTopUp(j) BY <1>1, EndsKeep DEF EndTopUp, history
<1>2. CASE Abandon(j) BY <1>2, EndsKeep DEF Abandon
<1> QED BY <1>1, <1>2

\* A synchronisation goes on with what is known of it still known.
LEMMA SyncGoesOn ==
    ASSUME IInv, Grows, NEW y \in syncs, NEW n \in Sync, SyncKnows(n)', Continues(y, n), UNCHANGED jobs
    PROVE  /\ \A i \in jobs' : i \in jobs \/ (i \in Job /\ JobKnows(i)')
           /\ \A x \in syncs' : x \in syncs \/ (x \in Sync /\ SyncKnows(x)')
           /\ jobs' \in SUBSET Job /\ syncs' \in SUBSET Sync /\ JobsKnow' /\ SyncsKnow'
<1>1. \A x \in syncs' : x \in syncs \/ (x \in Sync /\ SyncKnows(x)') BY DEF Continues
<1>2. \A i \in jobs' : i \in jobs \/ (i \in Job /\ JobKnows(i)') OBVIOUS
<1> QED BY <1>1, <1>2, WorkKnows

\* The bundles that are fetched hold keys that their user is entitled to.
LEMMA StartSyncKeeps ==
    ASSUME IInv, NEW u \in User, NEW k \in Slot, StartSync(u, k)
    PROVE  IInv'
<1>1. PICK todo : todo = {<<v, bundle[u][v]>> : v \in {w \in Version : bundle[u][w] # NoKey}}
    OBVIOUS
<1>2. PICK n : n = [user |-> u, slot |-> k, at |-> "loop", ver |-> 0, key |-> NoKey, todo |-> todo]
    OBVIOUS
<1>3. \A v \in Version : bundle[u][v] \in KeyOrNone
                         /\ (bundle[u][v] # NoKey => u \in entitled[bundle[u][v]])
    BY Histories DEF IInv, TablesKnow, KeysOnlyForMembers
<1>4. todo \in SUBSET (Version \X Key) /\ \A p \in todo : u \in entitled[p[2]]
    BY <1>1, <1>3 DEF KeyOrNone
<1>5. n \in Sync /\ n.user = u /\ n.at = "loop" /\ n.todo = todo
    BY <1>2, <1>4, VersionAssumption DEF Sync, KeyOrNone
<1>6. syncs' = syncs \cup {n} /\ UNCHANGED <<hub, client, jobs, entitled, reach, abandoned, crossed>>
    BY <1>1, <1>2 DEF StartSync, history
<1>7. SyncKnows(n)' BY <1>4, <1>5, <1>6 DEF SyncKnows
<1>8. \A y \in syncs' : y \in syncs \/ (y \in Sync /\ SyncKnows(y)') BY <1>5, <1>6, <1>7
<1> QED BY <1>6, <1>8, Histories, OnlyWork

LEMMA SyncCheckKeeps ==
    ASSUME IInv, NEW y \in syncs, NEW v \in Version, NEW k \in Key, SyncCheck(y, v, k)
    PROVE  IInv'
<1> DEFINE left == y.todo \ {<<v, k>>}
           skip == [y EXCEPT !.todo = left]
           take == [y EXCEPT !.todo = left, !.at = "missing", !.ver = v, !.key = k]
<1>1. y \in Sync /\ SyncKnows(y) /\ y.user \in User /\ y.todo \in SUBSET (Version \X Key)
    BY SyncFields
<1>2. y.user \in entitled[k] /\ y.at = "loop" BY <1>1 DEF SyncCheck, SyncKnows
<1>3. UNCHANGED <<hub, client, jobs, entitled, reach, abandoned>> BY DEF SyncCheck
<1>4. Grows BY <1>3, NothingTaken DEF client
<1>5. crossed' \in SUBSET User
    BY <1>1, Histories, CrossingUsers DEF SyncCheck
<1>6. v \in 0 .. MaxVersion BY VersionAssumption DEF Version
<1>7. skip \in Sync /\ skip.at = "loop" /\ skip.user = y.user /\ skip.todo = left
    BY <1>1, <1>2 DEF Sync
<1>8. /\ take \in Sync /\ take.at = "missing" /\ take.user = y.user /\ take.todo = left
      /\ take.ver = v /\ take.key = k
    BY <1>1, <1>6 DEF Sync, KeyOrNone
<1>9. \A p \in left : y.user \in entitled'[p[2]] BY <1>1, <1>3 DEF SyncKnows
<1>10. Continues(y, skip) \/ Continues(y, take) BY DEF SyncCheck
<1> HIDE DEF skip, take, left
<1>11. SyncKnows(skip)' BY <1>7, <1>9 DEF SyncKnows
<1>12. SyncKnows(take)' BY <1>2, <1>3, <1>8, <1>9 DEF SyncKnows
<1> QED BY <1>3, <1>4, <1>5, <1>7, <1>8, <1>10, <1>11, <1>12, Histories, SyncGoesOn, OnlyWork

LEMMA SyncStoreKeeps ==
    ASSUME IInv, NEW y \in syncs, SyncStore(y)
    PROVE  IInv'
<1> DEFINE n == [y EXCEPT !.at = "stored"]
<1>1. y \in Sync /\ SyncKnows(y) /\ y.user \in User BY SyncFields
<1>2. y.at = "missing" /\ y.ver \in Version /\ y.key \in Key /\ y.user \in entitled[y.key]
    BY <1>1 DEF SyncStore, SyncKnows
<1>3. n \in Sync /\ n.at = "stored" /\ n.user = y.user /\ n.todo = y.todo /\ n.ver = y.ver
      /\ n.key = y.key
    BY <1>1 DEF Sync
<1>4. /\ stored' = [stored EXCEPT ![y.user][y.ver] = y.key] /\ Continues(y, n)
      /\ UNCHANGED <<members, removing, devices, bundle, flag, msgs, current, jobs,
                     entitled, reach, abandoned, crossed>>
    BY DEF SyncStore, hub, history
<1> HIDE DEF n
<1>5. y.key \in KeyOrNone /\ y.key # NoKey BY <1>2, NoKeyAssumption DEF KeyOrNone
<1>6. stored' \in [User -> [Version -> KeyOrNone]]
      /\ \A w \in User, x \in Version :
             stored'[w][x] = IF w = y.user /\ x = y.ver THEN y.key ELSE stored[w][x]
    BY <1>1, <1>2, <1>4, <1>5 DEF IInv, TypeOK
<1>7. Grows BY <1>4, <1>5, <1>6 DEF Grows
<1>8. SyncKnows(n)' BY <1>1, <1>2, <1>3, <1>4, <1>5, <1>6 DEF SyncKnows
<1>9. jobs' \in SUBSET Job /\ syncs' \in SUBSET Sync /\ JobsKnow' /\ SyncsKnow'
    BY <1>3, <1>4, <1>7, <1>8, SyncGoesOn
<1>10. TypeOK' BY <1>4, <1>6, <1>9 DEF IInv, TypeOK
<1>11. MembersEntitled' BY <1>4 DEF IInv, TablesKnow, MembersEntitled
<1>12. VersionHasKey'
    <2>1. \A w \in User : current[w] # 0 => current[w] \in Version
        BY VersionAssumption DEF IInv, TypeOK, Version
    <2> QED BY <1>4, <1>5, <1>6, <2>1 DEF IInv, TablesKnow, VersionHasKey
<1>13. KeysOnlyForMembers'
    BY <1>2, <1>4, <1>6 DEF IInv, TablesKnow, KeysOnlyForMembers
<1> QED BY <1>9, <1>10, <1>11, <1>12, <1>13 DEF IInv, TablesKnow

LEMMA SyncCompareKeeps ==
    ASSUME IInv, NEW y \in syncs, SyncCompare(y)
    PROVE  IInv'
<1>1. y \in Sync /\ SyncKnows(y) BY SyncFields
<1>2. PICK at \in {"lower", "loop"} : Continues(y, [y EXCEPT !.at = at])
    BY DEF SyncCompare
<1> DEFINE n == [y EXCEPT !.at = at]
<1>3. n \in Sync /\ n.at = at /\ n.user = y.user /\ n.todo = y.todo /\ n.ver = y.ver
      /\ n.key = y.key
    BY <1>1 DEF Sync
<1>4. Continues(y, n) BY <1>2
<1> HIDE DEF n
<1>5. y.at = "stored" /\ UNCHANGED <<hub, client, jobs, entitled, reach, abandoned, crossed>>
    BY DEF SyncCompare, history
<1>6. Grows BY <1>5, NothingTaken DEF client
<1>7. SyncKnows(n)' BY <1>1, <1>3, <1>5 DEF SyncKnows, client
<1> QED BY <1>3, <1>4, <1>5, <1>6, <1>7, Histories, SyncGoesOn, OnlyWork

LEMMA SyncRaiseKeeps ==
    ASSUME IInv, NEW y \in syncs, SyncRaise(y)
    PROVE  IInv'
<1> DEFINE n == [y EXCEPT !.at = "loop"]
<1>1. y \in Sync /\ SyncKnows(y) /\ y.user \in User BY SyncFields
<1>2. n \in Sync /\ n.at = "loop" /\ n.user = y.user /\ n.todo = y.todo BY <1>1 DEF Sync
<1>3. /\ y.at = "lower" /\ current' = [current EXCEPT ![y.user] = y.ver] /\ Continues(y, n)
      /\ UNCHANGED <<members, removing, devices, bundle, flag, msgs, stored, jobs,
                     entitled, reach, abandoned, crossed>>
    BY DEF SyncRaise, hub, history
<1> HIDE DEF n
<1>4. y.ver \in Version /\ stored[y.user][y.ver] # NoKey BY <1>1, <1>3 DEF SyncKnows
<1>5. Grows BY <1>3, NothingTaken
<1>6. SyncKnows(n)' BY <1>1, <1>2, <1>3 DEF SyncKnows
<1>7. jobs' \in SUBSET Job /\ syncs' \in SUBSET Sync /\ JobsKnow' /\ SyncsKnow'
    BY <1>2, <1>3, <1>5, <1>6, SyncGoesOn
<1>8. current' \in [User -> 0 .. MaxVersion]
      /\ \A w \in User : current'[w] = IF w = y.user THEN y.ver ELSE current[w]
    BY <1>1, <1>3, <1>4, VersionAssumption DEF IInv, TypeOK, Version
<1>9. TypeOK' BY <1>3, <1>7, <1>8 DEF IInv, TypeOK
<1>10. MembersEntitled' /\ KeysOnlyForMembers'
    BY <1>3 DEF IInv, TablesKnow, MembersEntitled, KeysOnlyForMembers
<1>11. VersionHasKey' BY <1>3, <1>4, <1>8 DEF IInv, TablesKnow, VersionHasKey
<1> QED BY <1>7, <1>9, <1>10, <1>11 DEF IInv, TablesKnow

LEMMA EndSyncKeeps ==
    ASSUME IInv, NEW y \in syncs, EndSync(y)
    PROVE  IInv'
<1>1. \A x \in syncs' : x \in syncs BY DEF EndSync
<1>2. UNCHANGED <<hub, client, jobs, entitled, reach, abandoned, crossed>>
    BY DEF EndSync, history
<1> QED BY <1>1, <1>2, Histories, OnlyWork

LEMMA StutterKeeps == ASSUME IInv, UNCHANGED vars PROVE IInv'
<1>1. UNCHANGED <<hub, client, jobs, syncs, entitled, reach, abandoned, crossed>>
    BY DEF vars, history
<1> QED BY <1>1, Histories, OnlyWork

LEMMA InductiveInv == IInv /\ [Next]_vars => IInv'
<1> SUFFICES ASSUME IInv, [Next]_vars PROVE IInv' OBVIOUS
<1>1. ASSUME NEW u \in User, UserStep(u) PROVE IInv'
    BY <1>1, JoinHubKeeps, HubStepKeeps, StartsKeep, StartSyncKeeps DEF UserStep
<1>2. ASSUME NEW j \in jobs, JobStep(j) PROVE IInv'
    BY <1>2, StoreNewKeyKeeps, SetNewVersionKeeps, FetchDevicesKeeps, PostBundlesKeeps,
       StoreBundleKeeps, SealKeeps, FinishKeeps, JobEndsKeep
    DEF JobStep
<1>3. ASSUME NEW y \in syncs, SyncStep(y) PROVE IInv'
    BY <1>3, SyncCheckKeeps, SyncStoreKeeps, SyncCompareKeeps, SyncRaiseKeeps, EndSyncKeeps
    DEF SyncStep
<1>4. CASE UNCHANGED vars BY <1>4, StutterKeeps
<1> QED BY <1>1, <1>2, <1>3, <1>4 DEF Next

-----------------------------------------------------------------------------
\* The invariant, in every state clients and hub service can be in.
THEOREM Invariant == Spec => []IInv
BY InitInv, InductiveInv, PTL DEF Spec

\* The variables have their types.
THEOREM TypeCorrect == Spec => []TypeOK
<1>1. IInv => TypeOK BY DEF IInv
<1> QED BY <1>1, Invariant, PTL

\* A key is held by nobody, and wrapped for nobody, who was not a member at some time
\* since it was generated: neither through the device keys that removed members leave
\* behind nor through a member list that was read before a removal.
THEOREM KeysStayWithMembers == Spec => []KeysOnlyForMembers
<1>1. IInv => KeysOnlyForMembers BY DEF IInv, TablesKnow
<1> QED BY <1>1, Invariant, PTL

\* Wherever an operation is cut off, the version a client takes for the current one has
\* its key, so that encrypt finds it.
THEOREM CurrentKeyIsThere == Spec => []VersionHasKey
<1>1. IInv => VersionHasKey BY DEF IInv, TablesKnow
<1> QED BY <1>1, Invariant, PTL

-----------------------------------------------------------------------------
(* Messages: a client reads its own for good, unless two of its operations   *)
(* overlapped while they wrote keys; and a message is sent under a key that  *)
(* was distributed, unless that failed or is under way.                      *)

\* The operations that write a key, from their first look at the store on.
Mints(j)   == j.at \in {"mint", "stored"}
Fetches(y) == y.at # "loop"

\* At most one operation of u writes.
Alone(u) ==
    /\ \A i, j \in jobs : i.user = u /\ j.user = u /\ Mints(i) /\ Mints(j) => i = j
    /\ \A x, y \in syncs : x.user = u /\ y.user = u /\ Fetches(x) /\ Fetches(y) => x = y
    /\ \A j \in jobs, y \in syncs : ~(j.user = u /\ y.user = u /\ Mints(j) /\ Fetches(y))

\* An operation that writes a key is ahead of the current version, the others are
\* not; what is sealed or sent has the key that the sender holds.
JobOwned(j) ==
    /\ Mints(j) => current[j.user] < j.ver
    /\ ~Mints(j) => j.ver <= current[j.user]
    /\ j.at = "sealed" => stored[j.user][j.ver] = j.key
SyncOwned(y) ==
    /\ y.at = "missing" => stored[y.user][y.ver] = NoKey
    /\ y.at = "lower" => current[y.user] < y.ver
MessageOwned(m) == m.ver <= current[m.sender] /\ stored[m.sender][m.ver] = m.key

Own(u) ==
    /\ Alone(u)
    /\ \A j \in jobs  : j.user = u => JobOwned(j)
    /\ \A y \in syncs : y.user = u => SyncOwned(y)
    /\ \A m \in msgs  : m.sender = u => MessageOwned(m)

Owns == \A u \in User \ crossed : Own(u)

-----------------------------------------------------------------------------
(* One writer at a time                                                     *)

\* Operations that end leave no more writers.
LEMMA AloneEnds ==
    ASSUME NEW u, Alone(u), jobs' \subseteq jobs, syncs' \subseteq syncs
    PROVE  Alone(u)'
BY DEF Alone, Mints, Fetches

\* An operation that goes on writes only if it did.
LEMMA AloneJob ==
    ASSUME NEW u, Alone(u), NEW j \in jobs, NEW n, Becomes(j, n), UNCHANGED syncs,
           n.user = j.user, Mints(n) => Mints(j)
    PROVE  Alone(u)'
<1>1. jobs' = (jobs \ {j}) \cup {n} BY DEF Becomes
<1>2. ASSUME NEW i \in jobs', NEW l \in jobs', i.user = u, l.user = u, Mints(i), Mints(l)
      PROVE  i = l
    BY <1>1, <1>2 DEF Alone
<1>3. ASSUME NEW i \in jobs', NEW y \in syncs', i.user = u, y.user = u, Mints(i), Fetches(y)
      PROVE  FALSE
    BY <1>1, <1>3 DEF Alone
<1>4. \A x, y \in syncs' : x.user = u /\ y.user = u /\ Fetches(x) /\ Fetches(y) => x = y
    BY DEF Alone
<1> QED BY <1>2, <1>3, <1>4 DEF Alone, Mints, Fetches

LEMMA AloneSync ==
    ASSUME NEW u, Alone(u), NEW y \in syncs, NEW n, Continues(y, n), UNCHANGED jobs,
           n.user = y.user, Fetches(n) => Fetches(y)
    PROVE  Alone(u)'
<1>1. syncs' = (syncs \ {y}) \cup {n} BY DEF Continues
<1>2. ASSUME NEW i \in syncs', NEW l \in syncs', i.user = u, l.user = u, Fetches(i), Fetches(l)
      PROVE  i = l
    BY <1>1, <1>2 DEF Alone
<1>3. ASSUME NEW i \in jobs', NEW x \in syncs', i.user = u, x.user = u, Mints(i), Fetches(x)
      PROVE  FALSE
    BY <1>1, <1>3 DEF Alone
<1>4. \A i, l \in jobs' : i.user = u /\ l.user = u /\ Mints(i) /\ Mints(l) => i = l
    BY DEF Alone
<1> QED BY <1>2, <1>3, <1>4 DEF Alone, Mints, Fetches

\* A new operation writes only where none of its user does: its start would have
\* put the user among the crossed.
LEMMA AloneStart ==
    ASSUME NEW u, Alone(u), NEW n, jobs' = jobs \cup {n}, UNCHANGED syncs,
           n.user = u /\ Mints(n) => ~Writing(u)
    PROVE  Alone(u)'
<1>1. n.user = u /\ Mints(n) => /\ \A j \in jobs : ~(j.user = u /\ Mints(j))
                                /\ \A y \in syncs : ~(y.user = u /\ Fetches(y))
    BY DEF Writing, Mints, Fetches
<1>2. ASSUME NEW i \in jobs', NEW l \in jobs', i.user = u, l.user = u, Mints(i), Mints(l)
      PROVE  i = l
    BY <1>1, <1>2 DEF Alone
<1>3. ASSUME NEW i \in jobs', NEW y \in syncs', i.user = u, y.user = u, Mints(i), Fetches(y)
      PROVE  FALSE
    BY <1>1, <1>3 DEF Alone
<1>4. \A x, y \in syncs' : x.user = u /\ y.user = u /\ Fetches(x) /\ Fetches(y) => x = y
    BY DEF Alone
<1> QED BY <1>2, <1>3, <1>4 DEF Alone, Mints, Fetches

LEMMA AloneFetch ==
    ASSUME NEW u, Alone(u), NEW y \in syncs, NEW n, Continues(y, n), UNCHANGED jobs,
           n.user = u => ~Writing(u)
    PROVE  Alone(u)'
<1>1. n.user = u => /\ \A j \in jobs : ~(j.user = u /\ Mints(j))
                    /\ \A x \in syncs : ~(x.user = u /\ Fetches(x))
    BY DEF Writing, Mints, Fetches
<1>2. syncs' = (syncs \ {y}) \cup {n} BY DEF Continues
<1>3. ASSUME NEW i \in syncs', NEW l \in syncs', i.user = u, l.user = u, Fetches(i), Fetches(l)
      PROVE  i = l
    BY <1>1, <1>2, <1>3 DEF Alone
<1>4. ASSUME NEW i \in jobs', NEW x \in syncs', i.user = u, x.user = u, Mints(i), Fetches(x)
      PROVE  FALSE
    BY <1>1, <1>2, <1>4 DEF Alone
<1>5. \A i, l \in jobs' : i.user = u /\ l.user = u /\ Mints(i) /\ Mints(l) => i = l
    BY DEF Alone
<1> QED BY <1>3, <1>4, <1>5 DEF Alone, Mints, Fetches

-----------------------------------------------------------------------------
(* Steps that change neither the store nor the current version              *)

\* It is enough to look at what such a step adds.
LEMMA OwnWork ==
    ASSUME Owns, UNCHANGED client, crossed \subseteq crossed',
           NEW u \in User \ crossed', Alone(u)',
           \A j \in jobs'  : j.user = u => j \in jobs \/ JobOwned(j)',
           \A y \in syncs' : y.user = u => y \in syncs \/ SyncOwned(y)',
           \A m \in msgs'  : m.sender = u => m \in msgs \/ MessageOwned(m)'
    PROVE  Own(u)'
<1>1. Own(u) BY DEF Owns
<1>2. UNCHANGED <<stored, current>> BY DEF client
<1>3. \A j \in jobs' : j.user = u => JobOwned(j)'
    BY <1>1, <1>2 DEF Own, JobOwned, Mints
<1>4. \A y \in syncs' : y.user = u => SyncOwned(y)'
    BY <1>1, <1>2 DEF Own, SyncOwned
<1>5. \A m \in msgs' : m.sender = u => MessageOwned(m)'
    BY <1>1, <1>2 DEF Own, MessageOwned
<1> QED BY <1>3, <1>4, <1>5 DEF Own

\* Operations that end, or change nothing of this.
LEMMA OwnEnds ==
    ASSUME Owns, UNCHANGED <<client, crossed>>,
           jobs' \subseteq jobs, syncs' \subseteq syncs,
           NEW u \in User \ crossed',
           \A m \in msgs' : m.sender = u => m \in msgs \/ MessageOwned(m)'
    PROVE  Own(u)'
<1>1. Alone(u)' BY AloneEnds DEF Owns, Own
<1> QED BY <1>1, OwnWork

\* A job that goes on without a write.
LEMMA OwnJob ==
    ASSUME IInv, Owns, UNCHANGED <<client, syncs, msgs, crossed>>,
           NEW j \in jobs, NEW n, Becomes(j, n),
           n.user = j.user, n.ver = j.ver, ~Mints(j), ~Mints(n),
           n.at = "sealed" => n.key = stored[j.user][j.ver],
           NEW u \in User \ crossed'
    PROVE  Own(u)'
<1>1. Alone(u)' BY AloneJob DEF Owns, Own
<1>2. j.user = u => JobOwned(n)'
    BY DEF Owns, Own, JobOwned, client, Mints
<1>3. \A i \in jobs' : i.user = u => i \in jobs \/ JobOwned(i)' BY <1>2 DEF Becomes
<1> QED BY <1>1, <1>3, OwnWork

LEMMA HubStepOwns ==
    ASSUME Owns, NEW u \in User,
           JoinHub(u) \/ RemoveMember(u) \/ MarkForRotation(u) \/ RegisterDeviceKey(u)
    PROVE  Owns'
<1>1. UNCHANGED <<client, crossed, jobs, syncs, msgs>>
    BY DEF JoinHub, RemoveMember, MarkForRotation, RegisterDeviceKey, history
<1> QED BY <1>1, OwnEnds DEF Owns

LEMMA StartsOwn ==
    ASSUME IInv, Owns, NEW v \in User, NEW k \in Slot
    PROVE  /\ StartSend(v, k) => Owns'
           /\ StartRotate(v, k) => Owns'
           /\ StartTopUp(v, k) => Owns'
<1>1. current[v] \in 0 .. MaxVersion /\ MaxVersion \in Nat BY Histories, VersionAssumption
<1>2. ASSUME NEW n, jobs' = jobs \cup {n}, UNCHANGED <<client, msgs, syncs>>,
             n.user = v, n.at # "sealed",
             Mints(n) => current[v] < n.ver /\ crossed' = crossed \cup Crossing(v),
             ~Mints(n) => n.ver = current[v] /\ UNCHANGED crossed
      PROVE  Owns'
    <2> SUFFICES ASSUME NEW u \in User \ crossed' PROVE Own(u)' BY DEF Owns
    <2>1. crossed \subseteq crossed' BY <1>2
    <2>2. u = v /\ Mints(n) => ~Writing(u) BY <1>2 DEF Crossing
    <2>3. Alone(u)' BY <1>2, <2>1, <2>2, AloneStart DEF Owns, Own
    <2>4. JobOwned(n)' BY <1>1, <1>2 DEF JobOwned, client, Mints
    <2> QED BY <1>2, <2>1, <2>3, <2>4, OwnWork
<1>3. ASSUME StartSend(v, k), current[v] = 0 PROVE Owns'
    <2> DEFINE n == NewJob(v, k, "send", "mint", 1, NoKey)
    <2>1. n.user = v /\ n.at = "mint" /\ n.ver = 1 BY DEF NewJob
    <2>2. jobs' = jobs \cup {n} /\ crossed' = crossed \cup Crossing(v)
          /\ UNCHANGED <<client, msgs, syncs>>
        BY <1>3 DEF StartSend, hub
    <2> HIDE DEF n
    <2> QED BY <1>2, <1>3, <2>1, <2>2 DEF Mints
<1>4. ASSUME StartSend(v, k), current[v] # 0 PROVE Owns'
    <2> DEFINE n == NewJob(v, k, "send", "through", current[v], NoKey)
    <2>1. n.user = v /\ n.at = "through" /\ n.ver = current[v] BY DEF NewJob
    <2>2. jobs' = jobs \cup {n} /\ UNCHANGED <<client, msgs, syncs, crossed>>
        BY <1>4 DEF StartSend, hub
    <2> HIDE DEF n
    <2> QED BY <1>2, <2>1, <2>2 DEF Mints
<1>5. ASSUME StartRotate(v, k) PROVE Owns'
    <2> DEFINE n == NewJob(v, k, "rotate", "mint", current[v] + 1, NoKey)
    <2>1. n.user = v /\ n.at = "mint" /\ n.ver = current[v] + 1 BY DEF NewJob
    <2>2. jobs' = jobs \cup {n} /\ crossed' = crossed \cup Crossing(v)
          /\ UNCHANGED <<client, msgs, syncs>>
        BY <1>5 DEF StartRotate, hub
    <2> HIDE DEF n
    <2> QED BY <1>1, <1>2, <2>1, <2>2 DEF Mints
<1>6. ASSUME StartTopUp(v, k) PROVE Owns'
    <2> DEFINE n == NewJob(v, k, "topUp", "versioned", current[v], stored[v][current[v]])
    <2>1. n.user = v /\ n.at = "versioned" /\ n.ver = current[v] BY DEF NewJob
    <2>2. jobs' = jobs \cup {n} /\ UNCHANGED <<client, msgs, syncs, crossed>>
        BY <1>6 DEF StartTopUp, hub, history
    <2> HIDE DEF n
    <2> QED BY <1>2, <2>1, <2>2 DEF Mints
<1> QED BY <1>3, <1>4, <1>5, <1>6

-----------------------------------------------------------------------------
(* Jobs                                                                     *)

\* The new key goes where no message of its user is: its version is ahead.
LEMMA StoreNewKeyOwns ==
    ASSUME IInv, Owns, NEW j \in jobs, NEW k \in Key, StoreNewKey(j, k)
    PROVE  Owns'
<1> DEFINE n == [j EXCEPT !.at = "stored", !.key = k]
<1>1. j \in Job /\ j.user \in User /\ j.ver \in Version BY JobFields
<1>2. n.at = "stored" /\ n.user = j.user /\ n.ver = j.ver BY <1>1 DEF Job
<1>3. j.at = "mint" /\ Becomes(j, n) /\ UNCHANGED <<current, syncs, msgs, crossed>>
    BY DEF StoreNewKey, hub
<1>4. \A u \in User, v \in Version : stored'[u][v] = IF u = j.user /\ v = j.ver THEN k ELSE stored[u][v]
    BY <1>1 DEF StoreNewKey, IInv, TypeOK
<1> HIDE DEF n
<1> SUFFICES ASSUME NEW u \in User \ crossed PROVE Own(u)' BY <1>3 DEF Owns
<1>5. Own(u) BY DEF Owns
<1>6. Alone(u)' BY <1>2, <1>3, <1>5, AloneJob DEF Own, Mints
<1>7. j.user = u => current[u] < j.ver BY <1>3, <1>5 DEF Own, JobOwned, Mints
<1>8. ASSUME NEW i \in jobs', i.user = u PROVE JobOwned(i)'
    <2>1. CASE i = n BY <1>2, <1>3, <1>7, <1>8, <2>1 DEF JobOwned, Mints
    <2>2. CASE i # n
        <3>1. i \in jobs \ {j} BY <1>3, <2>2 DEF Becomes
        <3>2. i.ver \in Version /\ JobOwned(i) BY <1>5, <1>8, <3>1, JobFields DEF Own
        <3>3. current[u] \in Nat /\ i.ver \in Nat /\ j.ver \in Nat
            BY <1>1, <3>2, Histories, VersionAssumption DEF Version
        <3>4. i.at = "sealed" => ~(j.user = u /\ i.ver = j.ver)
            BY <1>7, <1>8, <3>2, <3>3 DEF JobOwned, Mints
        <3>5. i.at = "sealed" => stored'[u][i.ver] = i.key
            BY <1>4, <1>8, <3>2, <3>4 DEF JobOwned
        <3> QED BY <1>3, <1>8, <3>2, <3>5 DEF JobOwned, Mints
    <2> QED BY <2>1, <2>2
<1>9. ASSUME NEW y \in syncs', y.user = u PROVE SyncOwned(y)'
    <2>1. y \in syncs /\ SyncOwned(y) BY <1>3, <1>5, <1>9 DEF Own
    <2>2. Fetches(y) => j.user # u BY <1>3, <1>5, <1>9, <2>1 DEF Own, Alone, Mints
    <2>3. y.at = "missing" => y.ver \in Version BY <2>1, SyncFields DEF SyncKnows
    <2> QED BY <1>3, <1>4, <1>9, <2>1, <2>2, <2>3 DEF SyncOwned, Fetches
<1>10. ASSUME NEW m \in msgs', m.sender = u PROVE MessageOwned(m)'
    <2>1. m \in msgs /\ MessageOwned(m) /\ m.ver \in Version
        BY <1>3, <1>5, <1>10 DEF Own, IInv, TypeOK, Message
    <2>2. current[u] \in Nat /\ m.ver \in Nat /\ j.ver \in Nat
        BY <1>1, <2>1, Histories, VersionAssumption DEF Version
    <2>3. ~(j.user = u /\ m.ver = j.ver) BY <1>7, <1>10, <2>1, <2>2 DEF MessageOwned
    <2> QED BY <1>3, <1>4, <1>10, <2>1, <2>3 DEF MessageOwned
<1> QED BY <1>6, <1>8, <1>9, <1>10 DEF Own

\* A current version only grows.
LEMMA HigherOwns ==
    ASSUME IInv, NEW u \in User, Own(u), Alone(u)', UNCHANGED <<stored, msgs>>,
           current'[u] \in Version, current[u] < current'[u],
           \A j \in jobs' : j.user = u => /\ ~Mints(j)
                                          /\ \/ j \in jobs
                                             \/ j.ver <= current'[u] /\ j.at # "sealed",
           \A y \in syncs' : y.user = u => y.at # "lower" /\ (y \in syncs \/ ~Fetches(y))
    PROVE  Own(u)'
<1>1. current[u] \in Nat /\ current'[u] \in Nat BY Histories, VersionAssumption DEF Version
<1>2. ASSUME NEW j \in jobs', j.user = u PROVE JobOwned(j)'
    <2>1. CASE j \in jobs
        <3>1. JobOwned(j) /\ ~Mints(j) /\ j.ver \in Nat BY <1>2, <2>1, JobFields, VersionAssumption DEF Own, Version
        <3> QED BY <1>1, <1>2, <3>1 DEF JobOwned, Mints
    <2>2. CASE j \notin jobs BY <1>2, <2>2 DEF JobOwned, Mints
    <2> QED BY <2>1, <2>2
<1>3. ASSUME NEW y \in syncs', y.user = u PROVE SyncOwned(y)'
    BY <1>3 DEF Own, SyncOwned, Fetches
<1>4. ASSUME NEW m \in msgs', m.sender = u PROVE MessageOwned(m)'
    <2>1. MessageOwned(m) /\ m.ver \in Nat BY <1>4 DEF Own, IInv, TypeOK, Message, Version
    <2> QED BY <1>1, <1>4, <2>1 DEF MessageOwned
<1> QED BY <1>2, <1>3, <1>4 DEF Own

\* What concerns another user only.
LEMMA OthersOwn ==
    ASSUME IInv, NEW u \in User, Own(u), Alone(u)', UNCHANGED msgs,
           current'[u] = current[u], \A v \in Version : stored'[u][v] = stored[u][v],
           \A j \in jobs'  : j.user = u => j \in jobs,
           \A y \in syncs' : y.user = u => y \in syncs
    PROVE  Own(u)'
<1>1. ASSUME NEW j \in jobs', j.user = u PROVE JobOwned(j)'
    <2>1. j \in jobs /\ JobOwned(j) /\ j.ver \in Version BY <1>1, JobFields DEF Own
    <2> QED BY <1>1, <2>1 DEF JobOwned, Mints
<1>2. ASSUME NEW y \in syncs', y.user = u PROVE SyncOwned(y)'
    <2>1. y \in syncs /\ SyncOwned(y) /\ (y.at = "missing" => y.ver \in Version)
        BY <1>2, SyncFields DEF Own, SyncKnows
    <2> QED BY <1>2, <2>1 DEF SyncOwned
<1>3. ASSUME NEW m \in msgs', m.sender = u PROVE MessageOwned(m)'
    <2>1. MessageOwned(m) /\ m.ver \in Version BY <1>3 DEF Own, IInv, TypeOK, Message
    <2> QED BY <1>3, <2>1 DEF MessageOwned
<1> QED BY <1>1, <1>2, <1>3 DEF Own

LEMMA SetNewVersionOwns ==
    ASSUME IInv, Owns, NEW j \in jobs, SetNewVersion(j)
    PROVE  Owns'
<1> DEFINE n == [j EXCEPT !.at = "versioned"]
<1>1. j \in Job /\ j.user \in User /\ j.ver \in Version BY JobFields
<1>2. n.at = "versioned" /\ n.user = j.user /\ n.ver = j.ver BY <1>1 DEF Job
<1>3. j.at = "stored" /\ Becomes(j, n) /\ UNCHANGED <<stored, syncs, msgs, crossed>>
    BY DEF SetNewVersion, hub, history
<1>4. \A u \in User : current'[u] = IF u = j.user THEN j.ver ELSE current[u]
    BY <1>1 DEF SetNewVersion, IInv, TypeOK
<1> HIDE DEF n
<1> SUFFICES ASSUME NEW u \in User \ crossed PROVE Own(u)' BY <1>3 DEF Owns
<1>5. Own(u) BY DEF Owns
<1>6. Alone(u)' BY <1>2, <1>3, <1>5, AloneJob DEF Own, Mints
<1>7. CASE u = j.user
    <2>1. current[u] < j.ver /\ current'[u] = j.ver
        BY <1>3, <1>4, <1>5, <1>7 DEF Own, JobOwned, Mints
    <2>2. ASSUME NEW i \in jobs', i.user = u
          PROVE ~Mints(i) /\ (i \in jobs \/ (i.ver <= current'[u] /\ i.at # "sealed"))
        <3>1. CASE i = n
            <4>1. i.ver = current'[u] /\ i.ver \in Nat BY <1>1, <1>2, <2>1, <3>1 DEF Version
            <4> QED BY <1>2, <3>1, <4>1 DEF Mints
        <3>2. CASE i # n BY <1>3, <1>5, <1>7, <2>2, <3>2 DEF Becomes, Own, Alone, Mints
        <3> QED BY <3>1, <3>2
    <2>3. \A y \in syncs' : y.user = u => y.at # "lower" /\ (y \in syncs \/ ~Fetches(y))
        BY <1>3, <1>5, <1>7 DEF Own, Alone, Mints, Fetches
    <2> QED BY <1>1, <1>3, <1>5, <1>6, <2>1, <2>2, <2>3, HigherOwns
<1>8. CASE u # j.user
    <2>1. \A i \in jobs' : i.user = u => i \in jobs BY <1>2, <1>3, <1>8 DEF Becomes
    <2> QED BY <1>3, <1>4, <1>5, <1>6, <1>8, <2>1, OthersOwn
<1> QED BY <1>7, <1>8

\* What goes on towards its end keeps its version; a message is sealed with the key
\* that its sender holds, and sent so.
LEMMA JobStepOwns ==
    ASSUME IInv, Owns, NEW j \in jobs, JobStep(j)
    PROVE  Owns'
<1>1. j \in Job /\ j.user \in User /\ j.ver \in Version BY JobFields
<1>2. ASSUME NEW n, Becomes(j, n), UNCHANGED <<client, syncs, msgs, crossed>>,
             n.user = j.user, n.ver = j.ver, ~Mints(j), ~Mints(n),
             n.at = "sealed" => n.key = stored[j.user][j.ver]
      PROVE  Owns'
    BY <1>2, OwnJob DEF Owns
<1>3. ASSUME Ends(j), UNCHANGED <<client, syncs, msgs, crossed>> PROVE Owns'
    BY <1>3, OwnEnds DEF Owns, Ends
<1>4. CASE \E k \in Key : StoreNewKey(j, k) BY <1>4, StoreNewKeyOwns
<1>5. CASE SetNewVersion(j) BY <1>5, SetNewVersionOwns
<1>6. CASE FetchDevices(j)
    <2>1. CASE j.user \in members
        <3>0. Missing(j) \in SUBSET User BY Histories DEF Missing
        <3>1. PICK at \in {"through", "fetched"}, list \in SUBSET User :
                  Becomes(j, [j EXCEPT !.at = at, !.list = list])
            BY <1>6, <2>1, <3>0 DEF FetchDevices
        <3> DEFINE n == [j EXCEPT !.at = at, !.list = list]
        <3>2. n.at = at /\ n.user = j.user /\ n.ver = j.ver BY <1>1 DEF Job
        <3>3. Becomes(j, n) /\ ~Mints(j) /\ UNCHANGED <<client, syncs, msgs, crossed>>
            BY <1>6, <3>1 DEF FetchDevices, hub, Mints
        <3> HIDE DEF n
        <3> QED BY <1>2, <3>2, <3>3 DEF Mints
    <2>2. CASE j.user \notin members BY <1>3, <1>6, <2>2 DEF FetchDevices, hub
    <2> QED BY <2>1, <2>2
<1>7. CASE PostBundles(j)
    <2>1. CASE j.user \in members
        <3> DEFINE n == [j EXCEPT !.at = "posting", !.allowed = members]
        <3>2. n.at = "posting" /\ n.user = j.user /\ n.ver = j.ver BY <1>1 DEF Job
        <3>3. Becomes(j, n) /\ ~Mints(j) /\ UNCHANGED <<client, syncs, msgs, crossed>>
            BY <1>7, <2>1 DEF PostBundles, hub, Mints
        <3> HIDE DEF n
        <3> QED BY <1>2, <3>2, <3>3 DEF Mints
    <2>2. CASE j.user \notin members BY <1>3, <1>7, <2>2 DEF PostBundles, hub
    <2> QED BY <2>1, <2>2
<1>8. ASSUME NEW r \in User, StoreBundle(j, r) PROVE Owns'
    <2>1. CASE r \in j.allowed
        <3>0. j.at = "posting" BY <1>8 DEF StoreBundle
        <3>1. PICK at \in {"through", "posting"} :
                  Becomes(j, [j EXCEPT !.list = j.list \ {r}, !.at = at])
            <4>1. CASE j.list = {r} BY <1>8, <2>1, <4>1 DEF StoreBundle
            <4>2. CASE j.list # {r} BY <1>1, <1>8, <2>1, <3>0, <4>2 DEF StoreBundle
            <4> QED BY <4>1, <4>2
        <3> DEFINE n == [j EXCEPT !.list = j.list \ {r}, !.at = at]
        <3>2. n.at = at /\ n.user = j.user /\ n.ver = j.ver BY <1>1 DEF Job
        <3>3. Becomes(j, n) /\ ~Mints(j) /\ UNCHANGED <<client, syncs, msgs, crossed>>
            BY <1>8, <3>0, <3>1 DEF StoreBundle, Mints
        <3> HIDE DEF n
        <3> QED BY <1>2, <3>2, <3>3 DEF Mints
    <2>2. CASE r \notin j.allowed BY <1>3, <1>8, <2>2 DEF StoreBundle
    <2> QED BY <2>1, <2>2
<1>9. CASE Seal(j)
    <2> DEFINE n == [j EXCEPT !.at = "sealed", !.key = stored[j.user][j.ver]]
    <2>1. n.at = "sealed" /\ n.user = j.user /\ n.ver = j.ver /\ n.key = stored[j.user][j.ver]
        BY <1>1 DEF Job
    <2>2. Becomes(j, n) /\ ~Mints(j) /\ UNCHANGED <<client, syncs, msgs, crossed>>
        BY <1>9 DEF Seal, hub, history, Mints
    <2> HIDE DEF n
    <2> QED BY <1>2, <2>1, <2>2 DEF Mints
<1>10. CASE SendMessage(j)
    <2>1. Ends(j) /\ j.at = "sealed" /\ UNCHANGED <<client, syncs, crossed>>
        BY <1>10 DEF SendMessage, history
    <2>2. msgs' \subseteq msgs \cup {[sender |-> j.user, ver |-> j.ver, key |-> j.key]}
        BY <1>10 DEF SendMessage
    <2> SUFFICES ASSUME NEW u \in User \ crossed' PROVE Own(u)' BY DEF Owns
    <2>3. ASSUME NEW m \in msgs', m.sender = u, m \notin msgs PROVE MessageOwned(m)'
        <3>1. m.sender = j.user /\ m.ver = j.ver /\ m.key = j.key BY <2>2, <2>3
        <3>2. JobOwned(j) BY <2>1, <2>3, <3>1 DEF Owns, Own
        <3> QED BY <2>1, <3>1, <3>2 DEF JobOwned, Mints, MessageOwned, client
    <2>4. jobs' \subseteq jobs BY <2>1 DEF Ends
    <2> QED BY <2>1, <2>3, <2>4, OwnEnds
<1>11. CASE ClearRotationNeeded(j) BY <1>3, <1>11 DEF ClearRotationNeeded, history
<1>12. CASE EndTopUp(j) BY <1>3, <1>12 DEF EndTopUp, hub, history
<1>13. CASE Abandon(j) BY <1>3, <1>13 DEF Abandon, hub
<1> QED BY <1>4, <1>5, <1>6, <1>7, <1>8, <1>9, <1>10, <1>11, <1>12, <1>13 DEF JobStep

-----------------------------------------------------------------------------
(* Synchronisations                                                         *)

LEMMA StartSyncOwns ==
    ASSUME IInv, Owns, NEW v \in User, NEW k \in Slot, StartSync(v, k)
    PROVE  Owns'
<1>1. PICK n : n.at = "loop" /\ syncs' = syncs \cup {n} BY DEF StartSync
<1>2. UNCHANGED <<client, crossed, jobs, msgs>> BY DEF StartSync, hub, history
<1> SUFFICES ASSUME NEW u \in User \ crossed' PROVE Own(u)' BY DEF Owns
<1>3. Alone(u)' BY <1>1, <1>2 DEF Owns, Own, Alone, Mints, Fetches
<1>4. \A y \in syncs' : y.user = u => y \in syncs \/ SyncOwned(y)' BY <1>1 DEF SyncOwned
<1> QED BY <1>2, <1>3, <1>4, OwnWork

\* A key is fetched for a version that has none.
LEMMA SyncCheckOwns ==
    ASSUME IInv, Owns, NEW y \in syncs, NEW v \in Version, NEW k \in Key, SyncCheck(y, v, k)
    PROVE  Owns'
<1> DEFINE left == y.todo \ {<<v, k>>}
           skip == [y EXCEPT !.todo = left]
           take == [y EXCEPT !.todo = left, !.at = "missing", !.ver = v, !.key = k]
<1>1. y \in Sync /\ y.at = "loop" BY SyncFields DEF SyncCheck
<1>2. skip.user = y.user /\ skip.at = "loop" BY <1>1 DEF Sync
<1>3. take.user = y.user /\ take.at = "missing" /\ take.ver = v BY <1>1 DEF Sync
<1>4. UNCHANGED <<client, jobs, msgs>> BY DEF SyncCheck, hub
<1>5. CASE stored[y.user][v] # NoKey
    <2>1. Continues(y, skip) /\ UNCHANGED crossed BY <1>5 DEF SyncCheck
    <2> HIDE DEF skip
    <2> SUFFICES ASSUME NEW u \in User \ crossed' PROVE Own(u)' BY DEF Owns
    <2>2. Alone(u)' BY <1>2, <1>4, <2>1, AloneSync DEF Owns, Own, Fetches
    <2>3. \A x \in syncs' : x.user = u => x \in syncs \/ SyncOwned(x)'
        BY <1>2, <2>1 DEF Continues, SyncOwned
    <2> QED BY <1>4, <2>1, <2>2, <2>3, OwnWork
<1>6. CASE stored[y.user][v] = NoKey
    <2>1. Continues(y, take) /\ crossed' = crossed \cup Crossing(y.user) BY <1>6 DEF SyncCheck
    <2> HIDE DEF take
    <2> SUFFICES ASSUME NEW u \in User \ crossed' PROVE Own(u)' BY DEF Owns
    <2>2. take.user = u => ~Writing(u) BY <1>3, <2>1 DEF Crossing
    <2>3. Alone(u)' BY <1>4, <2>1, <2>2, AloneFetch DEF Owns, Own
    <2>4. SyncOwned(take)' BY <1>3, <1>4, <1>6 DEF SyncOwned, client
    <2>5. \A x \in syncs' : x.user = u => x \in syncs \/ SyncOwned(x)'
        BY <2>1, <2>4 DEF Continues
    <2> QED BY <1>4, <2>1, <2>3, <2>5, OwnWork
<1> QED BY <1>5, <1>6

\* Nothing was stored under the version of the fetched key since the look-up, so no
\* message is of it.
LEMMA SyncStoreOwns ==
    ASSUME IInv, Owns, NEW y \in syncs, SyncStore(y)
    PROVE  Owns'
<1> DEFINE n == [y EXCEPT !.at = "stored"]
<1>1. y \in Sync /\ y.user \in User /\ SyncKnows(y) BY SyncFields
<1>2. n.at = "stored" /\ n.user = y.user BY <1>1 DEF Sync
<1>3. y.at = "missing" /\ Continues(y, n) /\ UNCHANGED <<current, jobs, msgs, crossed>>
    BY DEF SyncStore, hub, history
<1>4. \A u \in User, v \in Version :
          stored'[u][v] = IF u = y.user /\ v = y.ver THEN y.key ELSE stored[u][v]
    BY <1>1, <1>3 DEF SyncStore, SyncKnows, IInv, TypeOK
<1> HIDE DEF n
<1> SUFFICES ASSUME NEW u \in User \ crossed PROVE Own(u)' BY <1>3 DEF Owns
<1>5. Own(u) BY DEF Owns
<1>6. Alone(u)' BY <1>2, <1>3, <1>5, AloneSync DEF Own, Fetches
<1>7. y.user = u => stored[u][y.ver] = NoKey BY <1>3, <1>5 DEF Own, SyncOwned
<1>8. ASSUME NEW j \in jobs', j.user = u PROVE JobOwned(j)'
    <2>1. j \in jobs /\ JobOwned(j) BY <1>3, <1>5, <1>8 DEF Own
    <2>2. j.ver \in Version /\ (j.at = "sealed" => j.key # NoKey)
        BY <2>1, JobFields DEF JobKnows
    <2>3. j.at = "sealed" => ~(y.user = u /\ j.ver = y.ver) BY <1>7, <1>8, <2>1, <2>2 DEF JobOwned
    <2> QED BY <1>3, <1>4, <1>8, <2>1, <2>2, <2>3 DEF JobOwned, Mints
<1>9. ASSUME NEW x \in syncs', x.user = u PROVE SyncOwned(x)'
    <2>1. CASE x = n BY <1>2, <2>1 DEF SyncOwned
    <2>2. CASE x # n
        <3>1. x \in syncs \ {y} /\ SyncOwned(x) BY <1>3, <1>5, <1>9, <2>2 DEF Own, Continues
        <3>2. x.at = "missing" => x.ver \in Version /\ y.user # u
            BY <1>3, <1>5, <1>9, <3>1, SyncFields DEF Own, Alone, Fetches, SyncKnows
        <3> QED BY <1>3, <1>4, <1>9, <3>1, <3>2 DEF SyncOwned
    <2> QED BY <2>1, <2>2
<1>10. ASSUME NEW m \in msgs', m.sender = u PROVE MessageOwned(m)'
    <2>1. MessageOwned(m) /\ m.ver \in Version /\ m.key # NoKey
        BY <1>3, <1>5, <1>10, NoKeyAssumption DEF Own, IInv, TypeOK, Message
    <2>2. ~(y.user = u /\ m.ver = y.ver) BY <1>7, <1>10, <2>1 DEF MessageOwned
    <2> QED BY <1>3, <1>4, <1>10, <2>1, <2>2 DEF MessageOwned
<1> QED BY <1>6, <1>8, <1>9, <1>10 DEF Own

\* The current version is compared and raised in two steps; nobody else moves it in
\* between, where no two operations of the user write.
LEMMA SyncCompareOwns ==
    ASSUME IInv, Owns, NEW y \in syncs, SyncCompare(y)
    PROVE  Owns'
<1>1. y \in Sync /\ y.user \in User BY SyncFields
<1>2. PICK at \in {"lower", "loop"} :
          Continues(y, [y EXCEPT !.at = at]) /\ (at = "lower" => y.ver > current[y.user])
    BY DEF SyncCompare
<1> DEFINE n == [y EXCEPT !.at = at]
<1>3. n.at = at /\ n.user = y.user /\ n.ver = y.ver BY <1>1 DEF Sync
<1>4. Continues(y, n) /\ y.at = "stored" /\ UNCHANGED <<client, jobs, msgs, crossed>>
    BY <1>2 DEF SyncCompare, hub, history
<1> HIDE DEF n
<1>5. current[y.user] \in Nat /\ y.ver \in Nat
    BY <1>1, SyncFields, Histories, VersionAssumption
<1>6. SyncOwned(n)' BY <1>2, <1>3, <1>4, <1>5 DEF SyncOwned, client
<1> SUFFICES ASSUME NEW u \in User \ crossed' PROVE Own(u)' BY DEF Owns
<1>7. Alone(u)' BY <1>3, <1>4, AloneSync DEF Owns, Own, Fetches
<1>8. \A x \in syncs' : x.user = u => x \in syncs \/ SyncOwned(x)' BY <1>4, <1>6 DEF Continues
<1> QED BY <1>4, <1>7, <1>8, OwnWork

LEMMA SyncRaiseOwns ==
    ASSUME IInv, Owns, NEW y \in syncs, SyncRaise(y)
    PROVE  Owns'
<1> DEFINE n == [y EXCEPT !.at = "loop"]
<1>1. y \in Sync /\ y.user \in User /\ SyncKnows(y) BY SyncFields
<1>2. n.at = "loop" /\ n.user = y.user BY <1>1 DEF Sync
<1>3. y.at = "lower" /\ Continues(y, n) /\ UNCHANGED <<stored, jobs, msgs, crossed>>
    BY DEF SyncRaise, hub, history
<1>4. y.ver \in Version /\ \A u \in User : current'[u] = IF u = y.user THEN y.ver ELSE current[u]
    BY <1>1, <1>3 DEF SyncRaise, SyncKnows, IInv, TypeOK
<1> HIDE DEF n
<1> SUFFICES ASSUME NEW u \in User \ crossed PROVE Own(u)' BY <1>3 DEF Owns
<1>5. Own(u) BY DEF Owns
<1>6. Alone(u)' BY <1>2, <1>3, <1>5, AloneSync DEF Own, Fetches
<1>7. CASE u = y.user
    <2>1. current[u] < y.ver /\ current'[u] = y.ver
        BY <1>3, <1>4, <1>5, <1>7 DEF Own, SyncOwned
    <2>2. \A j \in jobs' : j.user = u => ~Mints(j) /\ j \in jobs
        BY <1>3, <1>5, <1>7 DEF Own, Alone, Fetches
    <2>3. \A x \in syncs' : x.user = u => x.at # "lower" /\ (x \in syncs \/ ~Fetches(x))
        BY <1>2, <1>3, <1>5, <1>7 DEF Own, Alone, Fetches, Continues
    <2> QED BY <1>3, <1>4, <1>5, <1>6, <2>1, <2>2, <2>3, HigherOwns
<1>8. CASE u # y.user
    <2>1. \A x \in syncs' : x.user = u => x \in syncs BY <1>2, <1>3, <1>8 DEF Continues
    <2> QED BY <1>3, <1>4, <1>5, <1>6, <1>8, <2>1, OthersOwn
<1> QED BY <1>7, <1>8

LEMMA EndSyncOwns ==
    ASSUME Owns, NEW y \in syncs, EndSync(y)
    PROVE  Owns'
<1>1. syncs' \subseteq syncs /\ UNCHANGED <<client, crossed, jobs, msgs>>
    BY DEF EndSync, hub, history
<1> QED BY <1>1, OwnEnds DEF Owns

-----------------------------------------------------------------------------
LEMMA OwnsInit == Init => Owns
BY DEF Init, Owns, Own, Alone

LEMMA OwnsNext == IInv /\ Owns /\ [Next]_vars => Owns'
<1> SUFFICES ASSUME IInv, Owns, [Next]_vars PROVE Owns' OBVIOUS
<1>1. ASSUME NEW u \in User, UserStep(u) PROVE Owns'
    BY <1>1, HubStepOwns, StartsOwn, StartSyncOwns DEF UserStep
<1>2. ASSUME NEW j \in jobs, JobStep(j) PROVE Owns' BY <1>2, JobStepOwns
<1>3. ASSUME NEW y \in syncs, SyncStep(y) PROVE Owns'
    BY <1>3, SyncCheckOwns, SyncStoreOwns, SyncCompareOwns, SyncRaiseOwns, EndSyncOwns
    DEF SyncStep
<1>4. CASE UNCHANGED vars
    <2>1. UNCHANGED <<client, crossed, jobs, syncs, msgs>> BY <1>4 DEF vars, hub, history
    <2> QED BY <2>1, OwnEnds DEF Owns
<1> QED BY <1>1, <1>2, <1>3, <1>4 DEF Next

\* A client reads its own messages for good: neither its later rotations, nor the keys
\* that other clients generated for the same version, nor operations that were cut off
\* overwrite the key a message was sealed with, as long as no two operations of the
\* client wrote keys at the same time.
THEOREM OwnMessagesStay == Spec => []OwnMessagesReadable
<1>1. IInv /\ Owns => OwnMessagesReadable
    <2> SUFFICES ASSUME IInv, Owns, NEW m \in msgs
                 PROVE  m.sender \in crossed \/ stored[m.sender][m.ver] = m.key
        BY DEF OwnMessagesReadable
    <2>1. m.sender \in User BY DEF IInv, TypeOK, Message
    <2> QED BY <2>1 DEF Owns, Own, MessageOwned
<1>2. Spec => []Owns
    <2>1. Spec => []IInv BY Invariant
    <2> QED BY <2>1, OwnsInit, OwnsNext, PTL DEF Spec
<1> QED BY <1>1, <1>2, Invariant, PTL

-----------------------------------------------------------------------------
(* Keys that were distributed                                               *)

\* Key k is somewhere for version v.
Holds(k, v) ==
    \/ \E u \in User  : stored[u][v] = k \/ bundle[u][v] = k
    \/ \E j \in jobs  : j.key = k /\ j.ver = v
    \/ \E y \in syncs : (Fetches(y) /\ y.key = k /\ y.ver = v) \/ <<v, k>> \in y.todo
    \/ \E m \in msgs  : m.key = k /\ m.ver = v

\* The job that generated k is on its way to distribute it.
Distributing == {"stored", "versioned", "fetched", "posting"}
Distributes(j, k) == j.key = k /\ j.kind # "topUp" /\ j.at \in Distributing

Keyed(j) ==
    /\ j.at \in Distributing => j.key # NoKey
    /\ j.at = "mint" => j.kind # "topUp"

\* Whom the key was meant for has a bundle, or is still in the list.
Owes(j) ==
    j.kind # "topUp" /\ j.at \in {"fetched", "posting"} =>
        \A r \in reach[j.key] : bundle[r][j.ver] # NoKey \/ r \in j.list

OneVersion     == \A k \in Key, v, w \in Version : Holds(k, v) /\ Holds(k, w) => v = w
Born           == \A k \in Key, v \in Version : Holds(k, v) => entitled[k] # {}
OneDistributor == \A i, j \in jobs, k \in Key : Distributes(i, k) /\ Distributes(j, k) => i = j
Complete ==
    \A k \in Key, v \in Version :
        Holds(k, v) => \/ k \in abandoned
                       \/ \E j \in jobs : Distributes(j, k)
                       \/ Distributed(k, v)

Chain ==
    /\ OneVersion /\ Born /\ OneDistributor /\ Complete
    /\ \A j \in jobs : Keyed(j) /\ Owes(j)

-----------------------------------------------------------------------------
(* Where keys come from                                                     *)

\* A step that takes every key from where one was, a new key apart, keeps a key in
\* one version.
LEMMA Gains ==
    ASSUME IInv, NEW kk, NEW vv,
           \A u \in User, v \in Version :
               \/ stored'[u][v] \in {stored[u][v], NoKey} \/ Holds(stored'[u][v], v)
               \/ stored'[u][v] = kk /\ v = vv,
           \A u \in User, v \in Version :
               bundle'[u][v] \in {bundle[u][v], NoKey} \/ Holds(bundle'[u][v], v),
           \A j \in jobs' : j \in jobs \/ j.key = NoKey \/ Holds(j.key, j.ver)
                            \/ (j.key = kk /\ j.ver = vv),
           \A y \in syncs' : \/ y \in syncs
                             \/ /\ Fetches(y) => Holds(y.key, y.ver)
                                /\ \A p \in y.todo : Holds(p[2], p[1]),
           \A m \in msgs' : m \in msgs \/ Holds(m.key, m.ver)
    PROVE  \A k \in Key, v \in Version : Holds(k, v)' => Holds(k, v) \/ (k = kk /\ v = vv)
<1> SUFFICES ASSUME NEW k \in Key, NEW v \in Version, Holds(k, v)'
             PROVE  Holds(k, v) \/ (k = kk /\ v = vv)
    OBVIOUS
<1>0. k # NoKey BY NoKeyAssumption
<1>1. CASE \E u \in User : stored'[u][v] = k
    <2>1. PICK u \in User : stored'[u][v] = k BY <1>1
    <2>2. stored[u][v] = k => Holds(k, v) BY DEF Holds
    <2> QED BY <1>0, <2>1, <2>2
<1>2. CASE \E u \in User : bundle'[u][v] = k
    <2>1. PICK u \in User : bundle'[u][v] = k BY <1>2
    <2>2. bundle[u][v] = k => Holds(k, v) BY DEF Holds
    <2> QED BY <1>0, <2>1, <2>2
<1>3. CASE \E j \in jobs' : j.key = k /\ j.ver = v
    <2>1. PICK j \in jobs' : j.key = k /\ j.ver = v BY <1>3
    <2>2. j \in jobs => Holds(k, v) BY <2>1 DEF Holds
    <2> QED BY <1>0, <2>1, <2>2
<1>4. CASE \E y \in syncs' : (Fetches(y) /\ y.key = k /\ y.ver = v) \/ <<v, k>> \in y.todo
    <2>1. PICK y \in syncs' : (Fetches(y) /\ y.key = k /\ y.ver = v) \/ <<v, k>> \in y.todo
        BY <1>4
    <2>2. y \in syncs => Holds(k, v) BY <2>1 DEF Holds
    <2>3. (\A p \in y.todo : Holds(p[2], p[1])) /\ <<v, k>> \in y.todo => Holds(k, v) OBVIOUS
    <2> QED BY <2>1, <2>2, <2>3
<1>5. CASE \E m \in msgs' : m.key = k /\ m.ver = v
    <2>1. PICK m \in msgs' : m.key = k /\ m.ver = v BY <1>5
    <2>2. m \in msgs => Holds(k, v) BY <2>1 DEF Holds
    <2> QED BY <2>1, <2>2
<1> QED BY <1>1, <1>2, <1>3, <1>4, <1>5 DEF Holds, Fetches

LEMMA NothingNew ==
    ASSUME IInv,
           \A u \in User, v \in Version :
               stored'[u][v] \in {stored[u][v], NoKey} \/ Holds(stored'[u][v], v),
           \A u \in User, v \in Version :
               bundle'[u][v] \in {bundle[u][v], NoKey} \/ Holds(bundle'[u][v], v),
           \A j \in jobs' : j \in jobs \/ j.key = NoKey \/ Holds(j.key, j.ver),
           \A y \in syncs' : \/ y \in syncs
                             \/ /\ Fetches(y) => Holds(y.key, y.ver)
                                /\ \A p \in y.todo : Holds(p[2], p[1]),
           \A m \in msgs' : m \in msgs \/ Holds(m.key, m.ver)
    PROVE  \A k \in Key, v \in Version : Holds(k, v)' => Holds(k, v)
<1>1. \A k \in Key, v \in Version : Holds(k, v)' => Holds(k, v) \/ (k = NoKey /\ v = 0)
    <2> HIDE DEF Holds
    <2> QED BY Gains
<1> QED BY <1>1, NoKeyAssumption

-----------------------------------------------------------------------------
(* The steps of a distribution                                              *)

\* Entitlements, abandoned keys and bundle rows are never taken back.
Keeps ==
    /\ \A k \in Key : entitled[k] # {} => entitled'[k] # {}
    /\ abandoned \subseteq abandoned'
    /\ \A u \in User, v \in Version : bundle[u][v] # NoKey => bundle'[u][v] # NoKey

\* What there is to show of a step that spreads no new key.
LEMMA ChainGoesOn ==
    ASSUME IInv, Chain, Keeps,
           \A k \in Key, v \in Version : Holds(k, v)' => Holds(k, v),
           OneDistributor', \A j \in jobs' : Keyed(j)' /\ Owes(j)',
           \A k \in Key, v \in Version :
               Holds(k, v) /\ (Distributed(k, v) \/ \E j \in jobs : Distributes(j, k)) =>
                   \/ k \in abandoned'
                   \/ \E j \in jobs' : Distributes(j, k)
                   \/ Distributed(k, v)'
    PROVE  Chain'
<1>1. OneVersion' BY DEF Chain, OneVersion
<1>2. Born' BY DEF Chain, Born, Keeps
<1>3. Complete'
    <2> SUFFICES ASSUME NEW k \in Key, NEW v \in Version, Holds(k, v)'
                 PROVE  \/ k \in abandoned'
                        \/ \E j \in jobs' : Distributes(j, k)
                        \/ Distributed(k, v)'
        BY DEF Complete, Distributes
    <2>1. Holds(k, v) OBVIOUS
    <2>2. \/ k \in abandoned
          \/ \E j \in jobs : Distributes(j, k)
          \/ Distributed(k, v)
        BY <2>1 DEF Chain, Complete
    <2> QED BY <2>1, <2>2 DEF Keeps
<1> QED BY <1>1, <1>2, <1>3 DEF Chain

\* Bundle rows stay, so what was distributed stays so where its list does.
LEMMA StaysDistributed ==
    ASSUME IInv, Keeps, NEW k \in Key, NEW v \in Version, reach'[k] = reach[k], Distributed(k, v)
    PROVE  Distributed(k, v)'
BY DEF Distributed, Keeps, IInv, TypeOK

LEMMA StillOwes ==
    ASSUME IInv, Keeps, NEW j \in Job, j.key \in Key, reach'[j.key] = reach[j.key], Owes(j)
    PROVE  Owes(j)'
BY DEF Owes, Keeps, IInv, TypeOK, Job

\* A step beside all distributions.
LEMMA Beside ==
    ASSUME IInv, Chain, Keeps, UNCHANGED reach,
           \A k \in Key, v \in Version : Holds(k, v)' => Holds(k, v),
           \A j \in jobs' : \/ j \in jobs
                            \/ Keyed(j) /\ (j.kind = "topUp" \/ j.at \notin Distributing),
           \A j \in jobs : j \in jobs' \/ j.kind = "topUp" \/ j.at \notin Distributing
    PROVE  Chain'
<1>1. OneDistributor' BY DEF Chain, OneDistributor, Distributes
<1>2. ASSUME NEW j \in jobs' PROVE Keyed(j)' /\ Owes(j)'
    <2>1. CASE j \in jobs
        <3>1. j \in Job /\ j.key \in Key \cup {NoKey} /\ Keyed(j) /\ Owes(j)
            BY <2>1, JobFields DEF Chain
        <3>2. Keyed(j)' BY <3>1 DEF Keyed
        <3>3. CASE j.key \in Key BY <3>1, <3>3, StillOwes
        <3>4. CASE j.key = NoKey BY <3>1, <3>4 DEF Keyed, Owes, Distributing
        <3> QED BY <3>1, <3>2, <3>3, <3>4
    <2>2. CASE j \notin jobs BY <2>2 DEF Keyed, Owes, Distributing
    <2> QED BY <2>1, <2>2
<1>3. ASSUME NEW k \in Key, NEW v \in Version, Holds(k, v),
             Distributed(k, v) \/ \E j \in jobs : Distributes(j, k)
      PROVE  (\E j \in jobs' : Distributes(j, k)) \/ Distributed(k, v)'
    <2>1. CASE Distributed(k, v)
        BY <2>1, StaysDistributed
    <2>2. CASE \E j \in jobs : Distributes(j, k) BY <2>2 DEF Distributes
    <2> QED BY <1>3, <2>1, <2>2
<1> QED BY <1>1, <1>2, <1>3, ChainGoesOn

\* The job of a distribution goes on with it, ends it, or was cut off.
LEMMA DistributorSteps ==
    ASSUME IInv, Chain, Keeps, NEW j \in jobs, NEW n \in Job, Distributes(j, j.key),
           \A k \in Key, v \in Version : Holds(k, v)' => Holds(k, v),
           \A k \in Key \ {j.key} : reach'[k] = reach[k],
           \/ Ends(j) /\ j.key \in abandoned'
           \/ /\ Becomes(j, n) /\ n.key = j.key /\ n.ver = j.ver /\ n.kind = j.kind
              /\ Keyed(n) /\ Owes(n)'
              /\ \/ Distributes(n, j.key)
                 \/ n.at = "through" /\ Distributed(j.key, j.ver)'
    PROVE  Chain'
<1>1. j.key \in Key /\ j.ver \in Version BY JobFields DEF Chain, Keyed, Distributes
<1>2. \A i \in jobs : i = j \/ ~Distributes(i, j.key)
    BY <1>1 DEF Chain, OneDistributor
<1>3. jobs' = jobs \ {j} \/ jobs' = (jobs \ {j}) \cup {n} BY DEF Ends, Becomes
<1>4. OneDistributor'
    <2> SUFFICES ASSUME NEW i \in jobs', NEW l \in jobs', NEW k \in Key,
                        Distributes(i, k), Distributes(l, k)
                 PROVE  i = l
        BY DEF OneDistributor, Distributes
    <2>1. CASE i \in jobs /\ l \in jobs BY <2>1 DEF Chain, OneDistributor
    <2>2. CASE i \notin jobs \/ l \notin jobs
        <3>1. n \in jobs' /\ Becomes(j, n) BY <1>3, <2>2 DEF Ends, Becomes
        <3>2. n.key = j.key BY <2>2 DEF Ends
        <3>3. k = j.key BY <1>3, <2>2, <3>2 DEF Distributes
        <3> QED BY <1>2, <1>3, <3>3
    <2> QED BY <2>1, <2>2
<1>5. ASSUME NEW i \in jobs' PROVE Keyed(i)' /\ Owes(i)'
    <2>1. CASE i \in jobs /\ i # j
        <3>1. i \in Job /\ i.key \in Key \cup {NoKey} /\ Keyed(i) /\ Owes(i)
            BY <2>1, JobFields DEF Chain
        <3>2. Keyed(i)' BY <3>1 DEF Keyed
        <3>3. CASE i.kind # "topUp" /\ i.at \in {"fetched", "posting"}
            <4>1. i.key \in Key /\ Distributes(i, i.key)
                BY <3>1, <3>3 DEF Keyed, Distributes, Distributing
            <4>2. i.key # j.key BY <1>2, <2>1, <4>1
            <4> QED BY <3>1, <3>2, <4>1, <4>2, StillOwes
        <3>4. CASE ~(i.kind # "topUp" /\ i.at \in {"fetched", "posting"})
            BY <3>2, <3>4 DEF Owes
        <3> QED BY <3>3, <3>4
    <2>2. CASE ~(i \in jobs /\ i # j)
        <3>1. i = n /\ Becomes(j, n) BY <1>3, <2>2 DEF Ends, Becomes
        <3>2. Keyed(n) /\ Owes(n)' BY <2>2, <3>1 DEF Ends
        <3> QED BY <3>1, <3>2 DEF Keyed
    <2> QED BY <2>1, <2>2
<1>6. ASSUME NEW k \in Key, NEW v \in Version, Holds(k, v),
             Distributed(k, v) \/ \E i \in jobs : Distributes(i, k)
      PROVE  \/ k \in abandoned'
             \/ \E i \in jobs' : Distributes(i, k)
             \/ Distributed(k, v)'
    <2>1. CASE k = j.key
        <3>1. v = j.ver
            <4>1. Holds(j.key, j.ver) BY DEF Holds
            <4> QED BY <1>1, <1>6, <2>1, <4>1 DEF Chain, OneVersion
        <3>2. Becomes(j, n) => n \in jobs' BY DEF Becomes
        <3> QED BY <2>1, <3>1, <3>2
    <2>2. CASE k # j.key
        <3>1. CASE Distributed(k, v) BY <2>2, <3>1, StaysDistributed
        <3>2. CASE \E i \in jobs : Distributes(i, k) BY <1>3, <2>2, <3>2 DEF Distributes
        <3> QED BY <1>6, <3>1, <3>2
    <2> QED BY <2>1, <2>2
<1> QED BY <1>4, <1>5, <1>6, ChainGoesOn

-----------------------------------------------------------------------------
(* The steps                                                                *)

\* Most steps leave the bundles and the histories alone.
LEMMA KeepsAll ==
    ASSUME UNCHANGED <<entitled, abandoned, bundle>>
    PROVE  Keeps
BY DEF Keeps

LEMMA HubStepChains ==
    ASSUME IInv, Chain, NEW u \in User,
           JoinHub(u) \/ RemoveMember(u) \/ MarkForRotation(u) \/ RegisterDeviceKey(u)
    PROVE  Chain'
<1>1. UNCHANGED <<stored, bundle, jobs, syncs, msgs, reach, abandoned>>
    BY DEF JoinHub, RemoveMember, MarkForRotation, RegisterDeviceKey, client, history
<1>2. entitled' = entitled
      \/ entitled' = [k \in Key |-> IF entitled[k] # {} THEN entitled[k] \cup {u} ELSE {}]
    BY DEF JoinHub, RemoveMember, MarkForRotation, RegisterDeviceKey, history
<1>3. \A k \in Key : entitled[k] # {} => entitled'[k] # {} BY <1>2
<1>4. Keeps BY <1>1, <1>3 DEF Keeps
<1>5. \A k \in Key, v \in Version : Holds(k, v)' => Holds(k, v) BY <1>1 DEF Holds, Fetches
<1> QED BY <1>1, <1>4, <1>5, Beside

\* An operation that starts has no key, or one that its user holds.
LEMMA StartsChain ==
    ASSUME IInv, Chain, NEW u \in User, NEW slot \in Slot
    PROVE  /\ StartSend(u, slot) => Chain'
           /\ StartRotate(u, slot) => Chain'
           /\ StartTopUp(u, slot) => Chain'
<1>1. ASSUME NEW n, jobs' = jobs \cup {n}, UNCHANGED <<hub, client, syncs, entitled, reach, abandoned>>,
             Keyed(n), n.kind = "topUp" \/ n.at \notin Distributing,
             n.key = NoKey \/ Holds(n.key, n.ver)
      PROVE  Chain'
    <2>1. Keeps BY <1>1, KeepsAll DEF hub
    <2>2. \A k \in Key, v \in Version : Holds(k, v)' => Holds(k, v)
        <3> HIDE DEF Holds
        <3> QED BY <1>1, NothingNew DEF hub, client
    <2> QED BY <1>1, <2>1, <2>2, Beside
<1>2. ASSUME StartSend(u, slot) PROVE Chain'
    <2>1. PICK at \in {"mint", "through"}, ver \in {1, current[u]} :
              jobs' = jobs \cup {NewJob(u, slot, "send", at, ver, NoKey)}
        BY <1>2 DEF StartSend
    <2> DEFINE n == NewJob(u, slot, "send", at, ver, NoKey)
    <2>2. n.kind = "send" /\ n.at = at /\ n.key = NoKey BY DEF NewJob
    <2>3. jobs' = jobs \cup {n} BY <2>1
    <2> HIDE DEF n
    <2> QED BY <1>1, <1>2, <2>2, <2>3 DEF StartSend, Keyed, Distributing
<1>3. ASSUME StartRotate(u, slot) PROVE Chain'
    <2> DEFINE n == NewJob(u, slot, "rotate", "mint", current[u] + 1, NoKey)
    <2>1. n.kind = "rotate" /\ n.at = "mint" /\ n.key = NoKey BY DEF NewJob
    <2>2. jobs' = jobs \cup {n} BY <1>3 DEF StartRotate
    <2> HIDE DEF n
    <2> QED BY <1>1, <1>3, <2>1, <2>2 DEF StartRotate, Keyed, Distributing
<1>4. ASSUME StartTopUp(u, slot) PROVE Chain'
    <2> DEFINE n == NewJob(u, slot, "topUp", "versioned", current[u], stored[u][current[u]])
    <2>1. n.kind = "topUp" /\ n.at = "versioned" /\ n.ver = current[u]
          /\ n.key = stored[u][current[u]]
        BY DEF NewJob
    <2>2. jobs' = jobs \cup {n} /\ n.key # NoKey BY <1>4, <2>1 DEF StartTopUp
    <2>3. Holds(n.key, n.ver) BY <2>1 DEF Holds
    <2> HIDE DEF n
    <2> QED BY <1>1, <1>4, <2>1, <2>2, <2>3 DEF StartTopUp, history, Keyed
<1> QED BY <1>2, <1>3, <1>4

\* A new key has no version yet but the one it is stored for.
LEMMA StoreNewKeyChains ==
    ASSUME IInv, Chain, NEW j \in jobs, NEW k \in Key, StoreNewKey(j, k)
    PROVE  Chain'
<1> DEFINE n == [j EXCEPT !.at = "stored", !.key = k]
<1>1. j \in Job /\ j.user \in User /\ j.ver \in Version /\ Keyed(j) BY JobFields DEF Chain
<1>2. n \in Job /\ n.at = "stored" /\ n.key = k /\ n.ver = j.ver /\ n.kind = j.kind
    BY <1>1 DEF Job, Phase, KeyOrNone
<1>3. /\ j.at = "mint" /\ entitled[k] = {} /\ Becomes(j, n)
      /\ UNCHANGED <<bundle, msgs, syncs, reach, abandoned>>
    BY DEF StoreNewKey, hub
<1>4. /\ entitled' = [entitled EXCEPT ![k] = members \cup {j.user}]
      /\ stored' = [stored EXCEPT ![j.user][j.ver] = k]
    BY DEF StoreNewKey
<1> HIDE DEF n
<1>5. jobs' = (jobs \ {j}) \cup {n} BY <1>3 DEF Becomes
<1>6. j.kind # "topUp" /\ Distributes(n, k)
    BY <1>1, <1>2, <1>3 DEF Keyed, Distributes, Distributing
<1>7. \A v \in Version : ~Holds(k, v) BY <1>3 DEF Chain, Born
<1>8. \A l \in Key, v \in Version : Holds(l, v)' => Holds(l, v) \/ (l = k /\ v = j.ver)
    <2>1. \A u \in User, v \in Version :
              stored'[u][v] \in {stored[u][v]} \/ (stored'[u][v] = k /\ v = j.ver)
        BY <1>1, <1>4 DEF IInv, TypeOK
    <2>2. \A i \in jobs' : i \in jobs \/ (i.key = k /\ i.ver = j.ver) BY <1>2, <1>5
    <2> HIDE DEF Holds
    <2> QED BY <1>3, <2>1, <2>2, Gains
<1>9. Keeps
    <2>1. \A l \in Key : entitled[l] # {} => entitled'[l] # {} BY <1>4 DEF IInv, TypeOK
    <2> QED BY <1>3, <2>1 DEF Keeps
<1>10. OneVersion' BY <1>7, <1>8 DEF Chain, OneVersion
<1>11. Born'
    <2>1. entitled'[k] # {} BY <1>4 DEF IInv, TypeOK
    <2> QED BY <1>8, <1>9, <2>1 DEF Chain, Born, Keeps
<1>12. \A i \in jobs : ~Distributes(i, k)
    BY <1>7, JobFields DEF Holds, Distributes
<1>13. OneDistributor'
    <2> SUFFICES ASSUME NEW i \in jobs', NEW l \in jobs', NEW m \in Key,
                        Distributes(i, m), Distributes(l, m)
                 PROVE  i = l
        BY DEF OneDistributor, Distributes
    <2>1. CASE m = k BY <1>5, <1>12, <2>1
    <2>2. CASE m # k
        <3>1. i # n /\ l # n BY <1>2, <2>2 DEF Distributes
        <3> QED BY <1>5, <3>1 DEF Chain, OneDistributor
    <2> QED BY <2>1, <2>2
<1>14. ASSUME NEW i \in jobs' PROVE Keyed(i)' /\ Owes(i)'
    <2>1. CASE i = n BY <1>2, <1>6, <2>1, NoKeyAssumption DEF Keyed, Owes
    <2>2. CASE i # n
        <3>1. i \in Job /\ i.key \in Key \cup {NoKey} /\ Keyed(i) /\ Owes(i)
            BY <1>5, <2>2, JobFields DEF Chain
        <3>2. Keyed(i)' BY <3>1 DEF Keyed
        <3>3. CASE i.key \in Key BY <1>3, <1>9, <3>1, <3>2, <3>3, StillOwes
        <3>4. CASE i.key = NoKey BY <3>1, <3>2, <3>4 DEF Keyed, Owes, Distributing
        <3> QED BY <3>1, <3>3, <3>4
    <2> QED BY <2>1, <2>2
<1>15. Complete'
    <2> SUFFICES ASSUME NEW l \in Key, NEW v \in Version, Holds(l, v)'
                 PROVE  \/ l \in abandoned'
                        \/ \E i \in jobs' : Distributes(i, l)
                        \/ Distributed(l, v)'
        BY DEF Complete, Distributes
    <2>1. CASE l = k BY <1>5, <1>6, <2>1
    <2>2. CASE l # k
        <3>1. \/ l \in abandoned
              \/ \E i \in jobs : Distributes(i, l)
              \/ Distributed(l, v)
            BY <1>8, <2>2 DEF Chain, Complete
        <3>2. \A i \in jobs : Distributes(i, l) => i \in jobs'
            BY <1>3, <1>5 DEF Distributes, Distributing
        <3> QED BY <1>3, <1>9, <3>1, <3>2, StaysDistributed
    <2> QED BY <2>1, <2>2
<1> QED BY <1>10, <1>11, <1>13, <1>14, <1>15 DEF Chain

\* A job that is none of a distribution goes on, or any such ends.
LEMMA AsideChains ==
    ASSUME IInv, Chain, Keeps, NEW j \in jobs, NEW n,
           UNCHANGED <<stored, syncs, reach>>,
           j.kind = "topUp" \/ j.at \notin Distributing,
           Ends(j) \/ Becomes(j, n),
           Becomes(j, n) => /\ Keyed(n) /\ (n.kind = "topUp" \/ n.at \notin Distributing)
                            /\ n.key = NoKey \/ Holds(n.key, n.ver),
           \A u \in User, v \in Version :
               bundle'[u][v] \in {bundle[u][v], NoKey} \/ Holds(bundle'[u][v], v),
           \A m \in msgs' : m \in msgs \/ Holds(m.key, m.ver)
    PROVE  Chain'
<1>1. jobs' = jobs \ {j} \/ (Becomes(j, n) /\ jobs' = (jobs \ {j}) \cup {n})
    BY DEF Ends, Becomes
<1>2. \A i \in jobs' : \/ i \in jobs
                       \/ i = n /\ Becomes(j, n)
    BY <1>1
<1>3. \A k \in Key, v \in Version : Holds(k, v)' => Holds(k, v)
    <2> HIDE DEF Holds, Becomes
    <2> QED BY <1>2, NothingNew
<1>4. \A i \in jobs : i \in jobs' \/ i.kind = "topUp" \/ i.at \notin Distributing BY <1>1
<1> QED BY <1>2, <1>3, <1>4, Beside

LEMMA JobHolds ==
    ASSUME NEW j \in jobs
    PROVE  Holds(j.key, j.ver)
BY DEF Holds

\* Steps of a distribution that touch no table.
LEMMA DistributorGoesOn ==
    ASSUME IInv, Chain, NEW j \in jobs, NEW n \in Job, Distributes(j, j.key),
           UNCHANGED <<stored, bundle, msgs, syncs, entitled, abandoned>>,
           \A k \in Key \ {j.key} : reach'[k] = reach[k],
           Becomes(j, n), n.key = j.key, n.ver = j.ver, n.kind = j.kind, Owes(n)',
           Distributes(n, j.key) \/ (n.at = "through" /\ Distributed(j.key, j.ver)')
    PROVE  Chain'
<1>1. Keeps BY KeepsAll
<1>2. Keyed(n) BY DEF Distributes, Distributing, Keyed, Chain
<1>3. \A i \in jobs' : i \in jobs \/ i = n BY DEF Becomes
<1>4. Holds(n.key, n.ver) BY JobHolds
<1>5. \A k \in Key, v \in Version : Holds(k, v)' => Holds(k, v)
    <2> HIDE DEF Holds
    <2> QED BY <1>3, <1>4, NothingNew
<1> QED BY <1>1, <1>2, <1>5, DistributorSteps

\* A job that ends in the middle of its distribution has its key abandoned.
LEMMA CutOffChains ==
    ASSUME IInv, Chain, NEW j \in jobs, j.at \in Distributing, Ends(j), CutOff(j),
           UNCHANGED <<hub, client, syncs, entitled, reach>>
    PROVE  Chain'
<1>1. abandoned \subseteq abandoned' BY DEF CutOff
<1>2. Keeps BY <1>1 DEF Keeps, hub
<1>3. UNCHANGED <<stored, bundle, msgs>> BY DEF hub, client
<1>4. CASE j.kind = "topUp"
    <2>1. ~Becomes(j, j) BY DEF Ends, Becomes
    <2> QED BY <1>2, <1>3, <1>4, <2>1, AsideChains
<1>5. CASE j.kind # "topUp"
    <2>1. j.key # NoKey /\ Distributes(j, j.key) BY <1>5 DEF Chain, Keyed, Distributes
    <2>2. j.key \in abandoned' BY <1>5, <2>1 DEF CutOff
    <2>3. \A i \in jobs' : i \in jobs BY DEF Ends
    <2>4. \A k \in Key, v \in Version : Holds(k, v)' => Holds(k, v)
        <3> HIDE DEF Holds
        <3> QED BY <1>3, <2>3, NothingNew
    <2>5. j \in Job BY JobFields
    <2> QED BY <1>2, <2>1, <2>2, <2>4, <2>5, DistributorSteps
<1> QED BY <1>4, <1>5

LEMMA SetNewVersionChains ==
    ASSUME IInv, Chain, NEW j \in jobs, SetNewVersion(j)
    PROVE  Chain'
<1> DEFINE n == [j EXCEPT !.at = "versioned"]
<1>1. j \in Job /\ Keyed(j) BY JobFields DEF Chain
<1>2. n \in Job /\ n.at = "versioned" /\ n.key = j.key /\ n.ver = j.ver /\ n.kind = j.kind
    BY <1>1 DEF Job, Phase
<1>3. j.at = "stored" /\ Becomes(j, n)
      /\ UNCHANGED <<stored, bundle, msgs, syncs, entitled, reach, abandoned>>
    BY DEF SetNewVersion, hub, history
<1> HIDE DEF n
<1>4. Keeps BY <1>3, KeepsAll
<1>5. CASE j.kind = "topUp"
    <2>1. Keyed(n) /\ Holds(n.key, n.ver)
        BY <1>1, <1>2, <1>3, JobHolds DEF Keyed, Distributing
    <2> QED BY <1>2, <1>3, <1>4, <1>5, <2>1, AsideChains
<1>6. CASE j.kind # "topUp"
    <2>1. Distributes(j, j.key) /\ Distributes(n, j.key)
        BY <1>2, <1>3, <1>6 DEF Distributes, Distributing
    <2>2. Owes(n)' BY <1>2 DEF Owes
    <2> QED BY <1>2, <1>3, <2>1, <2>2, DistributorGoesOn
<1> QED BY <1>5, <1>6

\* The devices are read: the key is meant for these.
LEMMA FetchDevicesChains ==
    ASSUME IInv, Chain, NEW j \in jobs, FetchDevices(j)
    PROVE  Chain'
<1>1. j \in Job /\ Keyed(j) /\ j.at = "versioned" /\ j.key \in Key \cup {NoKey} /\ j.ver \in Version
    BY JobFields DEF Chain, FetchDevices
<1>2. j.key # NoKey BY <1>1 DEF Keyed, Distributing
<1>3. CASE j.user \notin members
    BY <1>1, <1>3, CutOffChains DEF FetchDevices, Distributing
<1>4. CASE j.user \in members /\ j.kind = "topUp"
    <2>0. Missing(j) \in SUBSET User BY Histories DEF Missing
    <2>1. PICK at \in {"through", "fetched"}, list \in SUBSET User :
              Becomes(j, [j EXCEPT !.at = at, !.list = list])
        BY <1>4, <2>0 DEF FetchDevices
    <2> DEFINE n == [j EXCEPT !.at = at, !.list = list]
    <2>2. n.at = at /\ n.key = j.key /\ n.ver = j.ver /\ n.kind = j.kind BY <1>1 DEF Job
    <2>3. Becomes(j, n) BY <2>1
    <2> HIDE DEF n
    <2>4. UNCHANGED <<stored, bundle, msgs, syncs, entitled, reach, abandoned>>
        BY <1>4 DEF FetchDevices, hub, client
    <2>5. Keeps BY <2>4, KeepsAll
    <2>6. Keyed(n) /\ Holds(n.key, n.ver) BY <1>2, <2>2, JobHolds DEF Keyed
    <2> QED BY <1>4, <2>2, <2>3, <2>4, <2>5, <2>6, AsideChains
<1>5. CASE j.user \in members /\ j.kind # "topUp"
    <2>1. PICK ds \in SUBSET User : ds = devices BY Histories
    <2>2. PICK at \in {"through", "fetched"} :
              /\ Becomes(j, [j EXCEPT !.at = at, !.list = ds])
              /\ at = "through" => ds = {}
        BY <1>5, <2>1 DEF FetchDevices, Missing
    <2> DEFINE n == [j EXCEPT !.at = at, !.list = ds]
    <2>3. n \in Job /\ n.at = at /\ n.key = j.key /\ n.ver = j.ver /\ n.kind = j.kind /\ n.list = ds
        BY <1>1 DEF Job, Phase
    <2>4. Becomes(j, n) BY <2>2
    <2> HIDE DEF n
    <2>5. UNCHANGED <<stored, bundle, msgs, syncs, entitled, abandoned>>
          /\ reach' = [reach EXCEPT ![j.key] = devices]
        BY <1>5 DEF FetchDevices, hub, client
    <2>6. reach'[j.key] = ds /\ \A k \in Key \ {j.key} : reach'[k] = reach[k]
        BY <1>1, <1>2, <2>1, <2>5, Histories
    <2>7. Owes(n)' BY <2>3, <2>6 DEF Owes
    <2>8. Distributes(j, j.key) BY <1>1, <1>5 DEF Distributes, Distributing
    <2>9. Distributes(n, j.key) \/ (n.at = "through" /\ Distributed(j.key, j.ver)')
        BY <1>5, <2>2, <2>3, <2>6 DEF Distributes, Distributing, Distributed
    <2> QED BY <2>3, <2>4, <2>5, <2>6, <2>7, <2>8, <2>9, DistributorGoesOn
<1> QED BY <1>3, <1>4, <1>5

LEMMA PostBundlesChains ==
    ASSUME IInv, Chain, NEW j \in jobs, PostBundles(j)
    PROVE  Chain'
<1>1. j \in Job /\ Keyed(j) /\ Owes(j) /\ j.at = "fetched" /\ j.key \in Key \cup {NoKey}
    BY JobFields DEF Chain, PostBundles
<1>2. j.key # NoKey BY <1>1 DEF Keyed, Distributing
<1>3. CASE j.user \notin members
    BY <1>1, <1>3, CutOffChains DEF PostBundles, Distributing
<1>4. CASE j.user \in members
    <2>1. PICK ms \in SUBSET User : ms = members BY Histories
    <2> DEFINE n == [j EXCEPT !.at = "posting", !.allowed = ms]
    <2>2. /\ n \in Job /\ n.at = "posting" /\ n.key = j.key /\ n.ver = j.ver /\ n.kind = j.kind
          /\ n.list = j.list
        BY <1>1 DEF Job, Phase
    <2>3. Becomes(j, n) /\ UNCHANGED <<stored, bundle, msgs, syncs, entitled, reach, abandoned>>
        BY <1>4, <2>1 DEF PostBundles, hub, client
    <2> HIDE DEF n
    <2>4. Keeps BY <2>3, KeepsAll
    <2>5. CASE j.kind = "topUp"
        <3>1. Keyed(n) /\ Holds(n.key, n.ver) BY <1>2, <2>2, JobHolds DEF Keyed
        <3> QED BY <2>2, <2>3, <2>4, <2>5, <3>1, AsideChains
    <2>6. CASE j.kind # "topUp"
        <3>1. Distributes(j, j.key) /\ Distributes(n, j.key)
            BY <1>1, <2>2, <2>6 DEF Distributes, Distributing
        <3>2. Owes(n)' BY <1>1, <2>2, <2>3 DEF Owes
        <3> QED BY <2>2, <2>3, <3>1, <3>2, DistributorGoesOn
    <2> QED BY <2>5, <2>6
<1> QED BY <1>3, <1>4

\* The row of one recipient is written; after the last one the key is distributed.
LEMMA StoreBundleChains ==
    ASSUME IInv, Chain, NEW j \in jobs, NEW r \in User, StoreBundle(j, r)
    PROVE  Chain'
<1>1. /\ j \in Job /\ Keyed(j) /\ Owes(j) /\ j.at = "posting" /\ j.key \in Key \cup {NoKey}
      /\ j.ver \in Version /\ j.list \in SUBSET User
    BY JobFields DEF Chain, StoreBundle
<1>2. j.key \in Key /\ j.key # NoKey BY <1>1 DEF Keyed, Distributing
<1>3. CASE r \notin j.allowed
    <2>1. Ends(j) /\ CutOff(j) /\ UNCHANGED <<hub, client, syncs, entitled, reach>>
        BY <1>3 DEF StoreBundle, hub
    <2> QED BY <1>1, <2>1, CutOffChains DEF Distributing
<1>4. CASE r \in j.allowed
    <2>1. PICK at \in {"through", "posting"} :
              /\ Becomes(j, [j EXCEPT !.list = j.list \ {r}, !.at = at])
              /\ at = "through" => j.list = {r}
        <3>1. CASE j.list = {r} BY <1>4, <3>1 DEF StoreBundle
        <3>2. CASE j.list # {r} BY <1>1, <1>4, <3>2 DEF StoreBundle
        <3> QED BY <3>1, <3>2
    <2> DEFINE n == [j EXCEPT !.list = j.list \ {r}, !.at = at]
    <2>2. /\ n \in Job /\ n.at = at /\ n.key = j.key /\ n.ver = j.ver /\ n.kind = j.kind
          /\ n.list = j.list \ {r}
        BY <1>1 DEF Job, Phase
    <2>3. Becomes(j, n) BY <2>1
    <2> HIDE DEF n
    <2>4. UNCHANGED <<stored, msgs, syncs, entitled, reach, abandoned>>
          /\ bundle' = [bundle EXCEPT ![r][j.ver] = j.key]
        BY <1>4 DEF StoreBundle, client
    <2>5. \A u \in User, v \in Version :
              bundle'[u][v] = IF u = r /\ v = j.ver THEN j.key ELSE bundle[u][v]
        BY <1>1, <2>4 DEF IInv, TypeOK
    <2>6. Keeps BY <1>2, <2>4, <2>5 DEF Keeps
    <2>7. Holds(j.key, j.ver) BY JobHolds
    <2>8. \A u \in User, v \in Version :
              bundle'[u][v] \in {bundle[u][v], NoKey} \/ Holds(bundle'[u][v], v)
        <3> HIDE DEF Holds
        <3> QED BY <2>5, <2>7
    <2>9. Keyed(n) BY <1>2, <2>2 DEF Keyed
    <2>10. CASE j.kind = "topUp"
        BY <2>2, <2>3, <2>4, <2>6, <2>7, <2>8, <2>9, <2>10, AsideChains
    <2>11. CASE j.kind # "topUp"
        <3>1. Distributes(j, j.key) BY <1>1, <2>11 DEF Distributes, Distributing
        <3>2. \A u \in reach[j.key] : bundle'[u][j.ver] # NoKey \/ u \in j.list \ {r}
            <4>1. reach[j.key] \subseteq User BY <1>2, Histories
            <4>2. \A u \in reach[j.key] : bundle[u][j.ver] # NoKey \/ u \in j.list
                BY <1>1, <2>11 DEF Owes
            <4> QED BY <1>1, <1>2, <2>5, <4>1, <4>2
        <3>3. Owes(n)' BY <2>2, <2>4, <3>2 DEF Owes
        <3>4. Distributes(n, j.key) \/ (n.at = "through" /\ Distributed(j.key, j.ver)')
            <4>1. CASE at = "posting" BY <2>2, <2>11, <4>1 DEF Distributes, Distributing
            <4>2. CASE at = "through" BY <2>1, <2>2, <2>4, <3>2, <4>2 DEF Distributed
            <4> QED BY <4>1, <4>2
        <3>5. \A i \in jobs' : i \in jobs \/ i = n BY <2>3 DEF Becomes
        <3>6. \A k \in Key, v \in Version : Holds(k, v)' => Holds(k, v)
            <4> HIDE DEF Holds
            <4> QED BY <2>2, <2>4, <2>7, <2>8, <3>5, NothingNew
        <3> QED BY <2>2, <2>3, <2>4, <2>6, <2>9, <3>1, <3>3, <3>4, <3>6, DistributorSteps
    <2> QED BY <2>10, <2>11
<1> QED BY <1>3, <1>4

\* What comes after a distribution: the message is sealed with a key its sender has
\* stored, and sent.
LEMMA FinishChains ==
    ASSUME IInv, Chain, NEW j \in jobs,
           Seal(j) \/ SendMessage(j) \/ ClearRotationNeeded(j) \/ EndTopUp(j)
    PROVE  Chain'
<1>1. j \in Job /\ j.user \in User /\ j.ver \in Version BY JobFields
<1>2. UNCHANGED <<stored, bundle, syncs, entitled, reach, abandoned>>
    BY DEF Seal, SendMessage, ClearRotationNeeded, EndTopUp, hub, client, history
<1>3. j.kind = "topUp" \/ j.at \notin Distributing
    BY DEF Seal, SendMessage, ClearRotationNeeded, EndTopUp, Distributing
<1>4. Keeps BY <1>2, KeepsAll
<1>5. CASE Seal(j)
    <2>1. PICK key : key = stored[j.user][j.ver] /\ key # NoKey
                     /\ Becomes(j, [j EXCEPT !.at = "sealed", !.key = key])
        BY <1>5 DEF Seal
    <2> DEFINE n == [j EXCEPT !.at = "sealed", !.key = key]
    <2>2. n.at = "sealed" /\ n.key = key /\ n.ver = j.ver BY <1>1 DEF Job
    <2>3. Becomes(j, n) BY <2>1
    <2> HIDE DEF n
    <2>4. Keyed(n) /\ n.at \notin Distributing BY <2>1, <2>2 DEF Keyed, Distributing
    <2>5. Holds(n.key, n.ver) BY <1>1, <2>1, <2>2 DEF Holds
    <2>6. UNCHANGED msgs BY <1>5 DEF Seal, hub
    <2> QED BY <1>2, <1>3, <1>4, <2>3, <2>4, <2>5, <2>6, AsideChains
<1>6. CASE SendMessage(j) \/ ClearRotationNeeded(j) \/ EndTopUp(j)
    <2>1. Ends(j) BY <1>6 DEF SendMessage, ClearRotationNeeded, EndTopUp
    <2>2. ~Becomes(j, j) BY <2>1 DEF Ends, Becomes
    <2>3. \A m \in msgs' : m \in msgs \/ (m.key = j.key /\ m.ver = j.ver)
        BY <1>6 DEF SendMessage, ClearRotationNeeded, EndTopUp, hub
    <2>4. \A m \in msgs' : m \in msgs \/ Holds(m.key, m.ver) BY <2>3, JobHolds
    <2> QED BY <1>2, <1>3, <1>4, <2>1, <2>2, <2>4, AsideChains
<1> QED BY <1>5, <1>6

LEMMA AbandonChains ==
    ASSUME IInv, Chain, NEW j \in jobs, Abandon(j)
    PROVE  Chain'
<1>1. CASE j.at \in Distributing
    BY <1>1, CutOffChains DEF Abandon, Distributing
<1>2. CASE j.at \notin Distributing
    <2>1. Ends(j) /\ UNCHANGED <<hub, client, syncs, entitled, reach, abandoned>>
        BY <1>2 DEF Abandon, Distributing
    <2>2. Keeps BY <2>1, KeepsAll DEF hub
    <2>3. ~Becomes(j, j) BY <2>1 DEF Ends, Becomes
    <2> QED BY <1>2, <2>1, <2>2, <2>3, AsideChains DEF hub, client
<1> QED BY <1>1, <1>2

\* A synchronisation carries keys from the bundles to the store.
LEMMA SyncChains ==
    ASSUME IInv, Chain, UNCHANGED <<hub, jobs, entitled, reach, abandoned>>,
           \A u \in User, v \in Version :
               stored'[u][v] \in {stored[u][v], NoKey} \/ Holds(stored'[u][v], v),
           \A y \in syncs' : \/ y \in syncs
                             \/ /\ Fetches(y) => Holds(y.key, y.ver)
                                /\ \A p \in y.todo : Holds(p[2], p[1])
    PROVE  Chain'
<1>1. Keeps BY KeepsAll DEF hub
<1>2. \A k \in Key, v \in Version : Holds(k, v)' => Holds(k, v)
    <2> HIDE DEF Holds
    <2> QED BY NothingNew DEF hub
<1> QED BY <1>1, <1>2, Beside

LEMMA SyncHolds ==
    ASSUME IInv, NEW y \in syncs
    PROVE  /\ Fetches(y) => Holds(y.key, y.ver)
           /\ \A p \in y.todo : Holds(p[2], p[1])
<1>1. Fetches(y) => Holds(y.key, y.ver) BY DEF Holds
<1>2. ASSUME NEW p \in y.todo PROVE Holds(p[2], p[1])
    <2>1. p = <<p[1], p[2]>> BY SyncFields
    <2> QED BY <2>1 DEF Holds
<1> QED BY <1>1, <1>2

LEMMA StartSyncChains ==
    ASSUME IInv, Chain, NEW u \in User, NEW k \in Slot, StartSync(u, k)
    PROVE  Chain'
<1>1. PICK todo : todo = {<<v, bundle[u][v]>> : v \in {w \in Version : bundle[u][w] # NoKey}}
    OBVIOUS
<1>2. PICK n : n = [user |-> u, slot |-> k, at |-> "loop", ver |-> 0, key |-> NoKey, todo |-> todo]
    OBVIOUS
<1>3. syncs' = syncs \cup {n} /\ UNCHANGED <<hub, client, jobs, entitled, reach, abandoned>>
    BY <1>1, <1>2 DEF StartSync, history
<1>4. \A p \in todo : Holds(p[2], p[1]) BY <1>1 DEF Holds
<1>5. ~Fetches(n) /\ n.todo = todo BY <1>2 DEF Fetches
<1>6. \A y \in syncs' : \/ y \in syncs
                        \/ /\ Fetches(y) => Holds(y.key, y.ver)
                           /\ \A p \in y.todo : Holds(p[2], p[1])
    BY <1>3, <1>4, <1>5
<1> HIDE DEF Holds
<1> QED BY <1>3, <1>6, SyncChains DEF client

LEMMA SyncStepChains ==
    ASSUME IInv, Chain, NEW y \in syncs, SyncStep(y)
    PROVE  Chain'
<1>1. y \in Sync /\ SyncKnows(y) /\ y.user \in User BY SyncFields
<1>2. (Fetches(y) => Holds(y.key, y.ver)) /\ \A p \in y.todo : Holds(p[2], p[1])
    BY SyncHolds
<1>3. ASSUME NEW n, Continues(y, n), UNCHANGED <<hub, stored, jobs, entitled, reach, abandoned>>,
             Fetches(n) => Holds(n.key, n.ver), \A p \in n.todo : Holds(p[2], p[1])
      PROVE  Chain'
    <2>1. \A x \in syncs' : x \in syncs \/ x = n BY <1>3 DEF Continues
    <2> HIDE DEF Holds
    <2> QED BY <1>3, <2>1, SyncChains
<1>4. ASSUME NEW v \in Version, NEW k \in Key, SyncCheck(y, v, k) PROVE Chain'
    <2> DEFINE left == y.todo \ {<<v, k>>}
               skip == [y EXCEPT !.todo = left]
               take == [y EXCEPT !.todo = left, !.at = "missing", !.ver = v, !.key = k]
    <2>1. skip.at = y.at /\ skip.todo = left BY <1>1 DEF Sync
    <2>2. take.todo = left /\ take.ver = v /\ take.key = k BY <1>1 DEF Sync
    <2>3. y.at = "loop" /\ <<v, k>> \in y.todo /\ (Continues(y, skip) \/ Continues(y, take))
          /\ UNCHANGED <<hub, stored, jobs, entitled, reach, abandoned>>
        BY <1>4 DEF SyncCheck, client
    <2>4. Holds(k, v)
        <3>1. <<v, k>>[2] = k /\ <<v, k>>[1] = v OBVIOUS
        <3> HIDE DEF Holds
        <3> QED BY <1>2, <2>3, <3>1
    <2>5. \A p \in left : Holds(p[2], p[1]) BY <1>2
    <2> HIDE DEF skip, take, left, Holds
    <2> QED BY <1>3, <2>1, <2>2, <2>3, <2>4, <2>5 DEF Fetches
<1>5. CASE SyncStore(y)
    <2> DEFINE n == [y EXCEPT !.at = "stored"]
    <2>1. n.at = "stored" /\ n.key = y.key /\ n.ver = y.ver /\ n.todo = y.todo BY <1>1 DEF Sync
    <2>2. y.at = "missing" /\ Continues(y, n) /\ UNCHANGED <<hub, jobs, entitled, reach, abandoned>>
          /\ stored' = [stored EXCEPT ![y.user][y.ver] = y.key]
        BY <1>5 DEF SyncStore, history
    <2> HIDE DEF n
    <2>3. Fetches(y) BY <2>2 DEF Fetches
    <2>4. \A u \in User, v \in Version :
              stored'[u][v] = stored[u][v] \/ (stored'[u][v] = y.key /\ v = y.ver)
        BY <1>1, <2>2 DEF IInv, TypeOK
    <2>5. \A x \in syncs' : x \in syncs \/ x = n BY <2>2 DEF Continues
    <2> HIDE DEF Holds
    <2> QED BY <1>2, <2>1, <2>2, <2>3, <2>4, <2>5, SyncChains
<1>6. CASE SyncCompare(y)
    <2>1. PICK at \in {"lower", "loop"} : Continues(y, [y EXCEPT !.at = at])
        BY <1>6 DEF SyncCompare
    <2> DEFINE n == [y EXCEPT !.at = at]
    <2>2. n.key = y.key /\ n.ver = y.ver /\ n.todo = y.todo BY <1>1 DEF Sync
    <2>3. Continues(y, n) BY <2>1
    <2>4. Fetches(y) /\ UNCHANGED <<hub, stored, jobs, entitled, reach, abandoned>>
        BY <1>6 DEF SyncCompare, Fetches, client, history
    <2> HIDE DEF n, Holds
    <2> QED BY <1>2, <1>3, <2>2, <2>3, <2>4
<1>7. CASE SyncRaise(y)
    <2> DEFINE n == [y EXCEPT !.at = "loop"]
    <2>1. n.key = y.key /\ n.ver = y.ver /\ n.todo = y.todo BY <1>1 DEF Sync
    <2>2. Fetches(y) /\ Continues(y, n) /\ UNCHANGED <<hub, stored, jobs, entitled, reach, abandoned>>
        BY <1>7 DEF SyncRaise, Fetches, history
    <2> HIDE DEF n, Holds
    <2> QED BY <1>2, <1>3, <2>1, <2>2
<1>8. CASE EndSync(y)
    <2>1. \A x \in syncs' : x \in syncs BY <1>8 DEF EndSync
    <2> HIDE DEF Holds
    <2> QED BY <1>8, <2>1, SyncChains DEF EndSync, client, history
<1> QED BY <1>4, <1>5, <1>6, <1>7, <1>8 DEF SyncStep

-----------------------------------------------------------------------------
LEMMA ChainInit == Init => Chain
<1> SUFFICES ASSUME Init PROVE Chain OBVIOUS
<1>1. \A k \in Key, v \in Version : ~Holds(k, v)
    BY NoKeyAssumption DEF Init, Holds
<1> QED BY <1>1 DEF Init, Chain, OneVersion, Born, OneDistributor, Complete

LEMMA ChainNext == IInv /\ Chain /\ [Next]_vars => Chain'
<1> SUFFICES ASSUME IInv, Chain, [Next]_vars PROVE Chain' OBVIOUS
<1>1. ASSUME NEW u \in User, UserStep(u) PROVE Chain'
    BY <1>1, HubStepChains, StartsChain, StartSyncChains DEF UserStep
<1>2. ASSUME NEW j \in jobs, JobStep(j) PROVE Chain'
    BY <1>2, StoreNewKeyChains, SetNewVersionChains, FetchDevicesChains, PostBundlesChains,
       StoreBundleChains, FinishChains, AbandonChains
    DEF JobStep
<1>3. ASSUME NEW y \in syncs, SyncStep(y) PROVE Chain' BY <1>3, SyncStepChains
<1>4. CASE UNCHANGED vars
    <2>1. UNCHANGED <<hub, jobs, stored, syncs, entitled, reach, abandoned>>
        BY <1>4 DEF vars, client, history
    <2> HIDE DEF Holds
    <2> QED BY <2>1, SyncChains
<1> QED BY <1>1, <1>2, <1>3, <1>4 DEF Next

\* A message is sent under a key that was distributed to all devices it was meant for,
\* unless its first distribution failed or is still under way: also when another client
\* than the one that generated the key sends it, and whoever joins, rotates, tops up
\* and synchronises meanwhile.
THEOREM SentKeysArrive == Spec => []SentKeysReachable
<1>1. IInv /\ Chain => SentKeysReachable
    <2> SUFFICES ASSUME IInv, Chain, NEW m \in msgs
                 PROVE  \/ m.key \in abandoned
                        \/ \E j \in jobs : Distributes(j, m.key)
                        \/ Distributed(m.key, m.ver)
        BY DEF SentKeysReachable, Distributes, Distributing
    <2>1. m.key \in Key /\ m.ver \in Version BY DEF IInv, TypeOK, Message
    <2>2. Holds(m.key, m.ver) BY DEF Holds
    <2> QED BY <2>1, <2>2 DEF Chain, Complete
<1>2. Spec => []Chain
    <2>1. Spec => []IInv BY Invariant
    <2> QED BY <2>1, ChainInit, ChainNext, PTL DEF Spec
<1> QED BY <1>1, <1>2, Invariant, PTL

-----------------------------------------------------------------------------
(***************************************************************************)
(* DeviceKeys: the keys and the id of a device belong together.            *)
(***************************************************************************)

\* While nothing derived from a phrase is stored, the guard has let tabs through
\* for the older version's pair only.
LetIn(t) ==
    /\ page[t].seen \subseteq {"legacy"}
    /\ page[t].seen # {} \/ page[t].at = "app" \/ job[t].at # "none" => Kept("legacy")

\* A clean store: nobody writes, and it has one phrase's keys, or no keys but the
\* older version's.
Plain ==
    /\ Untouched /\ db["legacy"] \in {None, Old} /\ db["id"] \notin Phrase
    /\ \A t \in Tab : LetIn(t)

CleanStore ==
    clean => (\A t \in Tab : ~Pending(t)) /\ (Plain \/ \E p \in Phrase : KeepsAllOf(p))

\* The keys and the id of a manager belong together.
Fits(r) ==
    /\ r.private = r.spki /\ r.public = r.spki
    /\ r.id \in Phrase \/ r.spki \in Phrase => r.id = r.spki

\* What a calm job has read, from the keys of phrase p,
ReadFrom(r, p) ==
    /\ r.at \in {"id", "load", "register"}
    /\ IF r.at = "id" THEN r.next = 1 ELSE r.id = p
    /\ r.at = "load" => /\ r.next > 1 => r.private = p
                        /\ r.next > 2 => r.public = p
                        /\ r.next > 3 => r.spki = p
    /\ r.at = "register" => r.private = p /\ r.public = p /\ r.spki = p

\* or from a store without them.
ReadNothing(r) ==
    /\ r.at \in {"id", "newid", "load", "legacy", "register"}
    /\ r.id \notin Phrase
    /\ r.at # "register" => r.private = None
    /\ r.at = "register" => r.private = Old /\ r.public = Old /\ r.spki = Old

Sound(r) ==
    /\ r.at = "register" => Fits(r)
    /\ Untouched => ReadNothing(r)
    /\ \A p \in Phrase : KeepsAllOf(p) => ReadFrom(r, p)

CalmJobs == \A t \in Tab : job[t].calm => clean /\ Sound(job[t])

\* A calm set-up is the only one, and what it has put is there.
CalmSaves ==
    \A t \in Tab : save[t].calm =>
        /\ ~clean /\ page[t].at = "saving" /\ save[t].phrase \in Phrase
        /\ \A n \in 1..5 : n < save[t].next => db[Order[n]] = Content(save[t].phrase, n)
        /\ \A o \in Tab \ {t} : ~Pending(o) /\ ~save[o].calm

Fitting == CleanStore /\ CalmJobs /\ CalmSaves

DevicesInv ==
    /\ DevicesTypeOK /\ Fitting
    /\ ManagersAreWhole /\ RowsFitTheirDevices

-----------------------------------------------------------------------------
(* Types                                                                   *)

LEMMA EntriesInOrder ==
  /\ \A n \in 1..5 : Order[n] \in Entry
  /\ \A m, n \in 1..5 : Order[m] = Order[n] => m = n
  /\ \A n \in 1..3 : Looked[n] \in Entry
<1>1. \A n \in 1..5 : n = 1 \/ n = 2 \/ n = 3 \/ n = 4 \/ n = 5 OBVIOUS
<1>2. \A n \in 1..3 : n = 1 \/ n = 2 \/ n = 3 OBVIOUS
<1> QED BY <1>1, <1>2 DEF Order, Looked, Entry

LEMMA ContentTyped == \A v \in Value, n \in 1..5 : Content(v, n) \in Value
BY DEF Content, Value

LEMMA RecordsTyped ==
  /\ \A r \in {"closed", "check", "keys", "app"} : At(r) \in Page
  /\ NoPage \in Page /\ NoSave \in Save /\ NoJob \in Creation /\ NoManager \in Manager
BY DEF Page, Save, Creation, Manager, At, NoPage, NoSave, NoJob, NoManager, Value

LEMMA UpdatesTyped ==
  /\ \A r \in Page, n \in 1..4, s \in SUBSET Entry : [r EXCEPT !.next = n, !.seen = s] \in Page
  /\ \A r \in Save, n \in 1..6, c \in BOOLEAN : [r EXCEPT !.next = n, !.calm = c] \in Save
  /\ \A r \in Creation, n \in 1..5 : [r EXCEPT !.next = n] \in Creation
  /\ \A r \in Creation, v \in Value : [WithPair(r, v) EXCEPT !.at = "store", !.next = 1] \in Creation
<1>1. \A r \in Page, n \in 1..4, s \in SUBSET Entry : [r EXCEPT !.next = n, !.seen = s] \in Page
  BY DEF Page
<1>2. \A r \in Save, n \in 1..6, c \in BOOLEAN : [r EXCEPT !.next = n, !.calm = c] \in Save
  BY DEF Save
<1>3. \A r \in Creation, n \in 1..5 : [r EXCEPT !.next = n] \in Creation
  BY DEF Creation
<1>4. \A r \in Creation, v \in Value : [WithPair(r, v) EXCEPT !.at = "store", !.next = 1] \in Creation
  <2>1. \A r \in Creation, v \in Value : WithPair(r, v) \in Creation BY DEF Creation, WithPair
  <2>2. \A r \in Creation, n \in 1..5 : [r EXCEPT !.at = "store", !.next = n] \in Creation BY DEF Creation
  <2>3. 1 \in 1..5 OBVIOUS
  <2> QED BY <2>1, <2>2, <2>3
<1> QED BY <1>1, <1>2, <1>3, <1>4

LEMMA TurnsTyped == DevicesTypeOK /\ Turn => turns' \in 0..MaxTurns
BY TurnsAssumption DEF DevicesTypeOK, Turn

LEMMA GuardsTyped ==
  ASSUME DevicesTypeOK, NEW t \in Tab, Guards(t)
  PROVE  DevicesTypeOK'
<1> USE RecordsTyped DEF DevicesTypeOK
<1>1. CASE Opens(t)
  BY <1>1 DEF Opens, store
<1>2. CASE OpensKeys(t)
  <2>1. [page[t] EXCEPT !.at = "keys"] \in Page BY DEF Page
  <2>2. [job[t] EXCEPT !.heeded = FALSE] \in Creation BY DEF Creation
  <2> QED BY <1>2, <2>1, <2>2 DEF OpensKeys, store
<1>3. CASE Looks(t)
  <2> DEFINE e == Looked[page[t].next]
  <2>1. page[t].next \in 1..3 BY <1>3 DEF Looks, Page
  <2>2. e \in Entry BY <2>1, EntriesInOrder
  <2>3. [page[t] EXCEPT !.next = @ + 1, !.seen = IF Kept(e) THEN @ \cup {e} ELSE @] \in Page
    <3>1. page[t] \in Page /\ {e} \subseteq Entry BY <2>2
    <3> HIDE DEF e
    <3>5. page[t].next + 1 \in 1..4 BY <2>1
    <3>2. page[t].seen \cup {e} \in SUBSET Entry BY <3>1 DEF Page
    <3>3. CASE Kept(e)
      <4>1. [page[t] EXCEPT !.next = page[t].next + 1, !.seen = page[t].seen \cup {e}] \in Page
        BY <3>1, <3>2, <3>5, UpdatesTyped
      <4> QED BY <3>3, <4>1
    <3>4. CASE ~Kept(e)
      <4>1. [page[t] EXCEPT !.next = page[t].next + 1, !.seen = page[t].seen] \in Page
        <5>1. page[t].seen \in SUBSET Entry BY <3>1 DEF Page
        <5> QED BY <3>1, <5>1, <3>5, UpdatesTyped
      <4> QED BY <3>4, <4>1
    <3> QED BY <3>3, <3>4
  <2> QED BY <1>3, <2>3 DEF Looks, store
<1>4. CASE Decides(t)
  BY <1>4 DEF Decides, store
<1>5. CASE LookFails(t)
  BY <1>5, TurnsTyped DEF LookFails
<1>6. CASE Closes(t)
  BY <1>6 DEF Closes, store
<1> QED BY <1>1, <1>2, <1>3, <1>4, <1>5, <1>6 DEF Guards

LEMMA SavesTyped ==
  ASSUME DevicesTypeOK, NEW t \in Tab, NEW p \in Phrase, Saves(t, p)
  PROVE  DevicesTypeOK'
<1> USE RecordsTyped DEF DevicesTypeOK
<1> DEFINE calm == \A q \in Tab \ {t} : ~Pending(q)
<1>1. [page[t] EXCEPT !.at = "saving"] \in Page BY DEF Page
<1>2. [phrase |-> p, next |-> 1, calm |-> calm] \in Save
  <2> HIDE DEF calm
  <2>1. calm \in BOOLEAN BY DEF calm
  <2> QED BY <2>1 DEF Save
<1>3. \A o \in Tab : [save[o] EXCEPT !.calm = FALSE] \in Save BY DEF Save
<1>4. \A o \in Tab : [job[o] EXCEPT !.calm = FALSE] \in Creation BY DEF Creation
<1>5. page' \in [Tab -> Page] BY <1>1 DEF Saves
<1>6. save' \in [Tab -> Save]
  <2> HIDE DEF calm
  <2>1. save' = [o \in Tab |-> IF o = t THEN [phrase |-> p, next |-> 1, calm |-> calm]
                               ELSE [save[o] EXCEPT !.calm = FALSE]]
    BY DEF Saves, calm
  <2> QED BY <2>1, <1>2, <1>3
<1>7. job' \in [Tab -> Creation] BY <1>4 DEF Saves
<1>8. turns' \in 0..MaxTurns BY TurnsTyped DEF Saves
<1>9. made' \subseteq Value BY DEF Saves, Value
<1> QED BY <1>5, <1>6, <1>7, <1>8, <1>9 DEF Saves

LEMMA SetsUpTyped ==
  ASSUME DevicesTypeOK, NEW t \in Tab, SetsUp(t)
  PROVE  DevicesTypeOK'
<1> USE RecordsTyped DEF DevicesTypeOK
<1>1. CASE Creates(t) \/ Imports(t)
  BY <1>1, SavesTyped DEF Creates, Imports
<1>2. CASE Puts(t)
  <2> DEFINE n == save[t].next
  <2>1. n \in 1..5 /\ save[t].phrase \in Value BY <1>2 DEF Puts, Pending, Save, Value
  <2>2. Order[n] \in Entry /\ Content(save[t].phrase, n) \in Value
    BY <2>1, EntriesInOrder, ContentTyped
  <2>3. [save[t] EXCEPT !.next = n + 1] \in Save BY <2>1 DEF Save
  <2> QED BY <1>2, <2>2, <2>3 DEF Puts
<1>3. CASE PutFails(t)
  <2>1. save[t].next \in 1..5 BY <1>3 DEF PutFails, Pending, Save
  <2>2. [save[t] EXCEPT !.next = @ + 1, !.calm = FALSE] \in Save
    <3>1. save[t] \in Save OBVIOUS
    <3>2. save[t].next + 1 \in 1..6 BY <2>1
    <3> QED BY <3>1, <3>2, UpdatesTyped
  <2>3. [page[t] EXCEPT !.at = IF @ = "saving" THEN "keys" ELSE @] \in Page BY DEF Page
  <2> QED BY <1>3, <2>2, <2>3, TurnsTyped DEF PutFails
<1>4. CASE Saved(t)
  <2>1. save[t].calm \in BOOLEAN BY DEF Save
  <2> QED BY <1>4, <2>1 DEF Saved, store
<1> QED BY <1>1, <1>2, <1>3, <1>4 DEF SetsUp

LEMMA WritesTyped ==
  ASSUME DevicesTypeOK, NEW t \in Tab, NEW r \in Creation, Writes(t, r)
  PROVE  save' \in [Tab -> Save] /\ job' \in [Tab -> Creation] /\ clean' \in BOOLEAN
<1> USE RecordsTyped DEF DevicesTypeOK
<1>1. \A o \in Tab : [save[o] EXCEPT !.calm = FALSE] \in Save BY DEF Save
<1>2. \A o \in Tab : [IF o = t THEN r ELSE job[o] EXCEPT !.calm = FALSE] \in Creation
  BY DEF Creation
<1>3. CASE job[t].calm
  BY <1>3 DEF Writes
<1>4. CASE ~job[t].calm
  <2>1. save' \in [Tab -> Save] BY <1>1, <1>4 DEF Writes
  <2>2. job' \in [Tab -> Creation] BY <1>2, <1>4 DEF Writes
  <2> QED BY <1>4, <2>1, <2>2 DEF Writes
<1> QED BY <1>3, <1>4

LEMMA ManagesTyped ==
  ASSUME DevicesTypeOK, NEW t \in Tab, Manages(t)
  PROVE  DevicesTypeOK'
<1> USE RecordsTyped DEF DevicesTypeOK
<1>1. CASE Connects(t)
  <2>1. [NoJob EXCEPT !.at = "id", !.heeded = TRUE, !.calm = clean] \in Creation
    BY DEF NoJob, Creation
  <2> QED BY <1>1, <2>1, TurnsTyped DEF Connects
<1>2. CASE GetsId(t)
  <2>1. db["id"] \in Value BY DEF Entry
  <2>2. [job[t] EXCEPT !.id = db["id"], !.at = IF Kept("id") THEN "load" ELSE "newid"] \in Creation
    BY <2>1 DEF Creation
  <2> QED BY <1>2, <2>2 DEF GetsId, store
<1>3. CASE PutsId(t)
  <2>1. PICK r \in Random \ made : db' = [db EXCEPT !["id"] = r] /\ made' = made \cup {r}
                                   /\ Writes(t, [job[t] EXCEPT !.id = r, !.at = "load"])
    BY <1>3 DEF PutsId
  <2>2. r \in Value /\ [job[t] EXCEPT !.id = r, !.at = "load"] \in Creation BY DEF Creation, Value
  <2> QED BY <1>3, <2>1, <2>2, WritesTyped DEF PutsId
<1>4. CASE Loads(t)
  <2>1. job[t].next \in 1..3 BY <1>4 DEF Loads, Creation
  <2>2. db["private"] \in Value /\ db["public"] \in Value /\ db["spki"] \in Value BY DEF Entry
  <2> DEFINE r == [job[t] EXCEPT !.next = @ + 1]
  <2>a. r \in Creation BY <2>1 DEF Creation
  <2>3. \A v \in Value : /\ [r EXCEPT !.private = v] \in Creation
                         /\ [r EXCEPT !.public = v] \in Creation
                         /\ [r EXCEPT !.spki = v] \in Creation
    <3> HIDE DEF r
    <3> QED BY <2>a DEF Creation
  <2>4. job[t].next = 1 \/ job[t].next = 2 \/ job[t].next = 3 BY <2>1
  <2>5. job' \in [Tab -> Creation]
    <3>1. CASE job[t].next = 1
      BY <1>4, <2>2, <2>3, <3>1 DEF Loads
    <3>2. CASE job[t].next = 2
      BY <1>4, <2>2, <2>3, <3>2 DEF Loads
    <3>3. CASE job[t].next = 3
      BY <1>4, <2>2, <2>3, <3>3 DEF Loads
    <3> QED BY <2>4, <3>1, <3>2, <3>3
  <2> QED BY <1>4, <2>5 DEF Loads, store
<1>5. CASE Loaded(t)
  <2>1. \A a \in {"legacy", "register"} : [job[t] EXCEPT !.at = a] \in Creation BY DEF Creation
  <2> QED BY <1>5, <2>1 DEF Loaded, store
<1>6. CASE TakesLegacy(t)
  <2>1. db["legacy"] \in Value BY DEF Entry
  <2>2. [WithPair(job[t], db["legacy"]) EXCEPT !.at = "register"] \in Creation
    BY <2>1 DEF WithPair, Creation
  <2> QED BY <1>6, <2>2 DEF TakesLegacy, store
<1>7. CASE Generates(t)
  <2>1. PICK r \in Random \ made :
            /\ job' = [job EXCEPT ![t] = [WithPair(@, r) EXCEPT !.at = "store", !.next = 1]]
            /\ made' = made \cup {r}
    BY <1>7 DEF Generates
  <2>2. r \in Value BY DEF Value
  <2>3. [WithPair(job[t], r) EXCEPT !.at = "store", !.next = 1] \in Creation
    <3>1. job[t] \in Creation OBVIOUS
    <3> QED BY <2>2, <3>1, UpdatesTyped
  <2> QED BY <1>7, <2>1, <2>2, <2>3 DEF Generates
<1>8. CASE Stores(t)
  <2> DEFINE n == job[t].next
             r == [job[t] EXCEPT !.next = n + 1]
             q == [r EXCEPT !.at = "spoiled"]
  <2>a. job[t] \in Creation OBVIOUS
  <2>1. n \in 1..4 /\ job[t].private \in Value BY <1>8, <2>a DEF Stores, Creation
  <2>2. Order[n] \in Entry /\ Content(job[t].private, n) \in Value
    BY <2>1, EntriesInOrder, ContentTyped
  <2>c. n + 1 \in 1..5 BY <2>1
  <2>b. r \in Creation BY <2>a, <2>c, UpdatesTyped
  <2>3. r \in Creation /\ q \in Creation
    <3> HIDE DEF r
    <3> QED BY <2>b DEF Creation
  <2> HIDE DEF r, q
  <2>4. Writes(t, r) \/ Writes(t, q) BY <1>8 DEF Stores, r, q
  <2>5. db' \in [Entry -> Value] BY <1>8, <2>2 DEF Stores
  <2>6. turns' \in 0..MaxTurns BY <1>8, TurnsTyped DEF Stores
  <2> QED BY <1>8, <2>3, <2>4, <2>5, <2>6, WritesTyped DEF Stores
<1>9. CASE Stored(t)
  <2>1. [job[t] EXCEPT !.at = "register"] \in Creation BY DEF Creation
  <2> QED BY <1>9, <2>1 DEF Stored, store
<1>10. CASE JobFails(t)
  BY <1>10, TurnsTyped DEF JobFails
<1>11. CASE Registers(t)
  <2>1. job[t] \in Creation /\ ManagerOf(job[t]) \in Manager
    BY DEF ManagerOf, Creation, Manager
  <2>2. job[t].id \in Value /\ job[t].spki \in Value BY <2>1 DEF Creation
  <2> QED BY <1>11, <2>1, <2>2 DEF Registers, Row, store
<1>12. CASE RegistersWithHub(t)
  <2>1. manager[t].id \in Value /\ manager[t].spki \in Value BY DEF Manager
  <2> QED BY <1>12, <2>1 DEF RegistersWithHub, Row, store
<1> QED BY <1>1, <1>2, <1>3, <1>4, <1>5, <1>6, <1>7, <1>8, <1>9, <1>10, <1>11, <1>12 DEF Manages
-----------------------------------------------------------------------------
(* The store and those that write to it                                    *)

LEMMA KeepsAllOfIs ==
  ASSUME NEW p
  PROVE  KeepsAllOf(p) <=> /\ db["private"] = p /\ db["public"] = p /\ db["spki"] = p
                         /\ db["legacy"] = None /\ db["id"] = p
<1>1. ASSUME KeepsAllOf(p)
      PROVE  /\ db["private"] = p /\ db["public"] = p /\ db["spki"] = p
             /\ db["legacy"] = None /\ db["id"] = p
  <2>1. 1 \in 1..5 /\ 2 \in 1..5 /\ 3 \in 1..5 /\ 4 \in 1..5 /\ 5 \in 1..5 OBVIOUS
  <2>2. /\ db[Order[1]] = Content(p, 1) /\ db[Order[2]] = Content(p, 2)
        /\ db[Order[3]] = Content(p, 3) /\ db[Order[4]] = Content(p, 4)
        /\ db[Order[5]] = Content(p, 5)
    BY <1>1, <2>1 DEF KeepsAllOf
  <2> QED BY <2>2 DEF Order, Content
<1>2. ASSUME db["private"] = p, db["public"] = p, db["spki"] = p,
             db["legacy"] = None, db["id"] = p, NEW n \in 1..5
      PROVE  db[Order[n]] = Content(p, n)
  <2>1. n = 1 \/ n = 2 \/ n = 3 \/ n = 4 \/ n = 5 OBVIOUS
  <2> QED BY <1>2, <2>1 DEF Order, Content
<1> QED BY <1>1, <1>2 DEF KeepsAllOf

LEMMA PhrasesAreSomething == \A p \in Phrase : p # None /\ p # Old /\ p \notin Random
BY PhraseAssumption

LEMMA OneOrTheOther ==
  /\ \A p \in Phrase : KeepsAllOf(p) => ~Untouched
  /\ \A p, q \in Phrase : KeepsAllOf(p) /\ KeepsAllOf(q) => p = q
BY KeepsAllOfIs, PhrasesAreSomething DEF Untouched

\* With nobody calm there is nothing to show.
LEMMA Uncalm ==
  ASSUME clean' = FALSE, \A t \in Tab : job'[t].calm = FALSE /\ save'[t].calm = FALSE
  PROVE  Fitting'
BY DEF Fitting, CleanStore, CalmJobs, CalmSaves

\* A step of the guard.
LEMMA PageStep ==
  ASSUME DevicesTypeOK, Fitting, NEW t \in Tab, NEW g,
         page' = [page EXCEPT ![t] = g], page[t].at # "saving",
         UNCHANGED <<db, save, clean>>,
         \A o \in Tab : /\ job'[o].at = job[o].at /\ job'[o].calm = job[o].calm
                        /\ Sound(job[o]) => Sound(job'[o]),
         Plain => /\ g.seen \subseteq {"legacy"}
                  /\ g.seen # {} \/ g.at = "app" => Kept("legacy")
  PROVE  Fitting'
<1>1. CleanStore'
  <2> SUFFICES ASSUME clean'
               PROVE  (\A o \in Tab : ~Pending(o)') /\ (Plain' \/ \E p \in Phrase : KeepsAllOf(p)')
    BY DEF CleanStore
  <2>1. clean /\ (\A o \in Tab : ~Pending(o)) /\ (Plain \/ \E p \in Phrase : KeepsAllOf(p))
    BY DEF Fitting, CleanStore
  <2>2. \A o \in Tab : ~Pending(o)' BY <2>1 DEF Pending
  <2>3. ASSUME NEW p \in Phrase, KeepsAllOf(p) PROVE KeepsAllOf(p)' BY <2>3 DEF KeepsAllOf
  <2>4. ASSUME Plain PROVE Plain'
    <3>1. Untouched' /\ db'["legacy"] \in {None, Old} /\ db'["id"] \notin Phrase
      BY <2>4 DEF Plain, Untouched
    <3>2. \A o \in Tab : LetIn(o)'
      <4> TAKE o \in Tab
      <4>1. LetIn(o) BY <2>4 DEF Plain
      <4>2. CASE o = t
        <5>1. page'[o] = g BY <4>2 DEF DevicesTypeOK
        <5> QED BY <4>1, <4>2, <5>1, <2>4 DEF LetIn, Kept
      <4>3. CASE o # t
        <5>1. page'[o] = page[o] BY <4>3 DEF DevicesTypeOK
        <5> QED BY <4>1, <5>1 DEF LetIn, Kept
      <4> QED BY <4>2, <4>3
    <3> QED BY <3>1, <3>2 DEF Plain
  <2> QED BY <2>1, <2>2, <2>3, <2>4
<1>2. CalmJobs'
  <2>1. \A o \in Tab : Sound(job'[o]) => Sound(job[o])'
    BY DEF Sound, Untouched, KeepsAllOf
  <2> QED BY <2>1 DEF Fitting, CalmJobs
<1>3. CalmSaves'
  <2> SUFFICES ASSUME NEW o \in Tab, save'[o].calm
               PROVE  /\ ~clean' /\ page'[o].at = "saving" /\ save'[o].phrase \in Phrase
                      /\ \A n \in 1..5 : n < save'[o].next =>
                             db'[Order[n]] = Content(save'[o].phrase, n)
                      /\ \A q \in Tab \ {o} : ~Pending(q)' /\ ~save'[q].calm
    BY DEF CalmSaves
  <2>1. save[o].calm OBVIOUS
  <2>2. page[o].at = "saving" BY <2>1 DEF Fitting, CalmSaves
  <2>3. page'[o] = page[o] BY <2>2 DEF DevicesTypeOK
  <2> QED BY <2>1, <2>3 DEF Fitting, CalmSaves, Pending
<1> QED BY <1>1, <1>2, <1>3 DEF Fitting

\* A step of one job that writes nothing.
LEMMA CreationStep ==
  ASSUME DevicesTypeOK, Fitting, NEW t \in Tab, NEW r,
         job' = [job EXCEPT ![t] = r],
         UNCHANGED <<db, page, save, clean>>,
         Plain /\ r.at # "none" => Kept("legacy"),
         r.calm => clean /\ Sound(r)
  PROVE  Fitting'
<1>1. CleanStore'
  <2> SUFFICES ASSUME clean'
               PROVE  (\A o \in Tab : ~Pending(o)') /\ (Plain' \/ \E p \in Phrase : KeepsAllOf(p)')
    BY DEF CleanStore
  <2>1. clean /\ (\A o \in Tab : ~Pending(o)) /\ (Plain \/ \E p \in Phrase : KeepsAllOf(p))
    BY DEF Fitting, CleanStore
  <2>2. \A o \in Tab : ~Pending(o)' BY <2>1 DEF Pending
  <2>3. ASSUME NEW p \in Phrase, KeepsAllOf(p) PROVE KeepsAllOf(p)' BY <2>3 DEF KeepsAllOf
  <2>4. ASSUME Plain PROVE Plain'
    <3>1. Untouched' /\ db'["legacy"] \in {None, Old} /\ db'["id"] \notin Phrase
      BY <2>4 DEF Plain, Untouched
    <3>2. \A o \in Tab : LetIn(o)'
      <4> TAKE o \in Tab
      <4>1. LetIn(o) BY <2>4 DEF Plain
      <4>2. CASE o = t
        <5>1. job'[o] = r BY <4>2 DEF DevicesTypeOK
        <5> QED BY <4>1, <4>2, <5>1, <2>4 DEF LetIn, Kept
      <4>3. CASE o # t
        <5>1. job'[o] = job[o] BY <4>3 DEF DevicesTypeOK
        <5> QED BY <4>1, <5>1 DEF LetIn, Kept
      <4> QED BY <4>2, <4>3
    <3> QED BY <3>1, <3>2 DEF Plain
  <2> QED BY <2>1, <2>2, <2>3, <2>4
<1>2. CalmJobs'
  <2> SUFFICES ASSUME NEW o \in Tab, job'[o].calm PROVE clean' /\ Sound(job[o])'
    BY DEF CalmJobs
  <2>1. ASSUME Sound(job'[o]) PROVE Sound(job[o])'
    BY <2>1 DEF Sound, Untouched, KeepsAllOf
  <2>2. CASE o = t
    <3>1. job'[o] = r BY <2>2 DEF DevicesTypeOK
    <3> QED BY <2>1, <3>1
  <2>3. CASE o # t
    <3>1. job'[o] = job[o] BY <2>3 DEF DevicesTypeOK
    <3> QED BY <2>1, <3>1 DEF Fitting, CalmJobs
  <2> QED BY <2>2, <2>3
<1>3. CalmSaves'
  BY DEF Fitting, CalmSaves, Pending
<1> QED BY <1>1, <1>2, <1>3 DEF Fitting
-----------------------------------------------------------------------------
(* The steps of the guard and of the set-up                                *)

LEMMA GuardsFit ==
  ASSUME DevicesTypeOK, Fitting, NEW t \in Tab, Guards(t)
  PROVE  Fitting'
<1>1. ASSUME job' = job
      PROVE  \A o \in Tab : /\ job'[o].at = job[o].at /\ job'[o].calm = job[o].calm
                            /\ Sound(job[o]) => Sound(job'[o])
  BY <1>1
<1>2. \A r \in {"closed", "check", "keys", "app"} : At(r).seen = {} /\ At(r).at = r
  BY DEF At, NoPage
<1>3. CASE Opens(t)
  BY <1>3, <1>1, <1>2, PageStep DEF Opens, store
<1>4. CASE OpensKeys(t)
  <2>1. \A o \in Tab : /\ job'[o].at = job[o].at /\ job'[o].calm = job[o].calm
                       /\ job'[o].id = job[o].id /\ job'[o].next = job[o].next
                       /\ job'[o].private = job[o].private /\ job'[o].public = job[o].public
                       /\ job'[o].spki = job[o].spki
    BY <1>4 DEF OpensKeys, DevicesTypeOK, Creation
  <2>2. \A o \in Tab : Sound(job[o]) => Sound(job'[o])
    BY <2>1 DEF Sound, Fits, ReadNothing, ReadFrom
  <2> QED BY <1>4, <1>2, <2>1, <2>2, PageStep DEF OpensKeys, store
<1>5. CASE Looks(t)
  <2> DEFINE e == Looked[page[t].next]
             g == [page[t] EXCEPT !.next = @ + 1, !.seen = IF Kept(e) THEN @ \cup {e} ELSE @]
  <2>1. page[t] \in Page BY DEF DevicesTypeOK
  <2>2. g.at = page[t].at /\ g.seen = IF Kept(e) THEN page[t].seen \cup {e} ELSE page[t].seen
    BY <2>1 DEF Page
  <2>3. e \in {"private", "public", "legacy"}
    <3>1. page[t].next = 1 \/ page[t].next = 2 \/ page[t].next = 3
      BY <1>5, <2>1 DEF Looks, Page
    <3> QED BY <3>1 DEF Looked
  <2>4. page' = [page EXCEPT ![t] = g] /\ page[t].at = "check"
    BY <1>5 DEF Looks
  <2> HIDE DEF e, g
  <2>5. ASSUME Plain PROVE /\ g.seen \subseteq {"legacy"}
                           /\ g.seen # {} \/ g.at = "app" => Kept("legacy")
    <3>1. LetIn(t) /\ Untouched BY <2>5 DEF Plain
    <3>2. Kept(e) => e = "legacy" BY <3>1, <2>3 DEF Untouched, Kept
    <3> QED BY <3>1, <3>2, <2>2, <2>4 DEF LetIn
  <2> QED BY <1>5, <1>1, <2>4, <2>5, PageStep DEF Looks, store
<1>6. CASE Decides(t)
  <2> DEFINE g == At(IF HasKeypair(page[t].seen) THEN "app" ELSE "keys")
  <2>1. ASSUME Plain PROVE /\ g.seen \subseteq {"legacy"}
                           /\ g.seen # {} \/ g.at = "app" => Kept("legacy")
    <3>1. LetIn(t) BY <2>1 DEF Plain
    <3>2. HasKeypair(page[t].seen) => Kept("legacy") BY <3>1 DEF HasKeypair, LetIn
    <3> QED BY <3>2, <1>2
  <2>2. page' = [page EXCEPT ![t] = g] /\ page[t].at = "check" BY <1>6 DEF Decides
  <2> HIDE DEF g
  <2> QED BY <1>6, <1>1, <2>1, <2>2, PageStep DEF Decides, store
<1>7. CASE LookFails(t)
  BY <1>7, <1>1, <1>2, PageStep DEF LookFails
<1>8. CASE Closes(t)
  <2>1. \A o \in Tab : /\ o = t => /\ page'[o] = NoPage /\ save'[o] = NoSave /\ job'[o] = NoJob
                       /\ o # t => /\ page'[o] = page[o] /\ save'[o] = save[o]
                                   /\ job'[o] = job[o]
    BY <1>8 DEF Closes, DevicesTypeOK
  <2>2. db' = db /\ clean' = clean BY <1>8 DEF Closes, store
  <2>3. NoPage.seen = {} /\ NoPage.at # "app" /\ NoSave.next = 6 /\ ~NoSave.calm
        /\ NoJob.at = "none" /\ ~NoJob.calm
    BY DEF NoPage, NoSave, NoJob
  <2>4. \A o \in Tab : Pending(o)' => Pending(o) BY <2>1, <2>3 DEF Pending
  <2>5. CleanStore'
    <3>1. ASSUME Plain PROVE Plain'
      <4>1. \A o \in Tab : LetIn(o)'
        BY <3>1, <2>1, <2>2, <2>3 DEF Plain, LetIn, Kept
      <4> QED BY <3>1, <4>1, <2>2 DEF Plain, Untouched
    <3>2. \A p \in Phrase : KeepsAllOf(p) => KeepsAllOf(p)' BY <2>2 DEF KeepsAllOf
    <3> QED BY <3>1, <3>2, <2>2, <2>4 DEF Fitting, CleanStore
  <2>6. CalmJobs'
    <3> SUFFICES ASSUME NEW o \in Tab, job'[o].calm PROVE clean' /\ Sound(job[o])'
      BY DEF CalmJobs
    <3>1. job'[o] = job[o] BY <2>1, <2>3
    <3> QED BY <3>1, <2>2 DEF Fitting, CalmJobs, Sound, Untouched, KeepsAllOf
  <2>7. CalmSaves'
    <3> SUFFICES ASSUME NEW o \in Tab, save'[o].calm
                 PROVE  /\ ~clean' /\ page'[o].at = "saving" /\ save'[o].phrase \in Phrase
                        /\ \A n \in 1..5 : n < save'[o].next =>
                               db'[Order[n]] = Content(save'[o].phrase, n)
                        /\ \A q \in Tab \ {o} : ~Pending(q)' /\ ~save'[q].calm
      BY DEF CalmSaves
    <3>1. save'[o] = save[o] /\ page'[o] = page[o] /\ save[o].calm BY <2>1, <2>3
    <3>2. \A q \in Tab \ {o} : ~save'[q].calm BY <3>1, <2>1, <2>3 DEF Fitting, CalmSaves
    <3> QED BY <3>1, <3>2, <2>2, <2>4 DEF Fitting, CalmSaves
  <2> QED BY <2>5, <2>6, <2>7 DEF Fitting
<1> QED BY <1>3, <1>4, <1>5, <1>6, <1>7, <1>8 DEF Guards

LEMMA SavesFits ==
  ASSUME DevicesTypeOK, Fitting, NEW t \in Tab, NEW p \in Phrase, Saves(t, p)
  PROVE  Fitting'
<1> DEFINE c == \A q \in Tab \ {t} : ~Pending(q)
<1>1. clean' = FALSE BY DEF Saves
<1>2. \A o \in Tab : job'[o].calm = FALSE
  <2>1. \A o \in Tab : [job[o] EXCEPT !.calm = FALSE].calm = FALSE BY DEF DevicesTypeOK, Creation
  <2> QED BY <2>1 DEF Saves
<1>3. save'[t] = [phrase |-> p, next |-> 1, calm |-> c] BY DEF Saves
<1>4. \A o \in Tab \ {t} : save'[o].calm = FALSE /\ save'[o].next = save[o].next
  <2>1. \A o \in Tab \ {t} : save'[o] = [save[o] EXCEPT !.calm = FALSE] BY DEF Saves
  <2> QED BY <2>1 DEF DevicesTypeOK, Save
<1>5. page'[t].at = "saving" BY DEF Saves, DevicesTypeOK, Page
<1>6. CalmSaves'
  <2> SUFFICES ASSUME NEW o \in Tab, save'[o].calm
               PROVE  /\ ~clean' /\ page'[o].at = "saving" /\ save'[o].phrase \in Phrase
                      /\ \A n \in 1..5 : n < save'[o].next =>
                             db'[Order[n]] = Content(save'[o].phrase, n)
                      /\ \A q \in Tab \ {o} : ~Pending(q)' /\ ~save'[q].calm
    BY DEF CalmSaves
  <2>1. o = t BY <1>4
  <2>2. c BY <2>1, <1>3
  <2>3. \A q \in Tab \ {o} : ~Pending(q)' /\ ~save'[q].calm
    BY <2>1, <2>2, <1>4 DEF Pending
  <2>4. save'[o].phrase = p /\ save'[o].next = 1 BY <2>1, <1>3
  <2>5. \A n \in 1..5 : ~(n < save'[o].next) BY <2>4
  <2> QED BY <2>1, <2>3, <2>4, <2>5, <1>1, <1>5
<1> QED BY <1>1, <1>2, <1>6 DEF Fitting, CleanStore, CalmJobs

LEMMA SetsUpFits ==
  ASSUME DevicesTypeOK, Fitting, NEW t \in Tab, SetsUp(t)
  PROVE  Fitting'
<1>1. CASE Creates(t) \/ Imports(t)
  BY <1>1, SavesFits DEF Creates, Imports
<1>2. ASSUME Pending(t), clean' = clean, job' = job,
             \A o \in Tab \ {t} : save'[o] = save[o],
             save'[t].calm => /\ save[t].calm /\ page' = page
                              /\ save'[t].phrase = save[t].phrase
                              /\ \A n \in 1..5 : n < save'[t].next =>
                                     db'[Order[n]] = Content(save[t].phrase, n)
      PROVE  Fitting'
  <2>1. ~clean BY <1>2 DEF Fitting, CleanStore
  <2>2. \A o \in Tab : ~job'[o].calm BY <1>2, <2>1 DEF Fitting, CalmJobs
  <2>3. \A o \in Tab \ {t} : ~save'[o].calm BY <1>2 DEF Fitting, CalmSaves
  <2>4. CalmSaves'
    <3> SUFFICES ASSUME NEW o \in Tab, save'[o].calm
                 PROVE  /\ ~clean' /\ page'[o].at = "saving" /\ save'[o].phrase \in Phrase
                        /\ \A n \in 1..5 : n < save'[o].next =>
                               db'[Order[n]] = Content(save'[o].phrase, n)
                        /\ \A q \in Tab \ {o} : ~Pending(q)' /\ ~save'[q].calm
      BY DEF CalmSaves
    <3>1. o = t BY <2>3
    <3>2. page[t].at = "saving" /\ save[t].phrase \in Phrase
          /\ \A q \in Tab \ {t} : ~Pending(q)
      BY <3>1, <1>2 DEF Fitting, CalmSaves
    <3>3. \A q \in Tab \ {t} : ~Pending(q)' BY <3>2, <1>2 DEF Pending
    <3> QED BY <3>1, <3>2, <3>3, <2>1, <2>3, <1>2
  <2> QED BY <2>1, <2>2, <2>4, <1>2 DEF Fitting, CleanStore, CalmJobs
<1>3. CASE Puts(t)
  <2> DEFINE n == save[t].next
  <2>a. save[t] \in Save /\ save[t].next \in 1..5 /\ db \in [Entry -> Value]
    BY <1>3 DEF Puts, Pending, DevicesTypeOK, Save
  <2>1. save'[t].calm = save[t].calm /\ save'[t].phrase = save[t].phrase /\ save'[t].next = n + 1
    BY <1>3, <2>a DEF Puts, DevicesTypeOK, Save
  <2>2. \A o \in Tab \ {t} : save'[o] = save[o] BY <1>3 DEF Puts, DevicesTypeOK
  <2>3. ASSUME save[t].calm, NEW k \in 1..5, k < n + 1
        PROVE  db'[Order[k]] = Content(save[t].phrase, k)
    <3>1. db' = [db EXCEPT ![Order[n]] = Content(save[t].phrase, n)] BY <1>3 DEF Puts
    <3>2. Order[k] \in Entry /\ Order[n] \in Entry BY <2>a, EntriesInOrder
    <3>3. CASE k = n
      BY <3>1, <3>2, <3>3, <2>a
    <3>4. CASE k # n
      <4>1. k < n BY <3>4, <2>3, <2>a
      <4>2. Order[k] # Order[n] BY <3>4, <2>a, EntriesInOrder
      <4>3. db[Order[k]] = Content(save[t].phrase, k)
        BY <4>1, <2>3 DEF Fitting, CalmSaves
      <4> QED BY <3>1, <3>2, <4>2, <4>3, <2>a
    <3> QED BY <3>3, <3>4
  <2>4. Pending(t) /\ clean' = clean /\ job' = job /\ page' = page BY <1>3 DEF Puts
  <2> QED BY <1>2, <2>1, <2>2, <2>3, <2>4
<1>4. CASE PutFails(t)
  <2>1. ~save'[t].calm
    <3>1. save[t] \in Save BY DEF DevicesTypeOK
    <3>2. save'[t] = [save[t] EXCEPT !.next = save[t].next + 1, !.calm = FALSE]
      BY <1>4 DEF PutFails, DevicesTypeOK
    <3> QED BY <3>1, <3>2 DEF Save
  <2>2. \A o \in Tab \ {t} : save'[o] = save[o] BY <1>4 DEF PutFails, DevicesTypeOK
  <2>3. Pending(t) /\ clean' = clean /\ job' = job BY <1>4 DEF PutFails
  <2> QED BY <1>2, <2>1, <2>2, <2>3
<1>5. CASE Saved(t)
  <2>1. \A o \in Tab : /\ o = t => page'[o] = At("check") /\ save'[o] = NoSave
                       /\ o # t => page'[o] = page[o] /\ save'[o] = save[o]
    BY <1>5 DEF Saved, DevicesTypeOK
  <2>2. db' = db /\ job' = job /\ clean' = (clean \/ save[t].calm) BY <1>5 DEF Saved, store
  <2>3. At("check").seen = {} /\ At("check").at = "check" /\ NoSave.next = 6 /\ ~NoSave.calm
    BY DEF At, NoPage, NoSave
  <2>4. \A o \in Tab : Pending(o)' => Pending(o) BY <2>1, <2>3 DEF Pending
  <2>5. CleanStore'
    <3>1. CASE save[t].calm
      <4>1. ~Pending(t) /\ save[t] \in Save BY <1>5 DEF Saved, DevicesTypeOK
      <4>2. save[t].next = 6 BY <4>1 DEF Pending, Save
      <4>3. KeepsAllOf(save[t].phrase)
        <5>1. \A n \in 1..5 : n < save[t].next BY <4>2
        <5> QED BY <3>1, <5>1 DEF Fitting, CalmSaves, KeepsAllOf
      <4>4. save[t].phrase \in Phrase /\ \A o \in Tab : ~Pending(o)
        BY <3>1, <4>1 DEF Fitting, CalmSaves
      <4>5. \A p \in Phrase : KeepsAllOf(p) => KeepsAllOf(p)' BY <2>2 DEF KeepsAllOf
      <4> QED BY <4>3, <4>4, <4>5, <2>4 DEF CleanStore
    <3>2. CASE ~save[t].calm
      <4>1. ASSUME Plain PROVE Plain'
        <5>1. \A o \in Tab : LetIn(o)'
          BY <4>1, <2>1, <2>2, <2>3 DEF Plain, LetIn, Kept
        <5> QED BY <4>1, <5>1, <2>2 DEF Plain, Untouched
      <4>2. \A p \in Phrase : KeepsAllOf(p) => KeepsAllOf(p)' BY <2>2 DEF KeepsAllOf
      <4>3. clean' = clean BY <2>2, <3>2 DEF DevicesTypeOK, Save
      <4> QED BY <4>1, <4>2, <4>3, <2>4 DEF Fitting, CleanStore
    <3> QED BY <3>1, <3>2
  <2>6. CalmJobs'
    <3> SUFFICES ASSUME NEW o \in Tab, job'[o].calm PROVE clean' /\ Sound(job[o])'
      BY DEF CalmJobs
    <3>1. clean /\ Sound(job[o]) BY <2>2 DEF Fitting, CalmJobs
    <3>2. Sound(job[o])' BY <3>1, <2>2 DEF Sound, Untouched, KeepsAllOf
    <3> QED BY <3>1, <3>2, <2>2
  <2>7. CalmSaves'
    <3> SUFFICES ASSUME NEW o \in Tab, save'[o].calm
                 PROVE  /\ ~clean' /\ page'[o].at = "saving" /\ save'[o].phrase \in Phrase
                        /\ \A n \in 1..5 : n < save'[o].next =>
                               db'[Order[n]] = Content(save'[o].phrase, n)
                        /\ \A q \in Tab \ {o} : ~Pending(q)' /\ ~save'[q].calm
      BY DEF CalmSaves
    <3>1. o # t /\ save'[o] = save[o] /\ page'[o] = page[o] BY <2>1, <2>3
    <3>2. ~clean /\ ~save[t].calm BY <3>1 DEF Fitting, CalmSaves
    <3>3. \A q \in Tab \ {o} : ~save'[q].calm BY <3>1, <2>1, <2>3 DEF Fitting, CalmSaves
    <3> QED BY <3>1, <3>2, <3>3, <2>2, <2>4 DEF Fitting, CalmSaves
  <2> QED BY <2>5, <2>6, <2>7 DEF Fitting
<1> QED BY <1>1, <1>3, <1>4, <1>5 DEF SetsUp
-----------------------------------------------------------------------------
(* The steps of the managers                                               *)

\* What a step of t may take from the invariant when its manager is calm.
LEMMA CalmJob ==
  ASSUME Fitting, NEW t \in Tab, job[t].calm
  PROVE  /\ clean /\ Sound(job[t])
         /\ Plain \/ \E p \in Phrase : KeepsAllOf(p) /\ ReadFrom(job[t], p)
         /\ Plain => ReadNothing(job[t])
<1>1. clean /\ Sound(job[t]) BY DEF Fitting, CalmJobs
<1>2. Plain \/ \E p \in Phrase : KeepsAllOf(p) BY <1>1 DEF Fitting, CleanStore
<1> QED BY <1>1, <1>2 DEF Sound, Plain

\* A calm manager never makes keys of its own.
LEMMA StoringIsNotCalm ==
  ASSUME Fitting, NEW t \in Tab,
         job[t].at \in {"store", "spoiled"} \/ (job[t].at = "legacy" /\ ~Kept("legacy"))
  PROVE  ~job[t].calm
<1> SUFFICES ASSUME job[t].calm PROVE FALSE OBVIOUS
<1>1. ASSUME NEW p \in Phrase, ReadFrom(job[t], p) PROVE FALSE BY <1>1 DEF ReadFrom
<1>2. Plain BY <1>1, CalmJob
<1>3. LetIn(t) BY <1>2 DEF Plain
<1> QED BY <1>2, <1>3, CalmJob DEF ReadNothing, LetIn

LEMMA WriteEndsCalm ==
  ASSUME DevicesTypeOK, NEW t \in Tab, NEW r \in Creation, ~job[t].calm, Writes(t, r)
  PROVE  Fitting'
<1>1. \A o \in Tab : [save[o] EXCEPT !.calm = FALSE].calm = FALSE BY DEF DevicesTypeOK, Save
<1>2. \A o \in Tab : [IF o = t THEN r ELSE job[o] EXCEPT !.calm = FALSE].calm = FALSE
  <2>1. \A q \in Creation : [q EXCEPT !.calm = FALSE].calm = FALSE BY DEF Creation
  <2>2. \A o \in Tab : (IF o = t THEN r ELSE job[o]) \in Creation BY DEF DevicesTypeOK
  <2> TAKE o \in Tab
  <2> DEFINE q == IF o = t THEN r ELSE job[o]
  <2>3. q \in Creation BY <2>2
  <2> HIDE DEF q
  <2>4. [q EXCEPT !.calm = FALSE].calm = FALSE BY <2>1, <2>3
  <2> QED BY <2>4 DEF q
<1>3. clean' = FALSE BY DEF Writes
<1>4. \A o \in Tab : save'[o].calm = FALSE BY <1>1 DEF Writes
<1>5. \A o \in Tab : job'[o].calm = FALSE BY <1>2 DEF Writes
<1> QED BY <1>3, <1>4, <1>5, Uncalm

LEMMA ConnectsFits ==
  ASSUME DevicesTypeOK, Fitting, NEW t \in Tab, Connects(t)
  PROVE  Fitting'
<1> DEFINE r == [NoJob EXCEPT !.at = "id", !.heeded = TRUE, !.calm = clean]
<1>1. /\ r.at = "id" /\ r.id = None /\ r.next = 1 /\ r.private = None /\ r.calm = clean
  BY DEF NoJob
<1>2. job' = [job EXCEPT ![t] = r] /\ UNCHANGED <<db, page, save, clean>> BY DEF Connects
<1> HIDE DEF r
<1>3. Sound(r) BY <1>1, PhrasesAreSomething DEF Sound, ReadNothing, ReadFrom
<1>4. ASSUME Plain PROVE Kept("legacy")
  <2>1. LetIn(t) BY <1>4 DEF Plain
  <2> QED BY <2>1 DEF Connects, LetIn
<1> QED BY <1>1, <1>2, <1>3, <1>4, CreationStep

LEMMA GetsIdFits ==
  ASSUME DevicesTypeOK, Fitting, NEW t \in Tab, GetsId(t)
  PROVE  Fitting'
<1> DEFINE r == [job[t] EXCEPT !.id = db["id"], !.at = IF Kept("id") THEN "load" ELSE "newid"]
<1>1. job[t] \in Creation BY DEF DevicesTypeOK
<1>2. /\ r.at = IF Kept("id") THEN "load" ELSE "newid"
      /\ r.id = db["id"] /\ r.next = job[t].next /\ r.private = job[t].private
      /\ r.calm = job[t].calm
  BY <1>1 DEF Creation
<1>3. job' = [job EXCEPT ![t] = r] /\ UNCHANGED <<db, page, save, clean>> BY DEF GetsId, store
<1> HIDE DEF r
<1>4. job[t].at = "id" BY DEF GetsId
<1>5. ASSUME r.calm PROVE Sound(r)
  <2>1. job[t].calm BY <1>5, <1>2
  <2>2. ASSUME Untouched PROVE ReadNothing(r)
    <3>1. Plain BY <2>1, <2>2, CalmJob, OneOrTheOther
    <3>2. ReadNothing(job[t]) BY <3>1, <2>1, CalmJob
    <3> QED BY <3>1, <3>2, <1>2, <1>4 DEF ReadNothing, Plain
  <2>3. ASSUME NEW p \in Phrase, KeepsAllOf(p) PROVE ReadFrom(r, p)
    <3>1. ReadFrom(job[t], p) BY <2>1, <2>3, CalmJob DEF Sound
    <3>2. db["id"] = p /\ p # None BY <2>3, KeepsAllOfIs, PhrasesAreSomething
    <3>3. job[t].next = 1 BY <3>1, <1>4 DEF ReadFrom
    <3>4. r.at = "load" /\ r.id = p /\ r.next = 1 BY <3>2, <3>3, <1>2 DEF Kept
    <3> QED BY <3>4 DEF ReadFrom
  <2>4. r.at # "register" BY <1>2
  <2> QED BY <2>2, <2>3, <2>4 DEF Sound
<1>6. ASSUME Plain PROVE Kept("legacy")
  <2>1. LetIn(t) BY <1>6 DEF Plain
  <2> QED BY <2>1, <1>4 DEF LetIn
<1>7. r.calm => clean BY <1>2, CalmJob
<1> QED BY <1>3, <1>5, <1>6, <1>7, CreationStep

LEMMA PutsIdFits ==
  ASSUME DevicesTypeOK, Fitting, NEW t \in Tab, PutsId(t)
  PROVE  Fitting'
<1>1. PICK v \in Random \ made :
          /\ db' = [db EXCEPT !["id"] = v]
          /\ Writes(t, [job[t] EXCEPT !.id = v, !.at = "load"])
  BY DEF PutsId
<1> DEFINE r == [job[t] EXCEPT !.id = v, !.at = "load"]
<1>2. job[t] \in Creation /\ v \in Value BY DEF DevicesTypeOK, Value
<1>3. /\ r \in Creation /\ r.at = "load" /\ r.id = v /\ r.next = job[t].next
      /\ r.private = job[t].private /\ r.calm = job[t].calm
  BY <1>2 DEF Creation
<1>4. Writes(t, r) BY <1>1
<1> HIDE DEF r
<1>5. job[t].at = "newid" /\ page' = page BY DEF PutsId
<1>6. CASE ~job[t].calm
  BY <1>6, <1>3, <1>4, WriteEndsCalm
<1>7. CASE job[t].calm
  <2>1. clean /\ Plain /\ ReadNothing(job[t])
    <3>1. ASSUME NEW p \in Phrase, ReadFrom(job[t], p) PROVE FALSE BY <3>1, <1>5 DEF ReadFrom
    <3> QED BY <3>1, <1>7, CalmJob
  <2>2. job' = [job EXCEPT ![t] = r] /\ save' = save /\ clean' = clean
    BY <1>4, <1>7 DEF Writes
  <2>3. \A e \in Entry \ {"id"} : db'[e] = db[e] BY <1>1 DEF DevicesTypeOK
  <2>4. db'["id"] = v BY <1>1 DEF DevicesTypeOK, Entry
  <2>5. Untouched' /\ db'["legacy"] = db["legacy"] /\ v \notin Phrase
    <3>1. /\ db'["private"] = db["private"] /\ db'["public"] = db["public"]
          /\ db'["spki"] = db["spki"] /\ db'["legacy"] = db["legacy"]
      BY <2>3 DEF Entry
    <3> QED BY <3>1, <2>1, PhrasesAreSomething DEF Plain, Untouched
  <2>6. \A p \in Phrase : ~KeepsAllOf(p)'
    <3>1. ASSUME NEW p \in Phrase, KeepsAllOf(p)' PROVE FALSE
      <4>1. 1 \in 1..5 OBVIOUS
      <4>2. db'["private"] = p BY <3>1, <4>1 DEF KeepsAllOf, Order, Content
      <4> QED BY <4>2, <2>5, PhrasesAreSomething DEF Untouched
    <3> QED BY <3>1
  <2>7. \A o \in Tab \ {t} : job'[o] = job[o] BY <2>2 DEF DevicesTypeOK
  <2>8. job'[t] = r BY <2>2 DEF DevicesTypeOK
  <2>9. CleanStore'
    <3>1. \A o \in Tab : LetIn(o)'
      <4> TAKE o \in Tab
      <4>1. LetIn(o) BY <2>1 DEF Plain
      <4>2. job'[o].at # "none" => job[o].at # "none" BY <2>7, <2>8, <1>5
      <4> QED BY <4>1, <4>2, <1>5, <2>5 DEF LetIn, Kept
    <3>2. \A o \in Tab : ~Pending(o)' BY <2>1, <2>2 DEF Fitting, CleanStore, Pending
    <3> QED BY <3>1, <3>2, <2>1, <2>4, <2>5 DEF CleanStore, Plain
  <2>10. CalmJobs'
    <3> SUFFICES ASSUME NEW o \in Tab, job'[o].calm PROVE clean' /\ Sound(job[o])'
      BY DEF CalmJobs
    <3>1. ReadNothing(job'[o]) /\ (job'[o].at = "register" => Fits(job'[o]))
      <4>1. CASE o = t
        <5>1. ReadNothing(r) BY <2>1, <2>5, <1>3, <1>5 DEF ReadNothing
        <5> QED BY <4>1, <5>1, <2>8, <1>3
      <4>2. CASE o # t
        BY <4>2, <2>1, <2>7, CalmJob DEF Sound
      <4> QED BY <4>1, <4>2
    <3> QED BY <3>1, <2>1, <2>2, <2>6 DEF Sound
  <2>11. CalmSaves' BY <2>1, <2>2 DEF Fitting, CalmSaves
  <2> QED BY <2>9, <2>10, <2>11 DEF Fitting
<1> QED BY <1>6, <1>7

LEMMA LoadsFits ==
  ASSUME DevicesTypeOK, Fitting, NEW t \in Tab, Loads(t)
  PROVE  Fitting'
<1>1. job[t] \in Creation /\ job[t].at = "load" BY DEF DevicesTypeOK, Loads
<1>2. job[t].next = 1 \/ job[t].next = 2 \/ job[t].next = 3 BY <1>1 DEF Loads, Creation
<1>3. PICK r \in Creation :
          /\ job' = [job EXCEPT ![t] = r]
          /\ r.at = "load" /\ r.id = job[t].id /\ r.next = job[t].next + 1
          /\ r.calm = job[t].calm
          /\ r.private = IF job[t].next = 1 THEN db["private"] ELSE job[t].private
          /\ r.public = IF job[t].next = 2 THEN db["public"] ELSE job[t].public
          /\ r.spki = IF job[t].next = 3 THEN db["spki"] ELSE job[t].spki
  <2> DEFINE q == [job[t] EXCEPT !.next = job[t].next + 1]
  <2>0. job[t].next + 1 \in 1..5 BY <1>2
  <2>1. /\ q \in Creation /\ q.at = "load" /\ q.id = job[t].id /\ q.next = job[t].next + 1
        /\ q.calm = job[t].calm /\ q.private = job[t].private
        /\ q.public = job[t].public /\ q.spki = job[t].spki
    BY <1>1, <2>0 DEF Creation
  <2>2. db["private"] \in Value /\ db["public"] \in Value /\ db["spki"] \in Value
    BY DEF DevicesTypeOK, Entry
  <2>3. job[t].next = 1 => job' = [job EXCEPT ![t] = [q EXCEPT !.private = db["private"]]]
    BY DEF Loads
  <2>4. job[t].next = 2 => job' = [job EXCEPT ![t] = [q EXCEPT !.public = db["public"]]]
    BY DEF Loads
  <2>5. job[t].next = 3 => job' = [job EXCEPT ![t] = [q EXCEPT !.spki = db["spki"]]]
    BY DEF Loads
  <2> HIDE DEF q
  <2>6. CASE job[t].next = 1
    <3>1. [q EXCEPT !.private = db["private"]] \in Creation BY <2>1, <2>2 DEF Creation
    <3> WITNESS [q EXCEPT !.private = db["private"]] \in Creation
    <3> QED BY <2>1, <2>3, <2>6 DEF Creation
  <2>7. CASE job[t].next = 2
    <3>1. [q EXCEPT !.public = db["public"]] \in Creation BY <2>1, <2>2 DEF Creation
    <3> WITNESS [q EXCEPT !.public = db["public"]] \in Creation
    <3> QED BY <2>1, <2>4, <2>7 DEF Creation
  <2>8. CASE job[t].next = 3
    <3>1. [q EXCEPT !.spki = db["spki"]] \in Creation BY <2>1, <2>2 DEF Creation
    <3> WITNESS [q EXCEPT !.spki = db["spki"]] \in Creation
    <3> QED BY <2>1, <2>5, <2>8 DEF Creation
  <2> QED BY <1>2, <2>6, <2>7, <2>8
<1>4. ASSUME r.calm PROVE clean /\ Sound(r)
  <2>1. job[t].calm BY <1>3, <1>4
  <2>2. ASSUME Untouched PROVE ReadNothing(r)
    <3>1. ReadNothing(job[t]) BY <2>1, <2>2, CalmJob DEF Sound
    <3> QED BY <3>1, <2>2, <1>1, <1>3 DEF ReadNothing, Untouched
  <2>3. ASSUME NEW p \in Phrase, KeepsAllOf(p) PROVE ReadFrom(r, p)
    <3>1. ReadFrom(job[t], p) BY <2>1, <2>3, CalmJob DEF Sound
    <3>2. db["private"] = p /\ db["public"] = p /\ db["spki"] = p BY <2>3, KeepsAllOfIs
    <3> QED BY <3>1, <3>2, <1>1, <1>2, <1>3 DEF ReadFrom
  <2> QED BY <2>1, <2>2, <2>3, <1>3, CalmJob DEF Sound
<1>5. ASSUME Plain PROVE Kept("legacy")
  <2>1. LetIn(t) BY <1>5 DEF Plain
  <2> QED BY <2>1, <1>1 DEF LetIn
<1>6. UNCHANGED <<db, page, save, clean>> BY DEF Loads, store
<1> QED BY <1>3, <1>4, <1>5, <1>6, CreationStep

LEMMA LoadedFits ==
  ASSUME DevicesTypeOK, Fitting, NEW t \in Tab, Loaded(t)
  PROVE  Fitting'
<1> DEFINE lacks == None \in {job[t].private, job[t].public, job[t].spki}
           r == [job[t] EXCEPT !.at = IF lacks THEN "legacy" ELSE "register"]
<1>1. job[t] \in Creation /\ job[t].at = "load" /\ job[t].next = 4 BY DEF DevicesTypeOK, Loaded
<1>2. /\ r.at = IF lacks THEN "legacy" ELSE "register"
      /\ r.id = job[t].id /\ r.calm = job[t].calm /\ r.private = job[t].private
      /\ r.public = job[t].public /\ r.spki = job[t].spki
  BY <1>1 DEF Creation
<1>3. job' = [job EXCEPT ![t] = r] /\ UNCHANGED <<db, page, save, clean>> BY DEF Loaded, store
<1> HIDE DEF r
<1>4. ASSUME r.calm PROVE clean /\ Sound(r)
  <2>1. job[t].calm BY <1>2, <1>4
  <2>2. CASE Plain
    <3>1. ReadNothing(job[t]) /\ Untouched BY <2>1, <2>2, CalmJob DEF Plain
    <3>2. lacks /\ r.at = "legacy" BY <3>1, <1>1, <1>2 DEF ReadNothing
    <3>3. ReadNothing(r) BY <3>1, <3>2, <1>1, <1>2 DEF ReadNothing
    <3>4. \A p \in Phrase : ~KeepsAllOf(p) BY <3>1, OneOrTheOther
    <3> QED BY <3>2, <3>3, <3>4, <2>1, CalmJob DEF Sound
  <2>3. ASSUME NEW p \in Phrase, KeepsAllOf(p), ReadFrom(job[t], p) PROVE Sound(r)
    <3>1. /\ job[t].id = p /\ job[t].private = p /\ job[t].public = p /\ job[t].spki = p
      BY <2>3, <1>1 DEF ReadFrom
    <3>2. ~lacks /\ r.at = "register" BY <3>1, <1>2, PhrasesAreSomething
    <3>3. Fits(r) /\ ReadFrom(r, p) BY <3>1, <3>2, <1>2 DEF Fits, ReadFrom
    <3>4. ~Untouched /\ \A q \in Phrase : KeepsAllOf(q) => q = p BY <2>3, OneOrTheOther
    <3> QED BY <3>3, <3>4 DEF Sound
  <2> QED BY <2>1, <2>2, <2>3, CalmJob
<1>5. ASSUME Plain PROVE Kept("legacy")
  <2>1. LetIn(t) BY <1>5 DEF Plain
  <2> QED BY <2>1, <1>1 DEF LetIn
<1> QED BY <1>3, <1>4, <1>5, CreationStep

LEMMA TakesLegacyFits ==
  ASSUME DevicesTypeOK, Fitting, NEW t \in Tab, TakesLegacy(t)
  PROVE  Fitting'
<1> DEFINE k == db["legacy"]
           q == WithPair(job[t], k)
           r == [q EXCEPT !.at = "register"]
<1>1. job[t] \in Creation /\ job[t].at = "legacy" /\ Kept("legacy") /\ k \in Value
  BY DEF DevicesTypeOK, TakesLegacy, Entry
<1>2. /\ r.at = "register" /\ r.id = job[t].id /\ r.calm = job[t].calm
      /\ r.private = k /\ r.public = k /\ r.spki = k
  <2> HIDE DEF k
  <2>1. /\ q \in Creation /\ q.id = job[t].id /\ q.calm = job[t].calm
        /\ q.private = k /\ q.public = k /\ q.spki = k
    BY <1>1 DEF Creation, WithPair
  <2> HIDE DEF q
  <2> QED BY <2>1 DEF Creation
<1>3. job' = [job EXCEPT ![t] = r] /\ UNCHANGED <<db, page, save, clean>>
  BY DEF TakesLegacy, store
<1> HIDE DEF r
<1>4. ASSUME r.calm PROVE clean /\ Sound(r)
  <2>1. job[t].calm BY <1>2, <1>4
  <2>2. Plain /\ ReadNothing(job[t])
    <3>1. ASSUME NEW p \in Phrase, ReadFrom(job[t], p) PROVE FALSE BY <3>1, <1>1 DEF ReadFrom
    <3> QED BY <3>1, <2>1, CalmJob
  <2>3. k = Old BY <2>2, <1>1 DEF Plain, Kept
  <2>4. ReadNothing(r) /\ Fits(r)
    BY <2>2, <2>3, <1>1, <1>2, PhrasesAreSomething DEF ReadNothing, Fits
  <2>5. \A p \in Phrase : ~KeepsAllOf(p) BY <2>2, OneOrTheOther DEF Plain
  <2> QED BY <2>1, <2>4, <2>5, CalmJob DEF Sound
<1> QED BY <1>1, <1>3, <1>4, CreationStep

LEMMA ManagesFits ==
  ASSUME DevicesTypeOK, Fitting, NEW t \in Tab, Manages(t)
  PROVE  Fitting'
<1>1. CASE Connects(t)
  BY <1>1, ConnectsFits
<1>2. CASE GetsId(t)
  BY <1>2, GetsIdFits
<1>3. CASE PutsId(t)
  BY <1>3, PutsIdFits
<1>4. CASE Loads(t)
  BY <1>4, LoadsFits
<1>5. CASE Loaded(t)
  BY <1>5, LoadedFits
<1>6. CASE TakesLegacy(t)
  BY <1>6, TakesLegacyFits
<1>7. CASE Generates(t)
  <2>1. job[t].at = "legacy" /\ ~Kept("legacy") BY <1>7 DEF Generates
  <2>2. ~job[t].calm BY <2>1, StoringIsNotCalm
  <2>3. PICK v \in Random \ made :
            job' = [job EXCEPT ![t] = [WithPair(@, v) EXCEPT !.at = "store", !.next = 1]]
    BY <1>7 DEF Generates
  <2> DEFINE q == WithPair(job[t], v)
             r == [q EXCEPT !.at = "store", !.next = 1]
  <2>4. r.calm = job[t].calm
    <3>1. job[t] \in Creation /\ v \in Value BY DEF DevicesTypeOK, Value
    <3>2. q \in Creation /\ q.calm = job[t].calm BY <3>1 DEF WithPair, Creation
    <3> HIDE DEF q
    <3> QED BY <3>2 DEF Creation
  <2>5. job' = [job EXCEPT ![t] = r] BY <2>3
  <2>6. ASSUME Plain PROVE Kept("legacy")
    <3>1. LetIn(t) BY <2>6 DEF Plain
    <3> QED BY <3>1, <2>1 DEF LetIn
  <2>7. UNCHANGED <<db, page, save, clean>> BY <1>7 DEF Generates
  <2> HIDE DEF r
  <2> QED BY <2>2, <2>4, <2>5, <2>6, <2>7, CreationStep
<1>8. CASE Stores(t)
  <2> DEFINE r == [job[t] EXCEPT !.next = job[t].next + 1]
             q == [r EXCEPT !.at = "spoiled"]
  <2>1. job[t] \in Creation BY DEF DevicesTypeOK
  <2>2. job[t].next + 1 \in 1..5 BY <1>8, <2>1 DEF Stores, Creation
  <2>3. r \in Creation BY <2>1, <2>2, UpdatesTyped
  <2>4. q \in Creation
    <3> HIDE DEF r
    <3> QED BY <2>3 DEF Creation
  <2> HIDE DEF r, q
  <2>5. Writes(t, r) \/ Writes(t, q) BY <1>8 DEF Stores, r, q
  <2>6. ~job[t].calm BY <1>8, StoringIsNotCalm DEF Stores
  <2> QED BY <2>3, <2>4, <2>5, <2>6, WriteEndsCalm
<1>9. CASE Stored(t)
  <2> DEFINE r == IF job[t].at = "store" THEN [job[t] EXCEPT !.at = "register"] ELSE NoJob
  <2>1. job[t] \in Creation /\ ~job[t].calm
    BY <1>9, StoringIsNotCalm DEF Stored, DevicesTypeOK
  <2>2. ~r.calm BY <2>1 DEF Creation, NoJob
  <2>3. job' = [job EXCEPT ![t] = r] /\ UNCHANGED <<db, page, save, clean>>
    BY <1>9 DEF Stored, store
  <2>4. ASSUME Plain PROVE Kept("legacy")
    <3>1. LetIn(t) BY <2>4 DEF Plain
    <3> QED BY <3>1, <1>9 DEF LetIn, Stored
  <2> HIDE DEF r
  <2> QED BY <2>2, <2>3, <2>4, CreationStep
<1>10. CASE JobFails(t) \/ Registers(t)
  <2>1. job' = [job EXCEPT ![t] = NoJob] /\ UNCHANGED <<db, page, save, clean>>
    BY <1>10 DEF JobFails, Registers, store
  <2>2. NoJob.at = "none" /\ ~NoJob.calm BY DEF NoJob
  <2> QED BY <2>1, <2>2, CreationStep
<1>11. CASE RegistersWithHub(t)
  <2>1. UNCHANGED <<db, page, save, job, clean>> BY <1>11 DEF RegistersWithHub, store
  <2> QED BY <2>1
       DEF Fitting, CleanStore, CalmJobs, CalmSaves, Plain, Untouched, LetIn, Kept,
           KeepsAllOf, Pending, Sound
<1> QED BY <1>1, <1>2, <1>3, <1>4, <1>5, <1>6, <1>7, <1>8, <1>9, <1>10, <1>11 DEF Manages
-----------------------------------------------------------------------------
(* Managers, and the rows of the hub                                       *)

LEMMA RowFits ==
  ASSUME DevicesTypeOK, RowsFitTheirDevices, NEW id \in Value, NEW key, NEW calm,
         calm => (id \in Phrase => key = id), Row(id, key, calm)
  PROVE  RowsFitTheirDevices'
<1> SUFFICES ASSUME NEW p \in Phrase, p \notin misled' PROVE rows'[p] \in {None, p}
  BY DEF RowsFitTheirDevices
<1>1. p \in Value /\ p \notin misled BY DEF Row, Value
<1>2. rows[p] \in {None, p} BY <1>1 DEF RowsFitTheirDevices
<1>3. CASE id = p
  <2>1. calm BY <1>3 DEF Row
  <2> QED BY <1>1, <1>3, <2>1 DEF Row, DevicesTypeOK
<1>4. CASE id # p
  BY <1>1, <1>2, <1>4 DEF Row, DevicesTypeOK
<1> QED BY <1>3, <1>4

LEMMA DevicesStep ==
  ASSUME DevicesInv, [DevicesNext]_deviceVars
  PROVE  DevicesInv'
<1> USE DEF DevicesInv
<1>1. CASE UNCHANGED deviceVars
  <2>1. DevicesTypeOK' BY <1>1 DEF DevicesTypeOK, deviceVars, store
  <2>2. Fitting'
    BY <1>1 DEF deviceVars, store, Fitting, CleanStore, CalmJobs, CalmSaves, Plain, Untouched,
                LetIn, Kept, KeepsAllOf, Pending, Sound
  <2>3. ManagersAreWhole' BY <1>1 DEF deviceVars, store, ManagersAreWhole
  <2>4. RowsFitTheirDevices' BY <1>1 DEF deviceVars, store, RowsFitTheirDevices
  <2> QED BY <2>1, <2>2, <2>3, <2>4
<1>2. ASSUME NEW t \in Tab, Guards(t) \/ SetsUp(t) \/ Manages(t)
      PROVE  DevicesInv'
  <2>1. DevicesTypeOK' BY <1>2, GuardsTyped, SetsUpTyped, ManagesTyped
  <2>2. Fitting' BY <1>2, GuardsFit, SetsUpFits, ManagesFits
  <2>3. ManagersAreWhole'
    <3>1. CASE manager' = manager
      BY <3>1 DEF ManagersAreWhole
    <3>2. CASE manager' = [manager EXCEPT ![t] = NoManager]
      BY <3>2 DEF ManagersAreWhole, NoManager, DevicesTypeOK
    <3>3. CASE Registers(t) /\ job[t].heeded
      <4>1. manager' = [manager EXCEPT ![t] = ManagerOf(job[t])] /\ job[t].at = "register"
        BY <3>3 DEF Registers
      <4>2. job[t].calm => Fits(job[t]) BY <4>1 DEF Fitting, CalmJobs, Sound
      <4> QED BY <4>1, <4>2 DEF ManagersAreWhole, ManagerOf, Fits, DevicesTypeOK
    <3> QED
      BY <1>2, <3>1, <3>2, <3>3
         DEF Guards, SetsUp, Manages, Opens, OpensKeys, Looks, Decides, LookFails, Closes,
             Creates, Imports, Saves, Puts, PutFails, Saved, Connects, GetsId, PutsId, Loads,
             Loaded, TakesLegacy, Generates, Stores, Stored, JobFails, Registers,
             RegistersWithHub
  <2>4. RowsFitTheirDevices'
    <3>1. CASE UNCHANGED <<rows, misled>>
      BY <3>1 DEF RowsFitTheirDevices
    <3>2. CASE Registers(t) /\ Row(job[t].id, job[t].spki, job[t].calm)
      <4>1. job[t].calm => Fits(job[t]) BY <3>2 DEF Fitting, CalmJobs, Sound, Registers
      <4>2. job[t].id \in Value BY DEF DevicesTypeOK, Creation
      <4> QED BY <3>2, <4>1, <4>2, RowFits DEF Fits
    <3>3. CASE RegistersWithHub(t)
      <4>1. manager[t].id \in Value BY DEF DevicesTypeOK, Manager
      <4>2. manager[t].calm => (manager[t].id \in Phrase => manager[t].spki = manager[t].id)
        BY DEF ManagersAreWhole
      <4> QED BY <3>3, <4>1, <4>2, RowFits DEF RegistersWithHub
    <3> QED
      BY <1>2, <3>1, <3>2, <3>3
         DEF Guards, SetsUp, Manages, Opens, OpensKeys, Looks, Decides, LookFails, Closes,
             Creates, Imports, Saves, Puts, PutFails, Saved, Connects, GetsId, PutsId, Loads,
             Loaded, TakesLegacy, Generates, Stores, Stored, JobFails, Registers
  <2> QED BY <2>1, <2>2, <2>3, <2>4
<1> QED BY <1>1, <1>2 DEF DevicesNext

LEMMA DevicesStart == DevicesInit => DevicesInv
<1> SUFFICES ASSUME DevicesInit PROVE DevicesInv OBVIOUS
<1>1. PICK k \in {None, Old}, i \in {None, Old} :
          db = [e \in Entry |-> CASE e = "legacy" -> k [] e = "id" -> i [] OTHER -> None]
  BY DEF DevicesInit
<1>2. /\ db["private"] = None /\ db["public"] = None /\ db["spki"] = None
      /\ db["legacy"] = k /\ db["id"] = i
  BY <1>1 DEF Entry
<1>3. db \in [Entry -> Value] BY <1>1 DEF Value
<1>4. DevicesTypeOK
  <2>1. /\ made = {} /\ turns = 0 /\ clean = TRUE /\ misled = {} BY DEF DevicesInit
  <2>2. /\ page \in [Tab -> Page] /\ save \in [Tab -> Save] /\ job \in [Tab -> Creation]
        /\ manager \in [Tab -> Manager]
    BY RecordsTyped DEF DevicesInit
  <2>3. rows \in [Value -> Value] BY DEF DevicesInit, Value
  <2>4. turns \in 0..MaxTurns BY <2>1, TurnsAssumption
  <2> QED BY <1>3, <2>1, <2>2, <2>3, <2>4 DEF DevicesTypeOK
<1>5. CleanStore
  <2>1. \A t \in Tab : LetIn(t) /\ ~Pending(t)
    <3>1. \A t \in Tab : page[t] = NoPage /\ save[t] = NoSave /\ job[t] = NoJob BY DEF DevicesInit
    <3>2. /\ NoPage.seen = {} /\ NoPage.at = "closed" /\ NoJob.at = "none" /\ NoSave.next = 6
      BY DEF NoPage, NoJob, NoSave
    <3>3. ASSUME NEW t \in Tab PROVE ~Pending(t)
      <4>1. save[t].next = 6 BY <3>1, <3>2
      <4>2. ~(6 < 6) OBVIOUS
      <4> QED BY <4>1, <4>2 DEF Pending
    <3>4. \A t \in Tab : page[t].seen = {} /\ page[t].at = "closed" /\ job[t].at = "none"
      BY <3>1, <3>2
    <3>5. ASSUME NEW t \in Tab PROVE LetIn(t)
      <4>1. page[t].seen \subseteq {"legacy"} BY <3>4
      <4>2. page[t].seen = {} /\ page[t].at # "app" /\ job[t].at = "none" BY <3>4
      <4> QED BY <4>1, <4>2 DEF LetIn
    <3> QED BY <3>3, <3>5
  <2>2. Plain BY <1>2, <2>1, PhrasesAreSomething DEF Plain, Untouched
  <2> QED BY <2>1, <2>2 DEF CleanStore
<1>6. CalmJobs /\ CalmSaves BY DEF DevicesInit, CalmJobs, CalmSaves, NoJob, NoSave
<1>7. ManagersAreWhole BY DEF DevicesInit, ManagersAreWhole, NoManager
<1>8. RowsFitTheirDevices BY DEF DevicesInit, RowsFitTheirDevices, Value
<1> QED BY <1>4, <1>5, <1>6, <1>7, <1>8 DEF DevicesInv, Fitting

\* The invariant that the theorems below follow from: a clean store has one
\* phrase's keys or none, and what calm set-ups have put and calm managers have
\* read is of that phrase (CryptKeyStorage, KeySetupPage, CryptKeyManager).
THEOREM DevicesInvariant == DevicesSpec => []DevicesInv
<1>1. DevicesInit => DevicesInv BY DevicesStart
<1>2. DevicesInv /\ [DevicesNext]_deviceVars => DevicesInv' BY DevicesStep
<1> QED BY <1>1, <1>2, PTL DEF DevicesSpec

\* The store, the tabs and the hub's rows have what their types say.
THEOREM DevicesTypeCorrect == DevicesSpec => []DevicesTypeOK
BY DevicesInvariant, PTL DEF DevicesInv

\* A set-up that runs to its end with nobody else writing leaves the keys and the
\* id of one phrase in the store, however broken it found it (initFromDerived).
THEOREM SetupsMendTheStore == DevicesSpec => []SetupsMend
<1>1. DevicesInv => SetupsMend BY DEF DevicesInv, Fitting, CleanStore, Plain, SetupsMend
<1> QED BY <1>1, DevicesInvariant, PTL

\* A manager made from a clean store while no set-up ran has a private key, a
\* public key and an id that belong together (CryptKeyManager.create).
THEOREM ManagersAreOfOnePhrase == DevicesSpec => []ManagersAreWhole
BY DevicesInvariant, PTL DEF DevicesInv

\* The guard of the routes stands before the fallback that makes a key pair which
\* no phrase restores: such a manager was made of a broken store (KeysRequired,
\* getOrCreateEcdhKeyPair).
THEOREM GuardsComeFirst == DevicesSpec => []OwnKeysOnlyAfterTrouble
<1>1. DevicesInv => OwnKeysOnlyAfterTrouble
  BY StoringIsNotCalm DEF DevicesInv, OwnKeysOnlyAfterTrouble
<1> QED BY <1>1, DevicesInvariant, PTL

\* Where members look up the key of a phrase's device, the hub has that phrase's
\* key, whichever tab has registered it last (RegisterDeviceKey).
THEOREM RowsStayRight == DevicesSpec => []RowsFitTheirDevices
BY DevicesInvariant, PTL DEF DevicesInv

=============================================================================
