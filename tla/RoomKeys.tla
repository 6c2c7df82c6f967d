------------------------------ MODULE RoomKeys ------------------------------
(***************************************************************************)
(* The AES keys of rooms: RoomClient of the pages, the relay's book of RSA   *)
(* keys and the hub service's ephemeral sessions.  Whoever finds a room      *)
(* empty generates its key; who does not asks the member that was there      *)
(* first, through the relay.  A page may be in a voice channel, have joined  *)
(* its hub's ephemeral room, or both, although its socket is in one room.    *)
(* What a page sends is handled by the relay at once; what the relay sends   *)
(* waits in the page's inbox, except for RSA keys: they are sent ahead of    *)
(* what needs them.  Every user has one page.                                *)
(***************************************************************************)
EXTENDS Integers, FiniteSets, Sequences, SequencesExt

CONSTANTS Pages,     \* the pages, one user each
          Voice,     \* voice channels
          Ephemeral, \* the hub's ephemeral room
          MaxOpens,  \* bound: pages ever opened
          MaxJoins,  \* bound: join-room events
          MaxKeys    \* bound: room keys generated

Rooms == Voice \cup {Ephemeral}
None == "none"

ASSUME RoomAssumption == Ephemeral \notin Voice /\ None \notin Rooms

VARIABLES
  \* the hub service
  active,      \* whether the ephemeral session is open
  \* the relay
  members,     \* the pages in each room, in order
  checking,    \* the room a page's join waits to be let in to
  rsa,         \* the RSA key registered for each page, 0 if none
  \* the pages
  gen,         \* the RSA pair of the page, 0 if it is closed
  inbox,       \* the events on their way to it
  pub,         \* userPublicKeys
  keys,        \* roomKeys, 0 if there is none
  cur,         \* currentRoomId
  calls,       \* the runs of RoomClient.joinRoom that have not ended
  voice,       \* the voice channel of its session
  waiting,     \* whether its ephemeral join waits for all-users
  joined,      \* whether it shows itself as joined
  seen,        \* whether its last poll found the session open
  \* bookkeeping
  opens, joins, made,
  ignored,     \* whether its request met a page without the key, or none
  disturbed    \* whether joins of a page overlapped or one failed; bound: users then
               \* join and leave no more

relay == <<members, checking, rsa>>
crypto == <<pub, keys, cur, calls>>
shown == <<voice, waiting, joined, seen>>
counts == <<opens, joins, made>>
notes == <<ignored, disturbed>>
vars == <<active, relay, gen, inbox, crypto, shown, counts, notes>>

\* The events of the relay that matter to keys.
Event(kind, room, page, key, wrapped, users) ==
  [kind |-> kind, room |-> room, page |-> page, key |-> key, wrapped |-> wrapped, users |-> users]
AllUsers(users) == Event("all-users", None, None, 0, 0, users)
Request(r, p, k) == Event("request", r, p, 0, k, <<>>)
Response(k, w) == Event("response", None, None, k, w, <<>>)

In(p, r) == r \in Rooms /\ p \in ToSet(members[r])
InRoom(p) == {r \in Rooms : In(p, r)}
Current(e) == e.kind = "request" /\ e.wrapped = gen[e.page]
Waits(p, kind) == \E i \in DOMAIN inbox[p] : inbox[p][i].kind = kind

\* A run of joinRoom: a key is generated, or the one to ask is waited for, then asked.
Call == [room : Rooms, stage : {"generating"}, from : {None}]
        \cup [room : Rooms, stage : {"seeking", "asked"}, from : Pages]

Message == [kind : {"all-users"}, room : {None}, page : {None}, key : {0}, wrapped : {0},
            users : Seq(Pages)]
           \cup [kind : {"request"}, room : Rooms, page : Pages, key : {0}, wrapped : Nat,
                 users : {<<>>}]
           \cup [kind : {"response"}, room : {None}, page : {None}, key : Nat, wrapped : Nat,
                 users : {<<>>}]

TypeOK ==
  /\ active \in BOOLEAN
  /\ members \in [Rooms -> Seq(Pages)] /\ checking \in [Pages -> Rooms \cup {None}]
  /\ rsa \in [Pages -> Nat] /\ gen \in [Pages -> Nat]
  /\ inbox \in [Pages -> Seq(Message)]
  /\ pub \in [Pages -> [Pages -> Nat]] /\ keys \in [Pages -> [Rooms -> Nat]]
  /\ cur \in [Pages -> Rooms \cup {None}] /\ calls \in [Pages -> SUBSET Call]
  /\ voice \in [Pages -> Voice \cup {None}] /\ waiting \in [Pages -> BOOLEAN]
  /\ joined \in [Pages -> BOOLEAN] /\ seen \in [Pages -> BOOLEAN]
  /\ opens \in Nat /\ joins \in Nat /\ made \in Nat
  /\ ignored \in [Pages -> BOOLEAN] /\ disturbed \in BOOLEAN

\* The page has begun to join and has not finished.
Joining(p) == checking[p] # None \/ calls[p] # {} \/ Waits(p, "all-users")

-----------------------------------------------------------------------------
(* The relay's side                                                         *)

\* Nobody is twice in a list of users.
Lacking(users, p) ==
  IF p \in ToSet(users) THEN RemoveAt(users, CHOOSE i \in DOMAIN users : users[i] = p) ELSE users

\* The socket leaves the room it is in; "kept" is one it may stay in.
Without(p, kept) ==
  [r \in Rooms |-> IF r = kept THEN members[r] ELSE Lacking(members[r], p)]

\* join-room sends the RSA keys of those in the room and of the newcomer around;
\* one whose join is still being checked is not in the room.
Introduced(p, r) ==
  [q \in Pages |->
    IF q = p THEN [o \in Pages |-> IF o # p /\ In(o, r) THEN rsa[o] ELSE pub[p][o]]
    ELSE [pub[q] EXCEPT ![p] = IF In(q, r) THEN rsa[p] ELSE @]]

\* join-room: out of the old room at once, into the new one after the check.
Join(p, r) ==
  /\ joins < MaxJoins /\ joins' = joins + 1 /\ ~disturbed
  /\ checking[p] = None
  /\ checking' = [checking EXCEPT ![p] = r]
  /\ members' = Without(p, r)
  /\ pub' = Introduced(p, r)
  /\ UNCHANGED <<active, rsa, gen, inbox, calls, opens, made>>

\* The access check is passed: the newcomer is told who is there.
Granted(p) ==
  LET r == checking[p] IN
  /\ r # None
  /\ members' = [members EXCEPT ![r] = IF In(p, r) THEN @ ELSE Append(@, p)]
  /\ checking' = [checking EXCEPT ![p] = None]
  /\ inbox' = [inbox EXCEPT ![p] = Append(@, AllUsers(Lacking(members[r], p)))]
  /\ UNCHANGED <<active, rsa, gen, crypto, shown, counts, notes>>

\* It is refused; whoever waits for all-users keeps waiting.
Refused(p) ==
  /\ checking[p] # None
  /\ checking' = [checking EXCEPT ![p] = None]
  /\ disturbed' = TRUE
  /\ UNCHANGED <<active, members, rsa, gen, inbox, crypto, shown, counts, ignored>>

-----------------------------------------------------------------------------
(* RoomClient                                                               *)

\* A page is opened: it makes an RSA pair and registers it.
Open(p) ==
  /\ gen[p] = 0 /\ opens < MaxOpens
  /\ opens' = opens + 1
  /\ gen' = [gen EXCEPT ![p] = opens'] /\ rsa' = [rsa EXCEPT ![p] = opens']
  /\ UNCHANGED <<active, members, checking, inbox, crypto, shown, joins, made, notes>>

\* It is closed, and forgets everything; the relay forgets its key, and its join
\* (one that is let in all the same is a subject of RealtimeRooms).
Close(p) ==
  /\ gen[p] # 0
  /\ gen' = [gen EXCEPT ![p] = 0] /\ rsa' = [rsa EXCEPT ![p] = 0]
  /\ members' = Without(p, None) /\ checking' = [checking EXCEPT ![p] = None]
  /\ inbox' = [inbox EXCEPT ![p] = <<>>]
  /\ pub' = [pub EXCEPT ![p] = [q \in Pages |-> 0]]
  /\ keys' = [keys EXCEPT ![p] = [r \in Rooms |-> 0]]
  /\ cur' = [cur EXCEPT ![p] = None] /\ calls' = [calls EXCEPT ![p] = {}]
  /\ voice' = [voice EXCEPT ![p] = None] /\ waiting' = [waiting EXCEPT ![p] = FALSE]
  /\ joined' = [joined EXCEPT ![p] = FALSE] /\ seen' = [seen EXCEPT ![p] = FALSE]
  /\ ignored' = [q \in Pages |->
       ignored[q] \/ \E i \in DOMAIN inbox[p] : Current(inbox[p][i]) /\ inbox[p][i].page = q]
  /\ UNCHANGED <<active, counts, disturbed>>

\* leaveRoom: only the current room's key goes.
Forgets(p) ==
  /\ keys' = [keys EXCEPT ![p] = [r \in Rooms |-> IF r = cur[p] THEN 0 ELSE @[r]]]
  /\ cur' = [cur EXCEPT ![p] = None]

\* The rooms that all-users is taken for: the session's and the awaited one.
TakenFor(p) == ({voice[p]} \ {None}) \cup IF waiting[p] THEN {Ephemeral} ELSE {}

\* Mutant: a room with one other member counts as empty.
JoinsFew(p, r, users) ==
  {[room |-> r, stage |-> IF Len(users) < 2 THEN "generating" ELSE "seeking",
    from |-> IF users = <<>> THEN None ELSE Head(users)]}

\* joinRoom: a key is generated for an empty room, else the first one there asked.
Joins(p, r, users) ==
  {[room |-> r, stage |-> IF users = <<>> THEN "generating" ELSE "seeking",
    from |-> IF users = <<>> THEN None ELSE Head(users)]}

\* all-users arrives; it does not say of which room.
HearsUsers(p) ==
  /\ inbox[p] # <<>> /\ Head(inbox[p]).kind = "all-users"
  /\ inbox' = [inbox EXCEPT ![p] = Tail(@)]
  /\ calls' = [calls EXCEPT ![p] =
       @ \cup UNION {Joins(p, r, Head(inbox[p]).users) : r \in TakenFor(p)}]
  /\ cur' = [cur EXCEPT ![p] = IF waiting[p] THEN Ephemeral
                               ELSE IF voice[p] # None THEN voice[p] ELSE @]
  /\ waiting' = [waiting EXCEPT ![p] = FALSE]
  /\ UNCHANGED <<active, relay, gen, pub, keys, voice, joined, seen, counts, notes>>

\* What ends well is filed, and shown if it was the ephemeral join.
Files(p, ended, k) ==
  /\ keys' = [keys EXCEPT ![p] = [r \in Rooms |-> IF \E c \in ended : c.room = r THEN k ELSE @[r]]]
  /\ calls' = [calls EXCEPT ![p] = @ \ ended]
  /\ joined' = [joined EXCEPT ![p] = @ \/ \E c \in ended : c.room = Ephemeral]

\* The key is generated.
Generates(p, c) ==
  /\ c \in calls[p] /\ c.stage = "generating" /\ made < MaxKeys
  /\ made' = made + 1
  /\ Files(p, {c}, made')
  /\ UNCHANGED <<active, relay, gen, inbox, pub, cur, voice, waiting, seen, opens, joins, notes>>

\* requestRoomKey, once the RSA key of the one to ask is known.  The relay passes
\* it on within a room, after the RSA key of the one who asks.
Asks(p, c) ==
  /\ c \in calls[p] /\ c.stage = "seeking" /\ pub[p][c.from] # 0
  /\ calls' = [calls EXCEPT ![p] = (@ \ {c}) \cup {[c EXCEPT !.stage = "asked"]}]
  /\ LET relayed == In(p, c.room) /\ In(c.from, c.room) IN
     /\ inbox' = IF relayed
                 THEN [inbox EXCEPT ![c.from] = Append(@, Request(c.room, p, rsa[p]))] ELSE inbox
     /\ ignored' = [ignored EXCEPT ![p] = ~relayed]
  /\ UNCHANGED <<active, relay, gen, pub, keys, cur, shown, counts, disturbed>>

\* It takes too long: a run ends without a key.  Time is long enough for what is
\* on its way.
GivesUp(p, c) ==
  /\ c \in calls[p]
  /\ \/ c.stage = "seeking" /\ pub[p][c.from] = 0
     \/ c.stage = "asked" /\ ~Waits(p, "response") /\ ~Waits(c.from, "request")
  /\ calls' = [calls EXCEPT ![p] = @ \ {c}]
  /\ disturbed' = TRUE
  /\ UNCHANGED <<active, relay, gen, inbox, pub, keys, cur, shown, counts, ignored>>

\* Mutant: only the key of the voice channel is given.
HearsRequestInVoice(p) ==
  LET e == Head(inbox[p])
      k == keys[p][e.room]
      rest == [inbox EXCEPT ![p] = Tail(@)] IN
  /\ inbox[p] # <<>> /\ e.kind = "request"
  /\ pub' = [pub EXCEPT ![p][e.page] = e.wrapped]
  /\ inbox' = IF k # 0 /\ voice[p] = e.room /\ gen[e.page] # 0
              THEN [rest EXCEPT ![e.page] = Append(@, Response(k, e.wrapped))] ELSE rest
  /\ ignored' = [ignored EXCEPT ![e.page] = @ \/ (k = 0 /\ Current(e))]
  /\ UNCHANGED <<active, relay, gen, keys, cur, calls, shown, counts, disturbed>>

\* handleRoomKeyRequest: silence if it has no key for the room; the relay passes
\* the answer on wherever the one who asked is.
HearsRequest(p) ==
  LET e == Head(inbox[p])
      k == keys[p][e.room]
      rest == [inbox EXCEPT ![p] = Tail(@)] IN
  /\ inbox[p] # <<>> /\ e.kind = "request"
  /\ pub' = [pub EXCEPT ![p][e.page] = e.wrapped]
  /\ inbox' = IF k # 0 /\ gen[e.page] # 0
              THEN [rest EXCEPT ![e.page] = Append(@, Response(k, e.wrapped))] ELSE rest
  /\ ignored' = [ignored EXCEPT ![e.page] = @ \/ (k = 0 /\ Current(e))]
  /\ UNCHANGED <<active, relay, gen, keys, cur, calls, shown, counts, disturbed>>

\* room-key-response: everyone who waits for one takes it, if it can be opened.
HearsResponse(p) ==
  LET e == Head(inbox[p])
      asked == {c \in calls[p] : c.stage = "asked"} IN
  /\ inbox[p] # <<>> /\ e.kind = "response"
  /\ inbox' = [inbox EXCEPT ![p] = Tail(@)]
  /\ IF e.wrapped = gen[p] THEN Files(p, asked, e.key) /\ UNCHANGED disturbed
     ELSE /\ calls' = [calls EXCEPT ![p] = @ \ asked]
          /\ disturbed' = (disturbed \/ asked # {})
          /\ UNCHANGED <<keys, joined>>
  /\ UNCHANGED <<active, relay, gen, pub, cur, voice, waiting, seen, counts, ignored>>

-----------------------------------------------------------------------------
(* The user                                                                 *)

\* A voice channel is joined, after the one before is left.
JoinVoice(p, r) ==
  /\ gen[p] # 0 /\ voice[p] # r
  /\ Join(p, r)
  /\ IF voice[p] # None THEN Forgets(p) ELSE UNCHANGED <<keys, cur>>
  /\ voice' = [voice EXCEPT ![p] = r]
  /\ disturbed' = (Joining(p) \/ joined[p] \/ In(p, Ephemeral))
  /\ UNCHANGED <<waiting, joined, seen, ignored>>

\* The ephemeral room is joined.
JoinEphemeral(p) ==
  /\ gen[p] # 0 /\ seen[p] /\ ~waiting[p] /\ ~joined[p]
  /\ Join(p, Ephemeral)
  /\ waiting' = [waiting EXCEPT ![p] = TRUE]
  /\ disturbed' = (Joining(p) \/ voice[p] # None \/ InRoom(p) # {})
  /\ UNCHANGED <<keys, cur, voice, joined, seen, ignored>>

\* A leave-room leaves whatever room the socket is in.
Leaves(p) ==
  /\ members' = Without(p, None)
  /\ Forgets(p)
  /\ ~disturbed /\ disturbed' = Joining(p)
  /\ UNCHANGED <<checking, rsa, gen, inbox, pub, calls, counts, ignored>>

\* useVoIP's leaveRoom.
LeaveVoice(p) ==
  /\ voice[p] # None
  /\ Leaves(p)
  /\ voice' = [voice EXCEPT ![p] = None]
  /\ UNCHANGED <<active, waiting, joined, seen>>

LeaveEphemeral(p) ==
  /\ joined[p]
  /\ Leaves(p)
  /\ joined' = [joined EXCEPT ![p] = FALSE]
  /\ UNCHANGED <<active, voice, waiting, seen>>

\* The session is ended for everybody, by a page that leaves with it.
EndEphemeral(p) ==
  /\ joined[p]
  /\ Leaves(p)
  /\ joined' = [joined EXCEPT ![p] = FALSE]
  /\ active' = FALSE /\ seen' = [seen EXCEPT ![p] = FALSE]
  /\ UNCHANGED <<voice, waiting>>

-----------------------------------------------------------------------------
(* The ephemeral session                                                    *)

StartEphemeral(p) ==
  /\ gen[p] # 0 /\ ~seen[p]
  /\ active' = TRUE
  /\ seen' = [seen EXCEPT ![p] = TRUE]
  /\ UNCHANGED <<relay, gen, inbox, crypto, voice, waiting, joined, counts, notes>>

\* It has lasted its half hour: the next request finds it gone.
Expires ==
  /\ active
  /\ active' = FALSE
  /\ UNCHANGED <<relay, gen, inbox, crypto, shown, counts, notes>>

\* The poll: a session that is over is not shown, but its room is not left.
Polls(p) ==
  /\ gen[p] # 0 /\ seen[p] # active
  /\ seen' = [seen EXCEPT ![p] = active]
  /\ joined' = [joined EXCEPT ![p] = @ /\ active]
  /\ UNCHANGED <<active, relay, gen, inbox, crypto, voice, waiting, counts, notes>>

-----------------------------------------------------------------------------
Init ==
  /\ active = FALSE
  /\ members = [r \in Rooms |-> <<>>] /\ checking = [p \in Pages |-> None]
  /\ rsa = [p \in Pages |-> 0] /\ gen = [p \in Pages |-> 0]
  /\ inbox = [p \in Pages |-> <<>>]
  /\ pub = [p \in Pages |-> [q \in Pages |-> 0]]
  /\ keys = [p \in Pages |-> [r \in Rooms |-> 0]]
  /\ cur = [p \in Pages |-> None] /\ calls = [p \in Pages |-> {}]
  /\ voice = [p \in Pages |-> None] /\ waiting = [p \in Pages |-> FALSE]
  /\ joined = [p \in Pages |-> FALSE] /\ seen = [p \in Pages |-> FALSE]
  /\ opens = 0 /\ joins = 0 /\ made = 0
  /\ ignored = [p \in Pages |-> FALSE] /\ disturbed = FALSE

Hears(p) == HearsUsers(p) \/ HearsRequest(p) \/ HearsResponse(p)
Works(p) == \E c \in calls[p] : Generates(p, c) \/ Asks(p, c) \/ GivesUp(p, c)
Acts(p) ==
  \/ Open(p) \/ Close(p) \/ LeaveVoice(p) \/ JoinEphemeral(p) \/ LeaveEphemeral(p)
  \/ StartEphemeral(p) \/ EndEphemeral(p) \/ \E r \in Voice : JoinVoice(p, r)

Next ==
  \/ \E p \in Pages : Hears(p) \/ Works(p) \/ Granted(p) \/ Refused(p) \/ Polls(p) \/ Acts(p)
  \/ Expires

Spec == Init /\ [][Next]_vars

-----------------------------------------------------------------------------
\* As long as no page joins a room while it is in another or is still joining one,
\* or leaves while it is, and none is refused or left without an answer: members
\* of a room that have finished joining hold one and the same key, although rooms
\* empty and fill again and pages are closed while requests are on their way.
KeysAgree ==
  ~disturbed =>
    \A r \in Rooms : \A p, q \in ToSet(members[r]) :
      /\ calls[p] = {} /\ calls[q] = {}
      /\ ~Waits(p, "all-users") /\ ~Waits(q, "all-users")
      => keys[p][r] = keys[q][r]

\* A page that waits for a member that has the key has its request or the answer,
\* with that same key, on the way, unless the member was away, had no key yet or was
\* closed when the request met it: whatever pages leave, close and come back, no
\* answer goes to another page, to another pair of keys or with another key.
HoldersAnswer ==
  ~disturbed =>
    \A p \in Pages : \A c \in calls[p] :
      c.stage = "asked" /\ In(c.from, c.room) /\ keys[c.from][c.room] # 0 /\ ~ignored[p] =>
        \/ Request(c.room, p, gen[p]) \in ToSet(inbox[c.from])
        \/ Response(keys[c.from][c.room], gen[p]) \in ToSet(inbox[p])
=============================================================================
