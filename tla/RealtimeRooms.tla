--------------------------- MODULE RealtimeRooms ---------------------------
(***************************************************************************)
(* Room membership in the realtime service (services/realtime): Socket.IO  *)
(* event handlers of one Node process over two in-memory maps.             *)
(*                                                                         *)
(* Node runs one callback at a time, so a handler is atomic up to its      *)
(* `await`.  The only awaits are the two HTTP calls to the hub service:    *)
(* the access check inside join-room, and the one of the five-minute       *)
(* revalidation timer.  Each is two actions here, the part before and the  *)
(* part after, and everything else interleaves between them.               *)
(*                                                                         *)
(* A Room object is a Map entry, and a join keeps the object it read       *)
(* before its await.  The object is not given an identity of its own: when *)
(* a room is dropped, the joins that hold it become `stale` and keep the   *)
(* user list it had at that moment, which nothing writes again.            *)
(***************************************************************************)
EXTENDS Naturals

CONSTANTS
    Socket,   \* connections; a Socket.IO connection is never reused
    Room,     \* room ids
    NoRoom,   \* undefined
    Slot,     \* bound: the join-room calls in flight at once
    \* Bounds of a run: where an event of each kind is explored.
    HostRoom, \* rooms that POST and DELETE /api/rooms name
    OldRoom,  \* rooms that reach 24 hours
    Timed,    \* sockets whose revalidation timer fires
    Sharer,   \* sockets that share their screen
    Revocable \* sockets whose user's access changes

ASSUME NoRoomAssumption == NoRoom \notin Room
ASSUME SlotAssumption   == Slot # {}
ASSUME BoundAssumption  ==
    /\ HostRoom \subseteq Room /\ OldRoom \subseteq Room
    /\ Timed \subseteq Socket /\ Sharer \subseteq Socket /\ Revocable \subseteq Socket

VARIABLES
    alive,    \* the process has not died of an uncaught exception
    open,     \* connected sockets (a fresh connection shares no state)
    access,   \* hub service: who may enter which room now
    rooms,    \* roomManager.rooms: "none", or "fresh"/"aged" by 24 hours
    owned,    \* rooms whose createdBy holds a user id (not a username)
    members,  \* keys of room.users
    shares,   \* keys of room.activeScreenShares
    users,    \* roomManager.users: the roomId recorded for a socket
    roomId,   \* socket.roomId
    chans,    \* Socket.IO rooms the socket listens to
    joins,    \* handleJoinRoom calls at their await
    recheck,  \* revalidation callback at its await, one per socket
    peers,    \* what the emitted events told each client of its peers
    overlapped, lateClosed, hostClosed   \* history, see below

state   == <<rooms, owned, members, shares, users, roomId, chans, joins, peers>>
history == <<overlapped, lateClosed, hostClosed>>
vars    == <<alive, open, access, recheck, state, history>>

\* The three histories record what the code leaves open, so that a property can
\* say precisely where it stops holding; no action reads them.
\*   overlapped  sockets that sent join-room while another was unanswered
\*   lateClosed  sockets that disconnected while a join-room was unanswered
\*   hostClosed  rooms that DELETE /api/rooms/:roomId has closed

\* A call to checkChannelAccess.  The hub decides at some moment of the await:
\* "yes" needs access at one of its moments (`may`); "no" is also any error.
NoCheck == [room |-> NoRoom, may |-> FALSE]
Check   == [room: Room \cup {NoRoom}, may: BOOLEAN]
Join    == [sock: Socket, slot: Slot, room: Room, may: BOOLEAN,
            stale: BOOLEAN, listed: SUBSET Socket]

TypeOK ==
    /\ alive   \in BOOLEAN
    /\ open    \in SUBSET Socket
    /\ access  \in SUBSET (Socket \X Room)
    /\ rooms   \in [Room -> {"none", "fresh", "aged"}]
    /\ owned   \in SUBSET Room
    /\ members \in [Room -> SUBSET Socket]
    /\ shares  \in [Room -> SUBSET Socket]
    /\ users   \in [Socket -> Room \cup {NoRoom}]
    /\ roomId  \in [Socket -> Room \cup {NoRoom}]
    /\ chans   \in [Socket -> SUBSET Room]
    /\ joins   \in SUBSET Join
    /\ recheck \in [Socket -> Check]
    /\ peers   \in [Socket -> SUBSET Socket]
    /\ overlapped \in SUBSET Socket
    /\ lateClosed \in SUBSET Socket
    /\ hostClosed \in SUBSET Room

Init ==
    /\ alive   = TRUE
    /\ open    = Socket
    /\ access  = Socket \X Room
    /\ rooms   = [r \in Room |-> "none"]
    /\ owned   = {}
    /\ members = [r \in Room |-> {}]
    /\ shares  = [r \in Room |-> {}]
    /\ users   = [s \in Socket |-> NoRoom]
    /\ roomId  = [s \in Socket |-> NoRoom]
    /\ chans   = [s \in Socket |-> {}]
    /\ joins   = {}
    /\ recheck = [s \in Socket |-> NoCheck]
    /\ peers   = [s \in Socket |-> {}]
    /\ overlapped = {} /\ lateClosed = {} /\ hostClosed = {}

-----------------------------------------------------------------------------
(* Room manager operations                                                 *)

Exists(r) == r \in Room /\ rooms[r] # "none"

\* createRoom under the `if (!rooms.has(roomId))` of both callers.
Created(rs, r) == [rs EXCEPT ![r] = IF @ = "none" THEN "fresh" ELSE @]

\* A dropped room leaves its object with the joins that hold it.
Detach(js, dropped, list) ==
    {IF j.room \in dropped /\ ~j.stale
     THEN [j EXCEPT !.stale = TRUE, !.listed = list[j.room]] ELSE j : j \in js}

\* socket.to(r).emit('user-disconnected', s): everyone else listening to r.
Forget(s, r) ==
    [t \in Socket |-> IF t # s /\ r \in chans[t] THEN peers[t] \ {s} ELSE peers[t]]

\* useRoomSession forgets its peers when the client leaves or changes rooms.
Departed(s, r) == [Forget(s, r) EXCEPT ![s] = {}]

\* leaveRoom(socket, r): the room and directory entries, the Socket.IO room,
\* the notice to the others, and the room itself when it is empty.  It does
\* nothing when the room is unknown.  `unshared` is what the caller removed
\* from the share list of r beforehand; the caller updates joins and roomId.
Emptied(s, r) == {x \in Room : x = r /\ Exists(r) /\ members[r] \subseteq {s}}

\* Mutant: room.users is not touched.
LeaveKeepsMember(s, r, unshared) ==
    /\ users' = IF Exists(r) THEN [users EXCEPT ![s] = NoRoom] ELSE users
    /\ UNCHANGED <<members, owned, shares>>

LeaveRoom(s, r, unshared) ==
    /\ members' = [x \in Room |-> IF x = r THEN members[x] \ {s} ELSE members[x]]
    /\ owned'   = owned \ Emptied(s, r)
    /\ shares'  = [x \in Room |->
                     IF x \in Emptied(s, r) THEN {}
                     ELSE IF x = r THEN shares[x] \ unshared ELSE shares[x]]
    /\ users'   = IF Exists(r) THEN [users EXCEPT ![s] = NoRoom] ELSE users

RoomsLeft(s, r) == [x \in Room |-> IF x \in Emptied(s, r) THEN "none" ELSE rooms[x]]
JoinsLeft(s, r) == Detach(joins, Emptied(s, r), [x \in Room |-> {}])

\* Mutants: socket.leave is forgotten; the socket leaves every room.
ChansKept(s, r)    == chans
ChansCleared(s, r) == [chans EXCEPT ![s] = {}]
ChansLeft(s, r) == IF Exists(r) THEN [chans EXCEPT ![s] = @ \ {r}] ELSE chans

-----------------------------------------------------------------------------
(* The hub service's decisions                                             *)

Grant(s, r) ==
    /\ s \in Revocable
    /\ <<s, r>> \notin access
    /\ access'  = access \cup {<<s, r>>}
    /\ joins'   = {IF j.sock = s /\ j.room = r THEN [j EXCEPT !.may = TRUE] ELSE j : j \in joins}
    /\ recheck' = IF recheck[s].room = r THEN [recheck EXCEPT ![s].may = TRUE] ELSE recheck
    /\ UNCHANGED <<alive, open, rooms, owned, members, shares, users, roomId,
                   chans, peers, history>>

Revoke(s, r) ==
    /\ s \in Revocable
    /\ <<s, r>> \in access
    /\ access' = access \ {<<s, r>>}
    /\ UNCHANGED <<alive, open, recheck, state, history>>

-----------------------------------------------------------------------------
(* join-room                                                               *)

Joining(s) == \E j \in joins : j.sock = s

\* The room to leave first.
OtherRoom(s, r) == IF roomId[s] # r THEN roomId[s] ELSE NoRoom

\* handleJoinRoom up to its await: leave another room, make sure the room
\* exists, remember its object.
JoinBegin(s, r, k) ==
    LET old == OtherRoom(s, r)
    IN  /\ s \in open
        /\ \A j \in joins : j.slot # k
        /\ LeaveRoom(s, old, {s})
        /\ rooms'  = Created(RoomsLeft(s, old), r)
        /\ chans'  = ChansLeft(s, old)
        /\ peers'  = IF old = NoRoom THEN peers
                     ELSE IF Exists(old) THEN Departed(s, old) ELSE [peers EXCEPT ![s] = {}]
        /\ roomId' = IF old # NoRoom THEN [roomId EXCEPT ![s] = NoRoom] ELSE roomId
        /\ joins'  = JoinsLeft(s, old) \cup
                       {[sock |-> s, slot |-> k, room |-> r,
                         may |-> <<s, r>> \in access, stale |-> FALSE, listed |-> {}]}
        /\ overlapped' = overlapped \cup {x \in {s} : Joining(s)}
        /\ UNCHANGED <<alive, open, access, recheck, lateClosed, hostClosed>>

\* join-error; a room created for this join stays.
JoinDenied(j) ==
    /\ joins' = joins \ {j}
    /\ UNCHANGED <<alive, open, access, recheck, rooms, owned, members, shares,
                   users, roomId, chans, peers, history>>

\* user-connected to the room, all-users to the joiner.  Mutant: no notice.
AnnounceNobody(s, r, list) ==
    [peers EXCEPT ![s] = IF s \in open THEN list \ {s} ELSE @]
Announce(s, r, list) ==
    [t \in Socket |->
        IF t = s THEN IF s \in open THEN list \ {s} ELSE peers[t]
        ELSE IF r \in chans[t] THEN peers[t] \cup {s} ELSE peers[t]]

\* The rest of joinRoom and handleJoinRoom: nothing asks whether the socket is
\* still connected or has since joined or left elsewhere.  Socket.IO ignores
\* join() on a closed socket.  all-users lists the object read before the await.
JoinGranted(j) ==
    LET s    == j.sock
        r    == j.room
        list == IF j.stale THEN j.listed ELSE members'[r]
    IN  /\ j.may
        /\ rooms'   = Created(rooms, r)
        /\ owned'   = IF Exists(r) THEN owned ELSE owned \cup {r}
        /\ members' = [members EXCEPT ![r] = @ \cup {s}]
        /\ users'   = [users EXCEPT ![s] = r]
        /\ roomId'  = [roomId EXCEPT ![s] = r]
        /\ chans'   = IF s \in open THEN [chans EXCEPT ![s] = @ \cup {r}] ELSE chans
        /\ peers'   = Announce(s, r, list)
        /\ joins'   = joins \ {j}
        /\ UNCHANGED <<alive, open, access, recheck, shares, history>>

-----------------------------------------------------------------------------
(* leave-room, disconnect                                                  *)

HandleLeaveRoom(s) ==
    LET r == roomId[s]
    IN  /\ s \in open
        /\ r # NoRoom
        /\ LeaveRoom(s, r, {s})
        /\ rooms'  = RoomsLeft(s, r)
        /\ joins'  = JoinsLeft(s, r)
        /\ chans'  = ChansLeft(s, r)
        /\ peers'  = Departed(s, r)
        /\ roomId' = [roomId EXCEPT ![s] = NoRoom]
        /\ UNCHANGED <<alive, open, access, recheck, history>>

\* handleDisconnect, from a lost transport or the expired-token timer.  The
\* screen share is not removed, and socket.roomId keeps its value.
HandleDisconnect(s) ==
    LET r == roomId[s]
    IN  /\ s \in open
        /\ open' = open \ {s}
        /\ IF r # NoRoom
           THEN LeaveRoom(s, r, {})
           ELSE /\ users' = [users EXCEPT ![s] = NoRoom]
                /\ UNCHANGED <<members, owned, shares>>
        /\ rooms'  = RoomsLeft(s, r)
        /\ joins'  = JoinsLeft(s, r)
        /\ chans'  = [chans EXCEPT ![s] = {}]
        /\ peers'  = Departed(s, r)
        /\ lateClosed' = lateClosed \cup {x \in {s} : Joining(s)}
        /\ UNCHANGED <<alive, access, recheck, roomId, overlapped, hostClosed>>

-----------------------------------------------------------------------------
(* Revalidation timer                                                      *)

RecheckTick(s) ==
    /\ s \in open \cap Timed
    /\ roomId[s] # NoRoom
    /\ recheck[s] = NoCheck
    /\ recheck' = [recheck EXCEPT ![s] = [room |-> roomId[s],
                                               may  |-> <<s, roomId[s]>> \in access]]
    /\ UNCHANGED <<alive, open, access, state, history>>

\* Mutant: any answer passes.
RecheckAnyway(s) ==
    /\ recheck[s].room # NoRoom
    /\ recheck' = [recheck EXCEPT ![s] = NoCheck]
    /\ UNCHANGED <<alive, open, access, state, history>>

RecheckPassed(s) ==
    /\ recheck[s].room # NoRoom
    /\ recheck[s].may
    /\ recheck' = [recheck EXCEPT ![s] = NoCheck]
    /\ UNCHANGED <<alive, open, access, state, history>>

\* forceLeaveRoom: leaves the room the socket is in *now*; socket.roomId and
\* the screen share stay.
ForceLeave(s) ==
    LET r == roomId[s]
    IN  /\ recheck[s].room # NoRoom
        /\ recheck' = [recheck EXCEPT ![s] = NoCheck]
        /\ LeaveRoom(s, r, {})
        /\ rooms'  = RoomsLeft(s, r)
        /\ joins'  = JoinsLeft(s, r)
        /\ chans'  = ChansLeft(s, r)
        /\ peers'  = IF Exists(r) THEN Forget(s, r) ELSE peers
        /\ UNCHANGED <<alive, open, access, roomId, history>>

-----------------------------------------------------------------------------
(* Screen shares, aliases, cleanup                                         *)

ScreenshareStarted(s) ==
    /\ s \in open \cap Sharer
    /\ Exists(roomId[s])
    /\ shares' = [shares EXCEPT ![roomId[s]] = @ \cup {s}]
    /\ UNCHANGED <<alive, open, access, recheck, rooms, owned, members, users,
                   roomId, chans, joins, peers, history>>

ScreenshareStopped(s) ==
    /\ s \in open
    /\ Exists(roomId[s])
    /\ shares' = [shares EXCEPT ![roomId[s]] = @ \ {s}]
    /\ UNCHANGED <<alive, open, access, recheck, rooms, owned, members, users,
                   roomId, chans, joins, peers, history>>

\* updateUserAlias dereferences room.users.get(socketId)! : a missing entry is
\* a TypeError in an event listener, which nothing catches.
UserUpdate(s) ==
    /\ s \in open
    /\ users[s] # NoRoom
    /\ alive' = (Exists(users[s]) => s \in members[users[s]])
    /\ UNCHANGED <<open, access, recheck, state, history>>

\* 24 hours pass for a room (no HTTP call to the hub stays open that long).
Ages(r) ==
    /\ rooms[r] = "fresh"
    /\ ~ \E j \in joins : j.room = r
    /\ rooms' = [rooms EXCEPT ![r] = "aged"]
    /\ UNCHANGED <<alive, open, access, recheck, owned, members, shares, users,
                   roomId, chans, joins, peers, history>>

\* One tick of startCleanupInterval: all empty rooms older than 24 hours.
Cleanup ==
    LET dead == {r \in Room : rooms[r] = "aged" /\ members[r] = {}}
    IN  /\ dead # {}
        /\ rooms'  = [r \in Room |-> IF r \in dead THEN "none" ELSE rooms[r]]
        /\ owned'  = owned \ dead
        /\ shares' = [r \in Room |-> IF r \in dead THEN {} ELSE shares[r]]
        /\ joins'  = Detach(joins, dead, members)
        /\ UNCHANGED <<alive, open, access, recheck, members, users, roomId,
                       chans, peers, history>>

-----------------------------------------------------------------------------
(* REST endpoints                                                          *)

PostRoom(r) ==
    /\ rooms[r] = "none"
    /\ rooms' = Created(rooms, r)
    /\ owned' = owned \cup {r}
    /\ UNCHANGED <<alive, open, access, recheck, members, shares, users, roomId,
                   chans, joins, peers, history>>

\* By the user in createdBy.  room-closed is emitted, and only the room's entry
\* goes: the directory, socket.roomId and the Socket.IO room keep theirs.
DeleteRoom(r) ==
    /\ Exists(r)
    /\ r \in owned
    /\ rooms'   = [rooms EXCEPT ![r] = "none"]
    /\ owned'   = owned \ {r}
    /\ members' = [members EXCEPT ![r] = {}]
    /\ shares'  = [shares EXCEPT ![r] = {}]
    /\ joins'   = Detach(joins, {r}, members)
    /\ peers'   = [s \in Socket |-> IF r \in chans[s] THEN {} ELSE peers[s]]
    /\ hostClosed' = hostClosed \cup {r}
    /\ UNCHANGED <<alive, open, access, recheck, users, roomId, chans,
                   overlapped, lateClosed>>

-----------------------------------------------------------------------------
SocketStep(s) ==
    \/ \E r \in Room : Grant(s, r) \/ Revoke(s, r)
    \/ \E r \in Room, k \in Slot : JoinBegin(s, r, k)
    \/ HandleLeaveRoom(s)
    \/ HandleDisconnect(s)
    \/ RecheckTick(s)
    \/ RecheckPassed(s)
    \/ ForceLeave(s)
    \/ ScreenshareStarted(s)
    \/ ScreenshareStopped(s)
    \/ UserUpdate(s)

JoinStep(j) ==
    \/ JoinDenied(j)
    \/ JoinGranted(j)

Next ==
    /\ alive
    /\ \/ \E s \in Socket : SocketStep(s)
       \/ \E j \in joins : JoinStep(j)
       \/ \E r \in OldRoom : Ages(r)
       \/ \E r \in HostRoom : PostRoom(r) \/ DeleteRoom(r)
       \/ Cleanup

Spec == Init /\ [][Next]_vars

\* setInterval fires again and again while the process runs, and fetch always
\* settles (undici's header and body timeouts); what clients do is their choice.
Fairness ==
    \A s \in Socket :
        /\ WF_vars(alive /\ RecheckTick(s))
        /\ WF_vars(alive /\ (RecheckPassed(s) \/ ForceLeave(s)))

FairSpec == Spec /\ Fairness

-----------------------------------------------------------------------------
Single(s) == s \notin overlapped

\* Whoever receives a room's broadcasts (chat, musicman events, key requests) is
\* listed in it, unless a host has closed the room: Socket.IO membership and
\* room.users are two books that leaveRoom, joins and kicks keep separately.
NobodyListensUnseen ==
    \A s \in Socket, r \in Room :
        r \in chans[s] => s \in members[r] \/ r \in hostClosed

\* A connected socket listed in a room receives its broadcasts, whatever joins,
\* kicks, closures and leaves crossed.
MembersHear ==
    \A s \in Socket, r \in Room :
        s \in members[r] /\ s \in open => r \in chans[s]

\* The service dies of an alias update (the unchecked lookup in updateUserAlias)
\* only if a host has closed a room over its users.
CrashOnlyAfterClose == ~alive => hostClosed # {}

\* A client that waits for the answer to a join-room before it sends the next is
\* in one room at most, the one socket.roomId says.
OneRoomAtATime ==
    \A s \in Socket, r \in Room :
        s \in members[r] /\ s \in open /\ Single(s) => roomId[s] = r

\* Such a client's screen share never outlives its stay: leaving and switching
\* rooms both take it down.
SharersAttached ==
    \A s \in Socket, r \in Room :
        s \in shares[r] /\ s \in open /\ Single(s) => roomId[s] = r

\* A listed socket that is gone disconnected between its join-room and the hub's
\* answer: handleDisconnect alone leaves no ghost behind.
GhostsAreLateJoins ==
    \A s \in Socket, r \in Room :
        s \in members[r] /\ s \notin open => s \in lateClosed \/ ~Single(s)

\* Of two sockets in a room that listen to no other and never overlapped their
\* joins, the events told at least
\* one of the other, so that one of them places the call.
PairsMeet ==
    \A r \in Room : \A s, t \in {x \in members[r] : chans[x] = {r} /\ Single(x)} :
        s # t => s \in peers[t] \/ t \in peers[s]

\* Revalidation: one who lost access to a room does not stay in it, unless the
\* access comes back.
RevokedLeaves ==
    \A s \in Socket, r \in Room :
        (s \in members[r] /\ <<s, r>> \notin access /\ s \in open /\ Single(s))
            ~> (s \notin members[r] \/ <<s, r>> \in access \/ s \notin open
                \/ ~Single(s) \/ ~alive)

=============================================================================
