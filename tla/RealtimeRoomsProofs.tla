------------------------ MODULE RealtimeRoomsProofs ------------------------
(***************************************************************************)
(* Proofs about RealtimeRooms, for every set of sockets, rooms and slots   *)
(* and every choice of the bounds.                                         *)
(***************************************************************************)
EXTENDS RealtimeRooms, TLAPS

-----------------------------------------------------------------------------
(* Lemmas about the operators                                              *)

\* Dropping rooms changes neither whose join an in-flight join is, nor its
\* room, nor its slot.
LEMMA DetachKeeps ==
    ASSUME NEW js \in SUBSET Join, NEW dropped, NEW list \in [Room -> SUBSET Socket]
    PROVE  /\ Detach(js, dropped, list) \in SUBSET Join
           /\ \A j \in Detach(js, dropped, list) :
                 \E i \in js : i.sock = j.sock /\ i.room = j.room /\ i.slot = j.slot
<1> DEFINE Cut(j) == IF j.room \in dropped /\ ~j.stale
                     THEN [j EXCEPT !.stale = TRUE, !.listed = list[j.room]] ELSE j
<1>1. ASSUME NEW j \in js
      PROVE  /\ Cut(j) \in Join
             /\ Cut(j).sock = j.sock /\ Cut(j).room = j.room /\ Cut(j).slot = j.slot
  BY <1>1 DEF Join
<1>2. Detach(js, dropped, list) = {Cut(j) : j \in js}
  BY DEF Detach
<1>3. QED
  BY <1>1, <1>2

\* leaveRoom keeps the books well typed.
LEMMA LeaveRoomType ==
    ASSUME TypeOK, NEW s \in Socket, NEW r \in Room \cup {NoRoom},
           NEW u \in SUBSET Socket, LeaveRoom(s, r, u)
    PROVE  /\ members' \in [Room -> SUBSET Socket]
           /\ owned'   \in SUBSET Room
           /\ shares'  \in [Room -> SUBSET Socket]
           /\ users'   \in [Socket -> Room \cup {NoRoom}]
BY DEF TypeOK, LeaveRoom, Emptied

LEMMA LeftType ==
    ASSUME TypeOK, NEW s \in Socket, NEW r \in Room \cup {NoRoom}
    PROVE  /\ RoomsLeft(s, r) \in [Room -> {"none", "fresh", "aged"}]
           /\ JoinsLeft(s, r) \in SUBSET Join
           /\ ChansLeft(s, r) \in [Socket -> SUBSET Room]
           /\ Forget(s, r)    \in [Socket -> SUBSET Socket]
           /\ Departed(s, r)  \in [Socket -> SUBSET Socket]
<1>1. [x \in Room |-> {}] \in [Room -> SUBSET Socket]
  OBVIOUS
<1>2. JoinsLeft(s, r) \in SUBSET Join
  BY <1>1, DetachKeeps DEF JoinsLeft, TypeOK
<1>3. QED
  BY <1>2 DEF TypeOK, RoomsLeft, ChansLeft, Forget, Departed

-----------------------------------------------------------------------------
(* Type correctness                                                        *)

LEMMA TypeInit == Init => TypeOK
BY DEF Init, TypeOK, NoCheck, Check

LEMMA TypeNext == TypeOK /\ [Next]_vars => TypeOK'
<1> SUFFICES ASSUME TypeOK, [Next]_vars PROVE TypeOK'
  OBVIOUS
<1> USE BoundAssumption
<1>1. ASSUME NEW s \in Socket, NEW r \in Room, Grant(s, r) PROVE TypeOK'
  <2> DEFINE Mark(j) == IF j.sock = s /\ j.room = r THEN [j EXCEPT !.may = TRUE] ELSE j
  <2>1. joins' \in SUBSET Join
    <3>1. \A j \in Join : Mark(j) \in Join
      BY DEF Join
    <3>2. joins' = {Mark(j) : j \in joins}
      BY <1>1 DEF Grant
    <3>3. QED
      BY <3>1, <3>2 DEF TypeOK
  <2>2. recheck' \in [Socket -> Check]
    <3>1. recheck \in [Socket -> Check] /\ [recheck[s] EXCEPT !.may = TRUE] \in Check
      BY DEF TypeOK, Check
    <3>2. recheck' = recheck \/ recheck' = [recheck EXCEPT ![s] = [recheck[s] EXCEPT !.may = TRUE]]
      BY <1>1 DEF Grant
    <3>3. QED
      BY <3>1, <3>2
  <2>3. QED
    BY <1>1, <2>1, <2>2 DEF Grant, TypeOK, history
<1>2. ASSUME NEW s \in Socket, NEW r \in Room, Revoke(s, r) PROVE TypeOK'
  BY <1>2 DEF Revoke, TypeOK, state, history
<1>3. ASSUME NEW s \in Socket, NEW r \in Room, NEW k \in Slot, JoinBegin(s, r, k)
      PROVE  TypeOK'
  <2> DEFINE old == OtherRoom(s, r)
  <2>1. old \in Room \cup {NoRoom}
    BY DEF OtherRoom, TypeOK
  <2>2. LeaveRoom(s, old, {s})
    BY <1>3 DEF JoinBegin
  <2>3. /\ members' \in [Room -> SUBSET Socket] /\ owned' \in SUBSET Room
        /\ shares' \in [Room -> SUBSET Socket] /\ users' \in [Socket -> Room \cup {NoRoom}]
    BY <2>1, <2>2, LeaveRoomType
  <2> HIDE DEF old
  <2>4. /\ rooms' = Created(RoomsLeft(s, old), r)
        /\ chans' = ChansLeft(s, old)
        /\ peers' = IF old = NoRoom THEN peers
                    ELSE IF Exists(old) THEN Departed(s, old) ELSE [peers EXCEPT ![s] = {}]
        /\ roomId' = IF old # NoRoom THEN [roomId EXCEPT ![s] = NoRoom] ELSE roomId
        /\ joins' = JoinsLeft(s, old) \cup
                      {[sock |-> s, slot |-> k, room |-> r,
                        may |-> <<s, r>> \in access, stale |-> FALSE, listed |-> {}]}
    BY <1>3 DEF JoinBegin, old
  <2>5. rooms' \in [Room -> {"none", "fresh", "aged"}]
    BY <2>1, <2>4, LeftType DEF Created
  <2>6. chans' \in [Socket -> SUBSET Room]
    BY <2>1, <2>4, LeftType
  <2>7. peers' \in [Socket -> SUBSET Socket]
    <3>1. [peers EXCEPT ![s] = {}] \in [Socket -> SUBSET Socket] /\ peers \in [Socket -> SUBSET Socket]
      BY DEF TypeOK
    <3>2. QED
      BY <2>1, <2>4, <3>1, LeftType
  <2>8. roomId' \in [Socket -> Room \cup {NoRoom}]
    BY <2>4 DEF TypeOK
  <2>9. joins' \in SUBSET Join
    <3>1. [sock |-> s, slot |-> k, room |-> r,
           may |-> <<s, r>> \in access, stale |-> FALSE, listed |-> {}] \in Join
      BY DEF Join
    <3>2. QED
      BY <2>1, <2>4, <3>1, LeftType
  <2>10. QED
    BY <1>3, <2>3, <2>5, <2>6, <2>7, <2>8, <2>9 DEF JoinBegin, TypeOK
<1>4. ASSUME NEW j \in joins, JoinDenied(j) PROVE TypeOK'
  BY <1>4 DEF JoinDenied, TypeOK, history
<1>5. ASSUME NEW j \in joins, JoinGranted(j) PROVE TypeOK'
  <2>1. j.sock \in Socket /\ j.room \in Room /\ j.listed \in SUBSET Socket
    BY DEF TypeOK, Join
  <2>2. members' \in [Room -> SUBSET Socket]
    BY <1>5, <2>1 DEF JoinGranted, TypeOK
  <2>3. /\ rooms' \in [Room -> {"none", "fresh", "aged"}]
        /\ owned' \in SUBSET Room
        /\ users' \in [Socket -> Room \cup {NoRoom}]
        /\ roomId' \in [Socket -> Room \cup {NoRoom}]
        /\ chans' \in [Socket -> SUBSET Room]
    BY <1>5, <2>1 DEF JoinGranted, TypeOK, Created
  <2>4. peers' \in [Socket -> SUBSET Socket]
    <3>1. PICK list \in SUBSET Socket : peers' = Announce(j.sock, j.room, list)
      BY <1>5, <2>1, <2>2 DEF JoinGranted
    <3>2. QED
      BY <2>1, <3>1 DEF Announce, TypeOK
  <2>5. QED
    BY <1>5, <2>1, <2>2, <2>3, <2>4 DEF JoinGranted, TypeOK, history
<1>6. ASSUME NEW s \in Socket, HandleLeaveRoom(s) PROVE TypeOK'
  <2>1. roomId[s] \in Room \cup {NoRoom}
    BY DEF TypeOK
  <2>2. roomId' \in [Socket -> Room \cup {NoRoom}]
    BY <1>6 DEF HandleLeaveRoom, TypeOK
  <2>3. QED
    BY <1>6, <2>1, <2>2, LeaveRoomType, LeftType DEF HandleLeaveRoom, TypeOK, history
<1>7. ASSUME NEW s \in Socket, HandleDisconnect(s) PROVE TypeOK'
  <2>1. roomId[s] \in Room \cup {NoRoom}
    BY DEF TypeOK
  <2>2. /\ members' \in [Room -> SUBSET Socket] /\ owned' \in SUBSET Room
        /\ shares' \in [Room -> SUBSET Socket] /\ users' \in [Socket -> Room \cup {NoRoom}]
    <3>1. CASE roomId[s] # NoRoom
      BY <1>7, <2>1, <3>1, LeaveRoomType DEF HandleDisconnect
    <3>2. CASE roomId[s] = NoRoom
      BY <1>7, <3>2 DEF HandleDisconnect, TypeOK
    <3>3. QED
      BY <3>1, <3>2
  <2>3. chans' \in [Socket -> SUBSET Room]
    BY <1>7 DEF HandleDisconnect, TypeOK
  <2>4. QED
    BY <1>7, <2>1, <2>2, <2>3, LeftType DEF HandleDisconnect, TypeOK
<1>8. ASSUME NEW s \in Socket, RecheckTick(s) PROVE TypeOK'
  BY <1>8 DEF RecheckTick, TypeOK, Check, state, history
<1>9. ASSUME NEW s \in Socket, RecheckPassed(s) PROVE TypeOK'
  BY <1>9 DEF RecheckPassed, TypeOK, Check, NoCheck, state, history
<1>10. ASSUME NEW s \in Socket, ForceLeave(s) PROVE TypeOK'
  <2>1. roomId[s] \in Room \cup {NoRoom}
    BY DEF TypeOK
  <2>2. recheck' \in [Socket -> Check]
    BY <1>10 DEF ForceLeave, TypeOK, Check, NoCheck
  <2>3. LeaveRoom(s, roomId[s], {})
    BY <1>10 DEF ForceLeave
  <2>4. /\ members' \in [Room -> SUBSET Socket] /\ owned' \in SUBSET Room
        /\ shares' \in [Room -> SUBSET Socket] /\ users' \in [Socket -> Room \cup {NoRoom}]
    BY <2>1, <2>3, LeaveRoomType
  <2>5. /\ rooms' \in [Room -> {"none", "fresh", "aged"}]
        /\ joins' \in SUBSET Join /\ chans' \in [Socket -> SUBSET Room]
        /\ peers' \in [Socket -> SUBSET Socket]
    <3>1. peers \in [Socket -> SUBSET Socket]
      BY DEF TypeOK
    <3>2. QED
      BY <1>10, <2>1, <3>1, LeftType DEF ForceLeave
  <2>6. QED
    BY <1>10, <2>2, <2>4, <2>5 DEF ForceLeave, TypeOK, history
<1>11. ASSUME NEW s \in Socket, ScreenshareStarted(s) PROVE TypeOK'
  BY <1>11 DEF ScreenshareStarted, TypeOK, history
<1>12. ASSUME NEW s \in Socket, ScreenshareStopped(s) PROVE TypeOK'
  BY <1>12 DEF ScreenshareStopped, TypeOK, history
<1>13. ASSUME NEW s \in Socket, UserUpdate(s) PROVE TypeOK'
  <2>1. alive' \in BOOLEAN
    BY ZenonT(20), <1>13 DEF UserUpdate
  <2>2. QED
    BY <1>13, <2>1 DEF UserUpdate, TypeOK, state, history
<1>14. ASSUME NEW r \in Room, Ages(r) PROVE TypeOK'
  BY <1>14 DEF Ages, TypeOK, history
<1>15. ASSUME Cleanup PROVE TypeOK'
  BY <1>15, DetachKeeps DEF Cleanup, TypeOK, history
<1>16. ASSUME NEW r \in Room, PostRoom(r) PROVE TypeOK'
  BY <1>16 DEF PostRoom, Created, TypeOK, history
<1>17. ASSUME NEW r \in Room, DeleteRoom(r) PROVE TypeOK'
  BY <1>17, DetachKeeps DEF DeleteRoom, TypeOK
<1>18. CASE UNCHANGED vars
  BY <1>18 DEF vars, state, history, TypeOK
<1>19. QED
  BY <1>1, <1>2, <1>3, <1>4, <1>5, <1>6, <1>7, <1>8, <1>9, <1>10, <1>11, <1>12,
     <1>13, <1>14, <1>15, <1>16, <1>17, <1>18 DEF Next, SocketStep, JoinStep

\* Every variable keeps its type, for every number of sockets, rooms and joins.
THEOREM TypeCorrect == Spec => []TypeOK
<1>1. QED
  BY TypeInit, TypeNext, PTL DEF Spec

-----------------------------------------------------------------------------
(* The books of a room agree                                               *)

\* The invariant behind NobodyListensUnseen, MembersHear and
\* CrashOnlyAfterClose.  None of the three is inductive alone: a room that is
\* dropped must have no users left (or recreating it would lose them), and the
\* directory may outlive an entry of room.users only where a host closed the room.
DeadRoomsEmpty == \A r \in Room : rooms[r] = "none" => members[r] = {}

DirectoryBacked ==
    \A s \in Socket :
        users[s] # NoRoom => s \in members[users[s]] \/ users[s] \in hostClosed

Books ==
    /\ TypeOK
    /\ DeadRoomsEmpty
    /\ DirectoryBacked
    /\ NobodyListensUnseen
    /\ MembersHear
    /\ CrashOnlyAfterClose

LEMMA BooksInit == Init => Books
<1>1. Init => TypeOK
  BY TypeInit
<1>2. QED
  BY <1>1 DEF Init, Books, DeadRoomsEmpty, DirectoryBacked, NobodyListensUnseen,
              MembersHear, CrashOnlyAfterClose

\* Any leaveRoom with its socket.leave keeps the books, also when the room is
\* created again in the same step (JoinBegin).
LEMMA LeaveKeepsBooks ==
    ASSUME Books, NEW s \in Socket, NEW r \in Room \cup {NoRoom}, NEW u \in SUBSET Socket,
           LeaveRoom(s, r, u),
           chans' = ChansLeft(s, r),
           \A x \in Room : rooms'[x] = "none" => RoomsLeft(s, r)[x] = "none",
           UNCHANGED <<open, hostClosed>>
    PROVE  DeadRoomsEmpty' /\ DirectoryBacked' /\ NobodyListensUnseen' /\ MembersHear'
<1> USE NoRoomAssumption DEF Books
<1>1. \A x \in Room : members'[x] = IF x = r THEN members[x] \ {s} ELSE members[x]
  BY DEF LeaveRoom
<1>2. \A t \in Socket : users'[t] = IF t = s /\ Exists(r) THEN NoRoom ELSE users[t]
  BY DEF LeaveRoom, TypeOK
<1>3. \A t \in Socket :
        chans'[t] = IF t = s /\ Exists(r) THEN chans[t] \ {r} ELSE chans[t]
  BY DEF ChansLeft, TypeOK
<1>4. ~Exists(r) => \A x \in Room : members'[x] = members[x]
  BY <1>1 DEF Exists, DeadRoomsEmpty, TypeOK
<1>5. DeadRoomsEmpty'
  BY <1>1 DEF DeadRoomsEmpty, RoomsLeft, Emptied, TypeOK
<1>6. DirectoryBacked'
  <2> SUFFICES ASSUME NEW t \in Socket, users'[t] # NoRoom
               PROVE  t \in members'[users'[t]] \/ users'[t] \in hostClosed
    BY DEF DirectoryBacked
  <2>1. users'[t] = users[t] /\ users[t] \in Room /\ ~(t = s /\ Exists(r))
    BY <1>2 DEF TypeOK
  <2>2. t \in members[users[t]] \/ users[t] \in hostClosed
    BY <2>1 DEF DirectoryBacked
  <2>3. t # s => (t \in members'[users[t]] <=> t \in members[users[t]])
    BY <1>1, <2>1
  <2>4. t = s => members'[users[t]] = members[users[t]]
    BY <1>4, <2>1
  <2>5. QED
    BY <2>1, <2>2, <2>3, <2>4
<1>7. NobodyListensUnseen'
  <2> SUFFICES ASSUME NEW t \in Socket, NEW x \in Room, x \in chans'[t]
               PROVE  t \in members'[x] \/ x \in hostClosed'
    BY DEF NobodyListensUnseen
  <2>1. t \in members[x] \/ x \in hostClosed
    BY <1>3 DEF NobodyListensUnseen
  <2>2. QED
    BY <1>1, <1>3, <1>4, <2>1
<1>8. MembersHear'
  <2> SUFFICES ASSUME NEW t \in Socket, NEW x \in Room, t \in members'[x], t \in open
               PROVE  x \in chans'[t]
    BY DEF MembersHear
  <2>1. x \in chans[t]
    BY <1>1 DEF MembersHear
  <2>2. t = s /\ Exists(r) => x # r
    BY <1>1
  <2>3. QED
    BY <1>3, <2>1, <2>2
<1>9. QED
  BY <1>5, <1>6, <1>7, <1>8

LEMMA BooksNext == Books /\ [Next]_vars => Books'
<1> SUFFICES ASSUME Books, [Next]_vars PROVE Books'
  OBVIOUS
<1>0. TypeOK' /\ TypeOK
  BY TypeNext DEF Books
\* Most actions do not touch these variables, or only add rooms.
<1>a. ASSUME UNCHANGED <<alive, open, rooms, members, users, chans, hostClosed>>
      PROVE  Books'
  BY <1>0, <1>a DEF Books, DeadRoomsEmpty, DirectoryBacked, NobodyListensUnseen,
                    MembersHear, CrashOnlyAfterClose
<1>b. ASSUME UNCHANGED <<alive, open, members, users, chans, hostClosed>>, DeadRoomsEmpty'
      PROVE  Books'
  BY <1>0, <1>b DEF Books, DirectoryBacked, NobodyListensUnseen, MembersHear,
                    CrashOnlyAfterClose
<1>1. ASSUME NEW s \in Socket, NEW r \in Room, Grant(s, r) PROVE Books'
  BY <1>1, <1>a DEF Grant, history
<1>2. ASSUME NEW s \in Socket, NEW r \in Room, Revoke(s, r) PROVE Books'
  BY <1>2, <1>a DEF Revoke, state, history
<1>3. ASSUME NEW s \in Socket, NEW r \in Room, NEW k \in Slot, JoinBegin(s, r, k)
      PROVE  Books'
  <2> DEFINE old == OtherRoom(s, r)
  <2>1. old \in Room \cup {NoRoom}
    BY <1>0 DEF OtherRoom, TypeOK
  <2>2. /\ LeaveRoom(s, old, {s})
        /\ chans' = ChansLeft(s, old)
        /\ rooms' = Created(RoomsLeft(s, old), r)
        /\ UNCHANGED <<alive, open, hostClosed>>
    BY <1>3 DEF JoinBegin
  <2> HIDE DEF old
  <2>3. \A x \in Room : rooms'[x] = "none" => RoomsLeft(s, old)[x] = "none"
    BY <2>1, <2>2, <1>0, LeftType DEF Created
  <2>4. {s} \in SUBSET Socket
    OBVIOUS
  <2>5. DeadRoomsEmpty' /\ DirectoryBacked' /\ NobodyListensUnseen' /\ MembersHear'
    BY <2>1, <2>2, <2>3, <2>4, LeaveKeepsBooks
  <2>6. QED
    BY <1>0, <2>2, <2>5 DEF Books, CrashOnlyAfterClose
<1>4. ASSUME NEW j \in joins, JoinDenied(j) PROVE Books'
  BY <1>4, <1>a DEF JoinDenied, history
<1>5. ASSUME NEW j \in joins, JoinGranted(j) PROVE Books'
  <2>1. j.sock \in Socket /\ j.room \in Room
    BY <1>0 DEF TypeOK, Join
  <2>2. /\ rooms' = Created(rooms, j.room)
        /\ members' = [members EXCEPT ![j.room] = @ \cup {j.sock}]
        /\ users' = [users EXCEPT ![j.sock] = j.room]
        /\ chans' = IF j.sock \in open THEN [chans EXCEPT ![j.sock] = @ \cup {j.room}] ELSE chans
        /\ UNCHANGED <<alive, open, hostClosed>>
    BY <1>5 DEF JoinGranted, history
  <2>3. DeadRoomsEmpty'
    BY <1>0, <2>1, <2>2 DEF Books, DeadRoomsEmpty, Created, TypeOK
  <2>4. DirectoryBacked'
    BY <1>0, <2>1, <2>2 DEF Books, DirectoryBacked, TypeOK
  <2>5. NobodyListensUnseen'
    BY <1>0, <2>1, <2>2 DEF Books, NobodyListensUnseen, TypeOK
  <2>6. MembersHear'
    BY <1>0, <2>1, <2>2 DEF Books, MembersHear, TypeOK
  <2>7. QED
    BY <1>0, <2>2, <2>3, <2>4, <2>5, <2>6 DEF Books, CrashOnlyAfterClose
\* The two actions that leave the room socket.roomId names, and nothing else here.
<1>c. ASSUME NEW s \in Socket, NEW u \in SUBSET Socket, LeaveRoom(s, roomId[s], u),
             rooms' = RoomsLeft(s, roomId[s]), chans' = ChansLeft(s, roomId[s]),
             UNCHANGED <<alive, open, hostClosed>>
      PROVE  Books'
  <2>1. roomId[s] \in Room \cup {NoRoom}
    BY <1>0 DEF TypeOK
  <2>2. DeadRoomsEmpty' /\ DirectoryBacked' /\ NobodyListensUnseen' /\ MembersHear'
    BY <1>c, <2>1, LeaveKeepsBooks
  <2>3. QED
    BY <1>0, <1>c, <2>2 DEF Books, CrashOnlyAfterClose
<1>6. ASSUME NEW s \in Socket, HandleLeaveRoom(s) PROVE Books'
  <2>1. {s} \in SUBSET Socket
    OBVIOUS
  <2>2. QED
    BY <1>6, <1>c, <2>1 DEF HandleLeaveRoom, history
<1>7. ASSUME NEW s \in Socket, HandleDisconnect(s) PROVE Books'
  <2> DEFINE r == roomId[s]
  <2>1. r \in Room \cup {NoRoom}
    BY <1>0 DEF TypeOK
  <2>2. /\ open' = open \ {s}
        /\ chans' = [chans EXCEPT ![s] = {}]
        /\ rooms' = RoomsLeft(s, r)
        /\ UNCHANGED <<alive, hostClosed>>
    BY <1>7 DEF HandleDisconnect
  <2>3. \A x \in Room : members'[x] = IF x = r THEN members[x] \ {s} ELSE members[x]
    BY <1>0, <1>7, NoRoomAssumption DEF HandleDisconnect, LeaveRoom, TypeOK
  <2>4. \A t \in Socket : users'[t] = users[t] \/ (t = s /\ users'[t] = NoRoom)
    BY <1>0, <1>7 DEF HandleDisconnect, LeaveRoom, TypeOK
  <2>5. r \in Room /\ Exists(r) => users'[s] = NoRoom
    BY <1>0, <1>7, NoRoomAssumption DEF HandleDisconnect, LeaveRoom, TypeOK
  <2>6. DeadRoomsEmpty'
    BY <1>0, <2>2, <2>3 DEF Books, DeadRoomsEmpty, RoomsLeft, Emptied, TypeOK
  <2>7. ~Exists(r) => \A x \in Room : members'[x] = members[x]
    BY <1>0, <2>3 DEF Books, Exists, DeadRoomsEmpty, TypeOK
  <2>8. DirectoryBacked'
    BY <1>0, <2>1, <2>2, <2>3, <2>4, <2>5, <2>7 DEF Books, DirectoryBacked, Exists, TypeOK
  <2>9. NobodyListensUnseen'
    BY <1>0, <2>2, <2>3 DEF Books, NobodyListensUnseen, TypeOK
  <2>10. MembersHear'
    <3> SUFFICES ASSUME NEW t \in Socket, NEW x \in Room, t \in members'[x], t \in open'
                 PROVE  x \in chans'[t]
      BY DEF MembersHear
    <3>1. t # s /\ t \in open
      BY <2>2
    <3>2. t \in members[x]
      BY <2>3
    <3>3. x \in chans[t]
      BY <3>1, <3>2 DEF Books, MembersHear
    <3>4. chans'[t] = chans[t]
      BY <1>0, <2>2, <3>1 DEF TypeOK
    <3>5. QED
      BY <3>3, <3>4
  <2>11. QED
    BY <1>0, <2>2, <2>6, <2>8, <2>9, <2>10 DEF Books, CrashOnlyAfterClose
<1>8. ASSUME NEW s \in Socket, RecheckTick(s) PROVE Books'
  BY <1>8, <1>a DEF RecheckTick, state, history
<1>9. ASSUME NEW s \in Socket, RecheckPassed(s) PROVE Books'
  BY <1>9, <1>a DEF RecheckPassed, state, history
<1>10. ASSUME NEW s \in Socket, ForceLeave(s) PROVE Books'
  <2>1. {} \in SUBSET Socket
    OBVIOUS
  <2>2. QED
    BY <1>10, <1>c, <2>1 DEF ForceLeave, history
<1>11. ASSUME NEW s \in Socket, ScreenshareStarted(s) PROVE Books'
  BY <1>11, <1>a DEF ScreenshareStarted, history
<1>12. ASSUME NEW s \in Socket, ScreenshareStopped(s) PROVE Books'
  BY <1>12, <1>a DEF ScreenshareStopped, history
\* The lookup can only miss in a room a host has closed.
<1>13. ASSUME NEW s \in Socket, UserUpdate(s) PROVE Books'
  <2>1. UNCHANGED <<open, rooms, members, users, chans, hostClosed>>
    BY <1>13 DEF UserUpdate, state, history
  <2>2. users[s] # NoRoom /\ (s \in members[users[s]] => alive')
    BY <1>13, Zenon DEF UserUpdate
  <2>3. CrashOnlyAfterClose'
    BY <2>1, <2>2 DEF Books, DirectoryBacked, CrashOnlyAfterClose
  <2>4. QED
    BY <1>0, <2>1, <2>3 DEF Books, DeadRoomsEmpty, DirectoryBacked, NobodyListensUnseen,
                            MembersHear
<1>14. ASSUME NEW r \in Room, Ages(r) PROVE Books'
  <2>1. DeadRoomsEmpty'
    BY <1>0, <1>14 DEF Ages, Books, DeadRoomsEmpty, TypeOK
  <2>2. QED
    BY <1>14, <1>b, <2>1 DEF Ages, history
<1>15. ASSUME Cleanup PROVE Books'
  <2>1. DeadRoomsEmpty'
    BY <1>0, <1>15 DEF Cleanup, Books, DeadRoomsEmpty, TypeOK
  <2>2. QED
    BY <1>15, <1>b, <2>1 DEF Cleanup, history
<1>16. ASSUME NEW r \in Room, PostRoom(r) PROVE Books'
  <2>1. DeadRoomsEmpty'
    BY <1>0, <1>16 DEF PostRoom, Created, Books, DeadRoomsEmpty, TypeOK
  <2>2. QED
    BY <1>16, <1>b, <2>1 DEF PostRoom, history
<1>17. ASSUME NEW r \in Room, DeleteRoom(r) PROVE Books'
  <2>1. /\ rooms' = [rooms EXCEPT ![r] = "none"]
        /\ members' = [members EXCEPT ![r] = {}]
        /\ hostClosed' = hostClosed \cup {r}
        /\ UNCHANGED <<alive, open, users, chans>>
    BY <1>17 DEF DeleteRoom
  <2>2. DeadRoomsEmpty' /\ DirectoryBacked'
    BY <1>0, <2>1 DEF Books, DeadRoomsEmpty, DirectoryBacked, TypeOK
  <2>3. NobodyListensUnseen' /\ MembersHear'
    BY <1>0, <2>1 DEF Books, NobodyListensUnseen, MembersHear, TypeOK
  <2>4. QED
    BY <1>0, <2>1, <2>2, <2>3 DEF Books, CrashOnlyAfterClose
<1>18. CASE UNCHANGED vars
  BY <1>18, <1>a DEF vars, state, history
<1>19. QED
  BY <1>1, <1>2, <1>3, <1>4, <1>5, <1>6, <1>7, <1>8, <1>9, <1>10, <1>11, <1>12,
     <1>13, <1>14, <1>15, <1>16, <1>17, <1>18, BoundAssumption
     DEF Next, SocketStep, JoinStep

LEMMA BooksAlways == Spec => []Books
<1>1. QED
  BY BooksInit, BooksNext, PTL DEF Spec

\* Whoever listens to a room is listed in it, unless a host closed the room.
THEOREM ListenersAreListed == Spec => []NobodyListensUnseen
<1>1. Books => NobodyListensUnseen
  BY DEF Books
<1>2. QED
  BY <1>1, BooksAlways, PTL

\* Whoever is connected and listed in a room receives its broadcasts.
THEOREM ListedMembersHear == Spec => []MembersHear
<1>1. Books => MembersHear
  BY DEF Books
<1>2. QED
  BY <1>1, BooksAlways, PTL

\* The unchecked lookup of updateUserAlias fails only after a host's closure.
THEOREM CrashNeedsClose == Spec => []CrashOnlyAfterClose
<1>1. Books => CrashOnlyAfterClose
  BY DEF Books
<1>2. QED
  BY <1>1, BooksAlways, PTL

-----------------------------------------------------------------------------
(* Where a client that answers one join at a time is                       *)

\* The invariant behind OneRoomAtATime, SharersAttached and GhostsAreLateJoins:
\* such a client has one join in flight, socket.roomId meanwhile is undefined
\* or that join's room, and a join of a closed socket was cut off by the close.
OneJoin == \A i, j \in joins : i.sock = j.sock /\ Single(i.sock) => i = j

JoinHeads == \A j \in joins : Single(j.sock) => roomId[j.sock] \in {NoRoom, j.room}

LateJoins == \A j \in joins : j.sock \in open \/ j.sock \in lateClosed

Stay ==
    /\ TypeOK
    /\ OneJoin
    /\ JoinHeads
    /\ LateJoins
    /\ OneRoomAtATime
    /\ SharersAttached
    /\ GhostsAreLateJoins

\* b is a, with fields other than sock and room rewritten join by join.
SameJoins(a, b) ==
    \E f \in [a -> Join] :
        /\ b = {f[j] : j \in a}
        /\ \A j \in a : f[j].sock = j.sock /\ f[j].room = j.room

LEMMA DetachSame ==
    ASSUME NEW js \in SUBSET Join, NEW dropped, NEW list \in [Room -> SUBSET Socket]
    PROVE  SameJoins(js, Detach(js, dropped, list))
<1> DEFINE Cut(j) == IF j.room \in dropped /\ ~j.stale
                     THEN [j EXCEPT !.stale = TRUE, !.listed = list[j.room]] ELSE j
           f == [j \in js |-> Cut(j)]
<1>1. ASSUME NEW j \in js
      PROVE  Cut(j) \in Join /\ Cut(j).sock = j.sock /\ Cut(j).room = j.room
  BY <1>1 DEF Join
<1>2. f \in [js -> Join] /\ \A j \in js : f[j].sock = j.sock /\ f[j].room = j.room
  BY <1>1
<1>3. Detach(js, dropped, list) = {f[j] : j \in js}
  BY DEF Detach
<1> HIDE DEF f
<1>4. QED
  BY <1>2, <1>3 DEF SameJoins

LEMMA JoinsLeftSame ==
    ASSUME TypeOK, NEW s, NEW r PROVE SameJoins(joins, JoinsLeft(s, r))
<1>1. [x \in Room |-> {}] \in [Room -> SUBSET Socket]
  OBVIOUS
<1>2. QED
  BY <1>1, DetachSame DEF JoinsLeft, TypeOK

LEMMA Unrewritten == ASSUME TypeOK PROVE SameJoins(joins, joins)
<1> DEFINE f == [j \in joins |-> j]
<1>1. /\ f \in [joins -> Join]
      /\ joins = {f[j] : j \in joins}
      /\ \A j \in joins : f[j].sock = j.sock /\ f[j].room = j.room
  BY DEF TypeOK
<1> HIDE DEF f
<1>2. QED
  BY <1>1 DEF SameJoins

\* What rewriting keeps: the joins are still one per client, of the same rooms.
LEMMA SameJoinsKeeps ==
    ASSUME OneJoin, NEW js, SameJoins(joins, js)
    PROVE  /\ \A i, j \in js : i.sock = j.sock /\ Single(i.sock) => i = j
           /\ \A j \in js : \E i \in joins : i.sock = j.sock /\ i.room = j.room
<1>1. PICK f \in [joins -> Join] :
        /\ js = {f[j] : j \in joins}
        /\ \A j \in joins : f[j].sock = j.sock /\ f[j].room = j.room
  BY DEF SameJoins
<1>2. QED
  BY <1>1 DEF OneJoin

LEMMA StayInit == Init => Stay
<1>1. Init => TypeOK
  BY TypeInit
<1>2. QED
  BY <1>1 DEF Init, Stay, OneJoin, JoinHeads, LateJoins, OneRoomAtATime,
              SharersAttached, GhostsAreLateJoins

\* An action that moves nobody and only rewrites in-flight joins, if that, and
\* only takes users and shares away.
LEMMA StillStays ==
    ASSUME Stay, TypeOK', SameJoins(joins, joins'),
           UNCHANGED <<open, roomId, overlapped, lateClosed>>,
           \A r \in Room : members'[r] \subseteq members[r],
           \A r \in Room : shares'[r] \subseteq shares[r]
    PROVE  Stay'
<1>1. OneJoin' /\ JoinHeads' /\ LateJoins'
  BY SameJoinsKeeps DEF Stay, OneJoin, JoinHeads, LateJoins, Single
<1>2. OneRoomAtATime' /\ SharersAttached' /\ GhostsAreLateJoins'
  BY DEF Stay, OneRoomAtATime, SharersAttached, GhostsAreLateJoins, Single
<1>3. QED
  BY <1>1, <1>2 DEF Stay

LEMMA StayNext == Stay /\ [Next]_vars => Stay'
<1> SUFFICES ASSUME Stay, [Next]_vars PROVE Stay'
  OBVIOUS
<1>0. TypeOK /\ TypeOK'
  BY TypeNext DEF Stay
<1> USE NoRoomAssumption
<1>a. ASSUME UNCHANGED <<open, members, shares, roomId, joins, overlapped, lateClosed>>
      PROVE  Stay'
  BY <1>0, <1>a, Unrewritten, StillStays
<1>1. ASSUME NEW s \in Socket, NEW r \in Room, Grant(s, r) PROVE Stay'
  <2> DEFINE Mark(j) == IF j.sock = s /\ j.room = r THEN [j EXCEPT !.may = TRUE] ELSE j
             f == [j \in joins |-> Mark(j)]
  <2>1. \A j \in Join : Mark(j) \in Join /\ Mark(j).sock = j.sock /\ Mark(j).room = j.room
    BY DEF Join
  <2>2. f \in [joins -> Join] /\ \A j \in joins : f[j].sock = j.sock /\ f[j].room = j.room
    BY <1>0, <2>1 DEF TypeOK
  <2>3. joins' = {f[j] : j \in joins}
    BY <1>1 DEF Grant
  <2> HIDE DEF f
  <2>4. SameJoins(joins, joins')
    BY <2>2, <2>3 DEF SameJoins
  <2>5. QED
    BY <1>0, <1>1, <2>4, StillStays DEF Grant, history
<1>2. ASSUME NEW s \in Socket, NEW r \in Room, Revoke(s, r) PROVE Stay'
  BY <1>2, <1>a DEF Revoke, state, history
<1>3. ASSUME NEW s \in Socket, NEW r \in Room, NEW k \in Slot, JoinBegin(s, r, k)
      PROVE  Stay'
  <2> DEFINE old == OtherRoom(s, r)
             new == [sock |-> s, slot |-> k, room |-> r,
                     may |-> <<s, r>> \in access, stale |-> FALSE, listed |-> {}]
             js  == JoinsLeft(s, old)
  <2>1. /\ s \in open
        /\ joins' = js \cup {new}
        /\ roomId' = IF old # NoRoom THEN [roomId EXCEPT ![s] = NoRoom] ELSE roomId
        /\ overlapped' = overlapped \cup {x \in {s} : Joining(s)}
        /\ UNCHANGED <<open, lateClosed>>
    BY <1>3 DEF JoinBegin
  <2>2. LeaveRoom(s, old, {s})
    BY <1>3 DEF JoinBegin
  <2>3. \A t \in Socket : roomId'[t] = IF t = s /\ old # NoRoom THEN NoRoom ELSE roomId[t]
    BY <1>0, <2>1 DEF TypeOK
  <2>4. roomId'[s] \in {NoRoom, r}
    BY <2>3 DEF OtherRoom
  <2>5. new.sock = s /\ new.room = r
    OBVIOUS
  <2>6. /\ \A i, j \in js : i.sock = j.sock /\ Single(i.sock) => i = j
        /\ \A j \in js : \E i \in joins : i.sock = j.sock /\ i.room = j.room
    BY <1>0, JoinsLeftSame, SameJoinsKeeps DEF Stay
  <2>7. \A j \in js : j.sock = s => s \in overlapped'
    BY <2>1, <2>6 DEF Joining
  <2>8. \A j \in js : j.sock \in Socket
    BY <1>0, <2>6 DEF TypeOK, Join
  <2>9. old # NoRoom => old = roomId[s] /\ old # r
    BY DEF OtherRoom
  <2>10. \A x \in Room :
           /\ members'[x] \subseteq members[x]
           /\ shares'[x] \subseteq shares[x]
           /\ x = old => s \notin members'[x] /\ s \notin shares'[x]
    BY <1>0, <2>2 DEF LeaveRoom, TypeOK
  <2> HIDE DEF old, new, js
  <2>11. OneJoin'
    BY <2>1, <2>5, <2>6, <2>7 DEF OneJoin, Single
  <2>12. JoinHeads'
    BY <2>1, <2>3, <2>4, <2>5, <2>6, <2>7, <2>8 DEF Stay, JoinHeads, Single
  <2>13. LateJoins'
    BY <2>1, <2>5, <2>6 DEF Stay, LateJoins
  <2>14. OneRoomAtATime'
    <3> SUFFICES ASSUME NEW t \in Socket, NEW x \in Room,
                        t \in members'[x], t \in open', Single(t)'
                 PROVE  roomId'[t] = x
      BY DEF OneRoomAtATime
    <3>1. t \in members[x] /\ t \in open /\ Single(t)
      BY <2>1, <2>10 DEF Single
    <3>2. roomId[t] = x
      BY <3>1 DEF Stay, OneRoomAtATime
    <3>3. QED
      BY <3>2, <2>3, <2>9, <2>10
  <2>15. SharersAttached'
    <3> SUFFICES ASSUME NEW t \in Socket, NEW x \in Room,
                        t \in shares'[x], t \in open', Single(t)'
                 PROVE  roomId'[t] = x
      BY DEF SharersAttached
    <3>1. t \in shares[x] /\ t \in open /\ Single(t)
      BY <2>1, <2>10 DEF Single
    <3>2. roomId[t] = x
      BY <3>1 DEF Stay, SharersAttached
    <3>3. QED
      BY <3>2, <2>3, <2>9, <2>10
  <2>16. GhostsAreLateJoins'
    BY <2>1, <2>10 DEF Stay, GhostsAreLateJoins, Single
  <2>17. QED
    BY <1>0, <2>11, <2>12, <2>13, <2>14, <2>15, <2>16 DEF Stay
<1>4. ASSUME NEW j \in joins, JoinDenied(j) PROVE Stay'
  <2>1. joins' \subseteq joins /\ UNCHANGED <<open, members, shares, roomId, overlapped, lateClosed>>
    BY <1>4 DEF JoinDenied, history
  <2>2. QED
    BY <1>0, <2>1 DEF Stay, OneJoin, JoinHeads, LateJoins, OneRoomAtATime,
                      SharersAttached, GhostsAreLateJoins, Single
<1>5. ASSUME NEW j \in joins, JoinGranted(j) PROVE Stay'
  <2> DEFINE s == j.sock
             r == j.room
  <2>1. s \in Socket /\ r \in Room
    BY <1>0 DEF TypeOK, Join
  <2>2. /\ members' = [members EXCEPT ![r] = @ \cup {s}]
        /\ roomId' = [roomId EXCEPT ![s] = r]
        /\ joins' = joins \ {j}
        /\ UNCHANGED <<open, shares, overlapped, lateClosed>>
    BY <1>5 DEF JoinGranted, history
  <2>3. s \in open \/ s \in lateClosed
    BY DEF Stay, LateJoins
  <2>4. Single(s) => /\ roomId[s] \in {NoRoom, r}
                     /\ \A i \in joins : i.sock = s => i = j
    BY DEF Stay, JoinHeads, OneJoin
  <2>5. \A t \in Socket : roomId'[t] = IF t = s THEN r ELSE roomId[t]
    BY <1>0, <2>1, <2>2 DEF TypeOK
  <2>6. \A x \in Room : members'[x] = IF x = r THEN members[x] \cup {s} ELSE members[x]
    BY <1>0, <2>1, <2>2 DEF TypeOK
  <2>7. \A i \in joins : i.sock \in Socket
    BY <1>0 DEF TypeOK, Join
  <2> HIDE DEF s, r
  <2>8. OneJoin' /\ LateJoins'
    BY <2>2 DEF Stay, OneJoin, LateJoins, Single
  <2>9. JoinHeads'
    BY <2>2, <2>4, <2>5, <2>7 DEF Stay, JoinHeads, Single
  <2>10. OneRoomAtATime'
    BY <2>1, <2>2, <2>4, <2>5, <2>6 DEF Stay, OneRoomAtATime, Single
  <2>11. SharersAttached'
    BY <2>1, <2>2, <2>4, <2>5 DEF Stay, SharersAttached, Single
  <2>12. GhostsAreLateJoins'
    BY <2>2, <2>3, <2>6 DEF Stay, GhostsAreLateJoins, Single
  <2>13. QED
    BY <1>0, <2>8, <2>9, <2>10, <2>11, <2>12 DEF Stay
<1>6. ASSUME NEW s \in Socket, HandleLeaveRoom(s) PROVE Stay'
  <2> DEFINE r == roomId[s]
  <2>1. /\ LeaveRoom(s, r, {s})
        /\ joins' = JoinsLeft(s, r)
        /\ roomId' = [roomId EXCEPT ![s] = NoRoom]
        /\ UNCHANGED <<open, overlapped, lateClosed>>
    BY <1>6 DEF HandleLeaveRoom, history
  <2>2. \A t \in Socket : roomId'[t] = IF t = s THEN NoRoom ELSE roomId[t]
    BY <1>0, <2>1 DEF TypeOK
  <2>3. \A x \in Room :
           /\ members'[x] = IF x = r THEN members[x] \ {s} ELSE members[x]
           /\ shares'[x] \subseteq shares[x]
           /\ x = r => s \notin shares'[x]
    BY <1>0, <2>1 DEF LeaveRoom, TypeOK
  <2>4. /\ \A i, j \in joins' : i.sock = j.sock /\ Single(i.sock) => i = j
        /\ \A j \in joins' : \E i \in joins : i.sock = j.sock /\ i.room = j.room
    BY <1>0, <2>1, JoinsLeftSame, SameJoinsKeeps DEF Stay
  <2>5. \A j \in joins' : j.sock \in Socket
    BY <1>0 DEF TypeOK, Join
  <2>6. OneJoin' /\ LateJoins'
    BY <2>1, <2>4 DEF Stay, OneJoin, LateJoins, Single
  <2>7. JoinHeads'
    BY <2>1, <2>2, <2>4, <2>5 DEF Stay, JoinHeads, Single
  <2>8. OneRoomAtATime'
    <3> SUFFICES ASSUME NEW t \in Socket, NEW x \in Room,
                        t \in members'[x], t \in open', Single(t)'
                 PROVE  roomId'[t] = x
      BY DEF OneRoomAtATime
    <3>1. t \in members[x] /\ t \in open /\ Single(t)
      BY <2>1, <2>3 DEF Single
    <3>2. roomId[t] = x
      BY <3>1 DEF Stay, OneRoomAtATime
    <3>3. QED
      BY <3>2, <2>2, <2>3
  <2>9. SharersAttached'
    <3> SUFFICES ASSUME NEW t \in Socket, NEW x \in Room,
                        t \in shares'[x], t \in open', Single(t)'
                 PROVE  roomId'[t] = x
      BY DEF SharersAttached
    <3>1. t \in shares[x] /\ t \in open /\ Single(t)
      BY <2>1, <2>3 DEF Single
    <3>2. roomId[t] = x
      BY <3>1 DEF Stay, SharersAttached
    <3>3. QED
      BY <3>2, <2>2, <2>3
  <2>10. GhostsAreLateJoins'
    BY <2>1, <2>3 DEF Stay, GhostsAreLateJoins, Single
  <2>11. QED
    BY <1>0, <2>6, <2>7, <2>8, <2>9, <2>10 DEF Stay
\* The closing socket may have been in no room but the one it leaves.
<1>7. ASSUME NEW s \in Socket, HandleDisconnect(s) PROVE Stay'
  <2> DEFINE r == roomId[s]
  <2>1. /\ s \in open
        /\ open' = open \ {s}
        /\ joins' = JoinsLeft(s, r)
        /\ lateClosed' = lateClosed \cup {x \in {s} : Joining(s)}
        /\ UNCHANGED <<roomId, overlapped>>
    BY <1>7 DEF HandleDisconnect
  <2>2. \A x \in Room :
           /\ members'[x] \subseteq members[x]
           /\ x = r => s \notin members'[x]
           /\ shares'[x] \subseteq shares[x]
    BY <1>0, <1>7 DEF HandleDisconnect, LeaveRoom, TypeOK
  <2>3. /\ \A i, j \in joins' : i.sock = j.sock /\ Single(i.sock) => i = j
        /\ \A j \in joins' : \E i \in joins : i.sock = j.sock /\ i.room = j.room
    BY <1>0, <2>1, JoinsLeftSame, SameJoinsKeeps DEF Stay
  <2>4. OneJoin' /\ JoinHeads'
    BY <2>1, <2>3 DEF Stay, OneJoin, JoinHeads, Single
  <2>5. LateJoins'
    BY <2>1, <2>3 DEF Stay, LateJoins, Joining
  <2>6. OneRoomAtATime' /\ SharersAttached'
    BY <2>1, <2>2 DEF Stay, OneRoomAtATime, SharersAttached, Single
  <2>7. GhostsAreLateJoins'
    BY <2>1, <2>2 DEF Stay, OneRoomAtATime, GhostsAreLateJoins, Single
  <2>8. QED
    BY <1>0, <2>4, <2>5, <2>6, <2>7 DEF Stay
<1>8. ASSUME NEW s \in Socket, RecheckTick(s) PROVE Stay'
  BY <1>8, <1>a DEF RecheckTick, state, history
<1>9. ASSUME NEW s \in Socket, RecheckPassed(s) PROVE Stay'
  BY <1>9, <1>a DEF RecheckPassed, state, history
<1>10. ASSUME NEW s \in Socket, ForceLeave(s) PROVE Stay'
  <2>1. LeaveRoom(s, roomId[s], {}) /\ joins' = JoinsLeft(s, roomId[s])
    BY <1>10 DEF ForceLeave
  <2>2. \A x \in Room : members'[x] \subseteq members[x] /\ shares'[x] \subseteq shares[x]
    BY <1>0, <2>1 DEF LeaveRoom, TypeOK
  <2>3. SameJoins(joins, joins')
    BY <1>0, <2>1, JoinsLeftSame
  <2>4. QED
    BY <1>0, <1>10, <2>2, <2>3, StillStays DEF ForceLeave, history
<1>11. ASSUME NEW s \in Socket, ScreenshareStarted(s) PROVE Stay'
  <2>1. /\ shares' = [shares EXCEPT ![roomId[s]] = @ \cup {s}]
        /\ UNCHANGED <<open, members, roomId, joins, overlapped, lateClosed>>
    BY <1>11 DEF ScreenshareStarted, history
  <2>2. SharersAttached'
    BY <1>0, <2>1 DEF Stay, SharersAttached, Single, TypeOK
  <2>3. QED
    BY <1>0, <2>1, <2>2 DEF Stay, OneJoin, JoinHeads, LateJoins, OneRoomAtATime,
                            GhostsAreLateJoins, Single
<1>12. ASSUME NEW s \in Socket, ScreenshareStopped(s) PROVE Stay'
  <2>1. \A x \in Room : shares'[x] \subseteq shares[x]
    BY <1>0, <1>12 DEF ScreenshareStopped, TypeOK
  <2>2. QED
    BY <1>0, <1>12, <2>1, Unrewritten, StillStays DEF ScreenshareStopped, history
<1>13. ASSUME NEW s \in Socket, UserUpdate(s) PROVE Stay'
  BY <1>13, <1>a DEF UserUpdate, state, history
<1>14. ASSUME NEW r \in Room, Ages(r) PROVE Stay'
  BY <1>14, <1>a DEF Ages, history
<1>15. ASSUME Cleanup PROVE Stay'
  <2>1. PICK dead : /\ shares' = [r \in Room |-> IF r \in dead THEN {} ELSE shares[r]]
                    /\ joins' = Detach(joins, dead, members)
    BY <1>15 DEF Cleanup
  <2>2. \A x \in Room : shares'[x] \subseteq shares[x]
    BY <2>1
  <2>3. SameJoins(joins, joins')
    BY <1>0, <2>1, DetachSame DEF TypeOK
  <2>4. QED
    BY <1>0, <1>15, <2>2, <2>3, StillStays DEF Cleanup, history
<1>16. ASSUME NEW r \in Room, PostRoom(r) PROVE Stay'
  BY <1>16, <1>a DEF PostRoom, history
<1>17. ASSUME NEW r \in Room, DeleteRoom(r) PROVE Stay'
  <2>1. \A x \in Room : members'[x] \subseteq members[x] /\ shares'[x] \subseteq shares[x]
    BY <1>0, <1>17 DEF DeleteRoom, TypeOK
  <2>2. SameJoins(joins, joins')
    BY <1>0, <1>17, DetachSame DEF DeleteRoom, TypeOK
  <2>3. QED
    BY <1>0, <1>17, <2>1, <2>2, StillStays DEF DeleteRoom
<1>18. CASE UNCHANGED vars
  BY <1>18, <1>a DEF vars, state, history
<1>19. QED
  BY <1>1, <1>2, <1>3, <1>4, <1>5, <1>6, <1>7, <1>8, <1>9, <1>10, <1>11, <1>12,
     <1>13, <1>14, <1>15, <1>16, <1>17, <1>18, BoundAssumption
     DEF Next, SocketStep, JoinStep

LEMMA StayAlways == Spec => []Stay
<1>1. QED
  BY StayInit, StayNext, PTL DEF Spec

\* A client that waits for its answers is listed in one room at most.
THEOREM ListedInOneRoom == Spec => []OneRoomAtATime
<1>1. Stay => OneRoomAtATime
  BY DEF Stay
<1>2. QED
  BY <1>1, StayAlways, PTL

\* Such a client's screen share is in the room it is in.
THEOREM SharesFollowSharers == Spec => []SharersAttached
<1>1. Stay => SharersAttached
  BY DEF Stay
<1>2. QED
  BY <1>1, StayAlways, PTL

\* A listed socket that is gone disconnected with a join unanswered.
THEOREM GhostsComeFromLateJoins == Spec => []GhostsAreLateJoins
<1>1. Stay => GhostsAreLateJoins
  BY DEF Stay
<1>2. QED
  BY <1>1, StayAlways, PTL

-----------------------------------------------------------------------------
(* Two members meet                                                        *)

\* The invariant behind PairsMeet.  The events of a room reach whoever listens
\* to it, so that a pair that listens to this room only can lose sight of each
\* other by an event of this room only.  Stay says that a member who leaves a
\* room leaves this one; a closed socket listens to nothing.
ClosedHearNothing == \A s \in Socket : s \notin open => chans[s] = {}

Meetings ==
    /\ Stay
    /\ ClosedHearNothing
    /\ PairsMeet

\* One who PairsMeet speaks of.
Settled(s, r) == s \in members[r] /\ chans[s] = {r} /\ Single(s)

LEMMA PairsOf ==
    ASSUME TypeOK
    PROVE  PairsMeet <=> \A r \in Room, s, t \in Socket :
                            Settled(s, r) /\ Settled(t, r) /\ s # t
                                => s \in peers[t] \/ t \in peers[s]
BY DEF TypeOK, PairsMeet, Settled

LEMMA PairsOfNext ==
    ASSUME TypeOK'
    PROVE  PairsMeet' <=> \A r \in Room, s, t \in Socket :
                            Settled(s, r)' /\ Settled(t, r)' /\ s # t
                                => s \in peers'[t] \/ t \in peers'[s]
BY DEF TypeOK, PairsMeet, Settled

LEMMA MeetingsInit == Init => Meetings
<1>1. Init => Stay
  BY StayInit
<1>2. Init => ClosedHearNothing /\ PairsMeet
  BY DEF Init, ClosedHearNothing, PairsMeet
<1>3. QED
  BY <1>1, <1>2 DEF Meetings

\* An event of a, after which a is settled nowhere: the others may lose sight of
\* a, and of nobody else.
LEMMA OthersStillMeet ==
    ASSUME Meetings, TypeOK', NEW a \in Socket,
           open' \in {open, open \ {a}},
           a \notin open' => chans'[a] = {},
           \A x \in Socket : x # a => chans'[x] = chans[x] /\ peers[x] \subseteq peers'[x] \cup {a},
           \A r \in Room : members'[r] \subseteq members[r],
           overlapped \subseteq overlapped',
           \A r \in Room : ~Settled(a, r)'
    PROVE  ClosedHearNothing' /\ PairsMeet'
<1>1. ClosedHearNothing'
  BY DEF Meetings, ClosedHearNothing
<1>2. ASSUME NEW r \in Room, NEW s \in Socket, NEW t \in Socket,
             Settled(s, r)', Settled(t, r)', s # t
      PROVE  s \in peers'[t] \/ t \in peers'[s]
  <2>1. s # a /\ t # a
    BY <1>2
  <2>2. Settled(s, r) /\ Settled(t, r)
    BY <1>2, <2>1 DEF Settled, Single
  <2>3. s \in peers[t] \/ t \in peers[s]
    BY <1>2, <2>2, PairsOf DEF Meetings, Stay
  <2>4. QED
    BY <2>1, <2>3
<1>3. QED
  BY <1>1, <1>2, PairsOfNext

\* An event that touches neither rooms nor what anybody heard of them.
LEMMA AllStillMeet ==
    ASSUME Meetings, TypeOK', UNCHANGED <<open, members, chans, peers>>,
           overlapped \subseteq overlapped'
    PROVE  ClosedHearNothing' /\ PairsMeet'
<1>1. ClosedHearNothing'
  BY DEF Meetings, ClosedHearNothing
<1>2. ASSUME NEW r \in Room, NEW s \in Socket, Settled(s, r)' PROVE Settled(s, r)
  BY <1>2 DEF Settled, Single
<1>3. QED
  BY <1>1, <1>2, PairsOf, PairsOfNext DEF Meetings, Stay

\* Leaving the room socket.roomId names, as JoinBegin, HandleLeaveRoom and
\* ForceLeave do it.
LEMMA LeaverStillMeets ==
    ASSUME Meetings, TypeOK', NEW a \in Socket, NEW u, roomId[a] # NoRoom,
           LeaveRoom(a, roomId[a], u),
           chans' = ChansLeft(a, roomId[a]),
           \A x \in Socket : x # a => peers[x] \subseteq peers'[x] \cup {a},
           open' = open, overlapped \subseteq overlapped'
    PROVE  ClosedHearNothing' /\ PairsMeet'
<1> DEFINE r == roomId[a]
<1>0. TypeOK /\ r \in Room
  BY DEF Meetings, Stay, TypeOK
<1>1. \A x \in Room : members'[x] = IF x = r THEN members[x] \ {a} ELSE members[x]
  BY DEF LeaveRoom
<1>2. \A x \in Socket : chans'[x] = chans[x] \/ (x = a /\ chans'[x] = chans[x] \ {r})
  BY <1>0 DEF ChansLeft, TypeOK
<1>3. a \notin open' => chans'[a] = {}
  BY <1>2 DEF Meetings, ClosedHearNothing
<1>4. ASSUME NEW x \in Room, Settled(a, x)' PROVE FALSE
  <2>1. a \in members[x] /\ x # r
    BY <1>1, <1>4 DEF Settled
  <2>2. a \in open /\ Single(a)
    BY <1>3, <1>4 DEF Settled, Single
  <2>3. roomId[a] = x
    BY <2>1, <2>2 DEF Meetings, Stay, OneRoomAtATime
  <2>4. QED
    BY <2>1, <2>3
<1>5. \A x \in Room : members'[x] \subseteq members[x]
  BY <1>1
<1>6. \A x \in Socket : x # a => chans'[x] = chans[x]
  BY <1>2
<1> HIDE DEF r
<1>7. QED
  BY <1>3, <1>4, <1>5, <1>6, OthersStillMeet

LEMMA MeetingsNext == Meetings /\ [Next]_vars => Meetings'
<1> SUFFICES ASSUME Meetings, [Next]_vars PROVE ClosedHearNothing' /\ PairsMeet'
  BY StayNext DEF Meetings
<1>0. TypeOK /\ TypeOK'
  BY TypeNext DEF Meetings, Stay
<1> USE NoRoomAssumption
<1>a. ASSUME UNCHANGED <<open, members, chans, peers, overlapped>>
      PROVE  ClosedHearNothing' /\ PairsMeet'
  BY <1>0, <1>a, AllStillMeet
<1>1. ASSUME NEW s \in Socket, NEW r \in Room, Grant(s, r)
      PROVE  ClosedHearNothing' /\ PairsMeet'
  BY <1>1, <1>a DEF Grant, history
<1>2. ASSUME NEW s \in Socket, NEW r \in Room, Revoke(s, r)
      PROVE  ClosedHearNothing' /\ PairsMeet'
  BY <1>2, <1>a DEF Revoke, state, history
<1>3. ASSUME NEW s \in Socket, NEW r \in Room, NEW k \in Slot, JoinBegin(s, r, k)
      PROVE  ClosedHearNothing' /\ PairsMeet'
  <2> DEFINE old == OtherRoom(s, r)
  <2>1. /\ LeaveRoom(s, old, {s})
        /\ chans' = ChansLeft(s, old)
        /\ peers' = IF old = NoRoom THEN peers
                    ELSE IF Exists(old) THEN Departed(s, old) ELSE [peers EXCEPT ![s] = {}]
        /\ open' = open /\ overlapped \subseteq overlapped'
    BY <1>3 DEF JoinBegin
  <2>2. CASE old = NoRoom
    <3>1. members' = [x \in Room |-> members[x]]
      BY <2>1, <2>2 DEF LeaveRoom
    <3>2. members' = members /\ chans' = chans /\ peers' = peers
      BY <1>0, <2>1, <2>2, <3>1 DEF ChansLeft, Exists, TypeOK
    <3>3. QED
      BY <1>0, <2>1, <3>2, AllStillMeet
  <2>3. CASE old # NoRoom
    <3>1. old = roomId[s]
      BY <2>3 DEF OtherRoom
    <3>2. \A x \in Socket : x # s => peers[x] \subseteq peers'[x] \cup {s}
      BY <1>0, <2>1, <2>3 DEF Departed, Forget, TypeOK
    <3> HIDE DEF old
    <3>3. QED
      BY <1>0, <2>1, <2>3, <3>1, <3>2, LeaverStillMeets
  <2>4. QED
    BY <2>2, <2>3
<1>4. ASSUME NEW j \in joins, JoinDenied(j) PROVE ClosedHearNothing' /\ PairsMeet'
  BY <1>4, <1>a DEF JoinDenied, history
\* Whoever joins is announced to all that listen to the room.
<1>5. ASSUME NEW j \in joins, JoinGranted(j) PROVE ClosedHearNothing' /\ PairsMeet'
  <2> DEFINE a == j.sock
             q == j.room
  <2>1. a \in Socket /\ q \in Room
    BY <1>0 DEF TypeOK, Join
  <2>2. /\ \A x \in Room : x # q => members'[x] = members[x]
        /\ members'[q] = members[q] \cup {a}
    BY <1>0, <1>5, <2>1 DEF JoinGranted, TypeOK
  <2>3. /\ \A x \in Socket : x # a => chans'[x] = chans[x]
        /\ chans'[a] = IF a \in open THEN chans[a] \cup {q} ELSE chans[a]
    <3>1. chans' = IF a \in open THEN [chans EXCEPT ![a] = @ \cup {q}] ELSE chans
      BY <1>5 DEF JoinGranted
    <3>2. chans \in [Socket -> SUBSET Room]
      BY <1>0 DEF TypeOK
    <3> HIDE DEF a, q
    <3>3. QED
      BY <2>1, <3>1, <3>2
  <2>4. \A x \in Socket : x # a => peers'[x] = IF q \in chans[x] THEN peers[x] \cup {a} ELSE peers[x]
    <3>1. PICK list : peers' = Announce(a, q, list)
      BY <1>5 DEF JoinGranted
    <3>2. QED
      BY <3>1 DEF Announce
  <2>5. open' = open /\ overlapped' = overlapped
    BY <1>5 DEF JoinGranted, history
  <2> HIDE DEF a, q
  <2>6. ClosedHearNothing'
    BY <2>1, <2>3, <2>5 DEF Meetings, ClosedHearNothing
  <2>7. ASSUME NEW r \in Room, Settled(a, r)' PROVE r = q
    BY <2>1, <2>3, <2>5, <2>7 DEF Meetings, ClosedHearNothing, Settled
  <2>8. ASSUME NEW r \in Room, NEW x \in Socket, x # a, Settled(x, r)'
        PROVE  Settled(x, r)
    BY <2>2, <2>3, <2>5, <2>8 DEF Settled, Single
  <2>9. ASSUME NEW r \in Room, NEW x \in Socket, x # a, Settled(x, r)', Settled(a, r)'
        PROVE  a \in peers'[x]
    <3>1. r = q /\ q \in chans[x]
      BY <2>7, <2>8, <2>9 DEF Settled
    <3>2. QED
      BY <2>4, <2>9, <3>1
  <2>10. ASSUME NEW r \in Room, NEW s \in Socket, NEW t \in Socket,
                Settled(s, r)', Settled(t, r)', s # t
         PROVE  s \in peers'[t] \/ t \in peers'[s]
    <3>1. CASE s = a \/ t = a
      BY <2>9, <2>10, <3>1
    <3>2. CASE s # a /\ t # a
      <4>1. s \in peers[t] \/ t \in peers[s]
        BY <1>0, <2>8, <2>10, <3>2, PairsOf DEF Meetings
      <4>2. QED
        BY <2>4, <3>2, <4>1
    <3>3. QED
      BY <3>1, <3>2
  <2>11. QED
    BY <1>0, <2>6, <2>10, PairsOfNext
<1>6. ASSUME NEW s \in Socket, HandleLeaveRoom(s) PROVE ClosedHearNothing' /\ PairsMeet'
  <2>1. /\ roomId[s] # NoRoom
        /\ LeaveRoom(s, roomId[s], {s})
        /\ chans' = ChansLeft(s, roomId[s])
        /\ peers' = Departed(s, roomId[s])
        /\ open' = open /\ overlapped' = overlapped
    BY <1>6 DEF HandleLeaveRoom, history
  <2>2. \A x \in Socket : x # s => peers[x] \subseteq peers'[x] \cup {s}
    BY <2>1 DEF Departed, Forget
  <2>3. QED
    BY <1>0, <2>1, <2>2, LeaverStillMeets
<1>7. ASSUME NEW s \in Socket, HandleDisconnect(s) PROVE ClosedHearNothing' /\ PairsMeet'
  <2>1. /\ open' = open \ {s}
        /\ chans' = [chans EXCEPT ![s] = {}]
        /\ peers' = Departed(s, roomId[s])
        /\ overlapped' = overlapped
    BY <1>7 DEF HandleDisconnect
  <2>2. \A r \in Room : members'[r] \subseteq members[r]
    BY <1>0, <1>7 DEF HandleDisconnect, LeaveRoom, TypeOK
  <2>3. chans'[s] = {} /\ \A x \in Socket : x # s => chans'[x] = chans[x]
    BY <1>0, <2>1 DEF TypeOK
  <2>4. \A x \in Socket : x # s => peers[x] \subseteq peers'[x] \cup {s}
    BY <2>1 DEF Departed, Forget
  <2>5. \A r \in Room : ~Settled(s, r)'
    BY <2>3 DEF Settled
  <2>6. QED
    BY <1>0, <2>1, <2>2, <2>3, <2>4, <2>5, OthersStillMeet
<1>8. ASSUME NEW s \in Socket, RecheckTick(s) PROVE ClosedHearNothing' /\ PairsMeet'
  BY <1>8, <1>a DEF RecheckTick, state, history
<1>9. ASSUME NEW s \in Socket, RecheckPassed(s) PROVE ClosedHearNothing' /\ PairsMeet'
  BY <1>9, <1>a DEF RecheckPassed, state, history
<1>10. ASSUME NEW s \in Socket, ForceLeave(s) PROVE ClosedHearNothing' /\ PairsMeet'
  <2>1. /\ LeaveRoom(s, roomId[s], {})
        /\ chans' = ChansLeft(s, roomId[s])
        /\ peers' = IF Exists(roomId[s]) THEN Forget(s, roomId[s]) ELSE peers
        /\ open' = open /\ overlapped' = overlapped
    BY <1>10 DEF ForceLeave, history
  <2>2. CASE roomId[s] = NoRoom
    <3>1. members' = [x \in Room |-> members[x]]
      BY <2>1, <2>2 DEF LeaveRoom
    <3>2. members' = members /\ chans' = chans /\ peers' = peers
      BY <1>0, <2>1, <2>2, <3>1 DEF ChansLeft, Exists, TypeOK
    <3>3. QED
      BY <1>0, <2>1, <3>2, AllStillMeet
  <2>3. CASE roomId[s] # NoRoom
    <3>1. \A x \in Socket : x # s => peers[x] \subseteq peers'[x] \cup {s}
      BY <2>1 DEF Forget
    <3>2. QED
      BY <1>0, <2>1, <2>3, <3>1, LeaverStillMeets
  <2>4. QED
    BY <2>2, <2>3
<1>11. ASSUME NEW s \in Socket, ScreenshareStarted(s) PROVE ClosedHearNothing' /\ PairsMeet'
  BY <1>11, <1>a DEF ScreenshareStarted, history
<1>12. ASSUME NEW s \in Socket, ScreenshareStopped(s) PROVE ClosedHearNothing' /\ PairsMeet'
  BY <1>12, <1>a DEF ScreenshareStopped, history
<1>13. ASSUME NEW s \in Socket, UserUpdate(s) PROVE ClosedHearNothing' /\ PairsMeet'
  BY <1>13, <1>a DEF UserUpdate, state, history
<1>14. ASSUME NEW r \in Room, Ages(r) PROVE ClosedHearNothing' /\ PairsMeet'
  BY <1>14, <1>a DEF Ages, history
<1>15. ASSUME Cleanup PROVE ClosedHearNothing' /\ PairsMeet'
  BY <1>15, <1>a DEF Cleanup, history
<1>16. ASSUME NEW r \in Room, PostRoom(r) PROVE ClosedHearNothing' /\ PairsMeet'
  BY <1>16, <1>a DEF PostRoom, history
\* A closed room makes those forget who listen to it, and they are settled in no other.
<1>17. ASSUME NEW q \in Room, DeleteRoom(q) PROVE ClosedHearNothing' /\ PairsMeet'
  <2>1. /\ members' = [members EXCEPT ![q] = {}]
        /\ peers' = [s \in Socket |-> IF q \in chans[s] THEN {} ELSE peers[s]]
        /\ UNCHANGED <<open, chans, overlapped>>
    BY <1>17 DEF DeleteRoom
  <2>2. ClosedHearNothing'
    BY <2>1 DEF Meetings, ClosedHearNothing
  <2>3. ASSUME NEW r \in Room, NEW s \in Socket, Settled(s, r)'
        PROVE  Settled(s, r) /\ peers'[s] = peers[s]
    <3>1. r # q /\ s \in members[r]
      BY <1>0, <2>1, <2>3 DEF Settled, TypeOK
    <3>2. chans[s] = {r} /\ Single(s)
      BY <2>1, <2>3 DEF Settled, Single
    <3>3. QED
      BY <2>1, <3>1, <3>2 DEF Settled
  <2>4. QED
    BY <1>0, <2>2, <2>3, PairsOf, PairsOfNext DEF Meetings
<1>18. CASE UNCHANGED vars
  BY <1>18, <1>a DEF vars, state, history
<1>19. QED
  BY <1>1, <1>2, <1>3, <1>4, <1>5, <1>6, <1>7, <1>8, <1>9, <1>10, <1>11, <1>12,
     <1>13, <1>14, <1>15, <1>16, <1>17, <1>18, BoundAssumption
     DEF Next, SocketStep, JoinStep

\* Of two members of a room that listen to no other and never overlapped their
\* joins, the events told at least one of the other.
THEOREM MembersMeet == Spec => []PairsMeet
<1>1. Meetings => PairsMeet
  BY DEF Meetings
<1>2. QED
  BY <1>1, MeetingsInit, MeetingsNext, PTL DEF Spec

=============================================================================
