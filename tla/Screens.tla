------------------------------ MODULE Screens ------------------------------
(***************************************************************************)
(* Screen shares in one room: the browsers' useScreenshare, the relay's     *)
(* list of shares and the video bot, which is one more sharer.  A sharer    *)
(* calls every other member on its screen peer id, which the relay hands    *)
(* out and passes on; who is called answers once the relay has announced    *)
(* the share.  What a page or the bot sends is handled by the relay at once, *)
(* what the relay sends waits in an inbox, and the calls themselves go      *)
(* through the PeerJS server, so that the two overtake each other.          *)
(* PeerJS, its server and the WebRTC library of the bot are external.       *)
(***************************************************************************)
EXTENDS Naturals, FiniteSets, Sequences

CONSTANTS Browser, Bots,  \* the pages and the video bot of the room
          Companies,      \* bound: who takes part, one of these sets of clients
          MaxTurns        \* bound: joins and shares of browsers

Client == Browser \cup Bots

ASSUME ClientAssumption ==
  Browser \cap Bots = {} /\ Companies \subseteq SUBSET Client /\ MaxTurns \in Nat

VARIABLES
  \* the relay
  members,   \* room.users
  checking,  \* those whose join-room is being checked
  ids,       \* those whose socket has a screenPeerId
  shares,    \* activeScreenShares
  inbox,     \* the events on their way to each client
  \* the clients
  inRoom,    \* whether currentRoomId is this room
  peer,      \* screenPeerRef: "none", "asked", "late" (no ICE servers yet), "made", "open"
  stream,    \* the number of the share in localStreamRef, 0 if none
  picking,   \* those whose getDisplayMedia is open
  allowed,   \* allowedScreenPeerIds
  named,     \* the keys of peerScreenPeerIds
  calls,     \* the calls, see Call
  gone,      \* the clients that have disconnected for good
  \* bookkeeping
  joins, count,
  lost       \* pairs <<viewer, sharer>> whose call was dropped, by whom it was not meant for

relay == <<members, checking, ids, shares>>
page == <<inRoom, peer, stream, picking, allowed, named>>
counts == <<joins, count>>
vars == <<relay, inbox, page, calls, gone, counts, lost>>

\* A call as its two ends see it.  "held": in screenCallsRef (or avConns), "orphan": open
\* but replaced there by another, "pending": in pendingCallsRef.  The bot's end is "offered"
\* until an answer has come and "closing" until the library has told of a close.
Call == [from: Client, to: Browser \cup Bots, share: Nat,
         out: {"offered", "held", "orphan", "closing", "closed"},
         in: {"ringing", "pending", "held", "orphan", "closed"},
         reply: BOOLEAN, shown: BOOLEAN]

Kinds == {"assigned", "all-users", "peers", "started", "stopped", "left", "new"}

TypeOK ==
  /\ members \subseteq Client /\ checking \subseteq Client /\ ids \subseteq Client
  /\ shares \subseteq Client /\ gone \subseteq Client /\ picking \subseteq Browser
  /\ \A c \in Client : \A i \in DOMAIN inbox[c] :
       inbox[c][i].kind \in Kinds /\ inbox[c][i].who \subseteq Client
  /\ inRoom \in [Client -> BOOLEAN]
  /\ peer \in [Client -> {"none", "asked", "late", "made", "open"}]
  /\ stream \in [Client -> Nat] /\ joins \in Nat /\ count \in Nat
  /\ allowed \in [Client -> SUBSET Client] /\ named \in [Client -> SUBSET Client]
  /\ calls \subseteq Call /\ lost \subseteq Client \X Client

Nobody == [c \in Client |-> {}]

Init ==
  /\ members = {} /\ checking = {} /\ ids = {} /\ shares = {} /\ picking = {}
  /\ inbox = [c \in Client |-> <<>>]
  /\ inRoom = [c \in Client |-> FALSE] /\ peer = [c \in Client |-> "none"]
  /\ stream = [c \in Client |-> 0] /\ joins = 0 /\ count = 0
  /\ allowed = Nobody /\ named = Nobody
  /\ calls = {} /\ lost = {}
  /\ \E company \in Companies : gone = Client \ company

-----------------------------------------------------------------------------
(* Calls                                                                    *)

Event(kind, who) == [kind |-> kind, who |-> who]
Told(boxes, whom, e) ==
  [c \in Client |-> IF c \in whom THEN Append(boxes[c], e) ELSE boxes[c]]

Between(k, c, p) == {k.from, k.to} = {c, p}
End(k, c) == IF k.from = c THEN k.out ELSE k.in
Keeps(k, c) == End(k, c) \in {"offered", "held"}
WithEnd(k, c, e) ==
  IF k.from = c THEN [k EXCEPT !.out = e] ELSE [k EXCEPT !.in = e, !.shown = FALSE]

\* A call is forgotten when nobody can tell it from one that never was: a browser that
\* calls hears nothing of the other end's close.
Real(ks) == {k \in ks : k.in = "closed" => k.from \in Bots /\ k.out # "closed"}
Ended(ks, c, closes(_)) == Real({IF closes(k) THEN WithEnd(k, c, "closed") ELSE k : k \in ks})
Hidden(ks, c, p) == {IF k.from = p /\ k.to = c THEN [k EXCEPT !.shown = FALSE] ELSE k : k \in ks}

\* screenCallsRef.set(p, ...) at c: the call it held with p stays open unheld.
Replaced(ks, c, ps) ==
  {IF Keeps(k, c) /\ \E p \in ps : Between(k, c, p) THEN [WithEnd(k, c, "orphan")
     EXCEPT !.shown = k.shown] ELSE k : k \in ks}

\* callPeerWithScreen, for each of ps; `out` is how the caller keeps the call.
Called(ks, c, ps, out) ==
  Replaced(ks, c, ps)
    \cup {[from |-> c, to |-> p, share |-> stream[c], out |-> out, in |-> "ringing",
           reply |-> FALSE, shown |-> FALSE] : p \in ps}

\* closeRemoteScreenStream(p): what is shown of p goes, and the call held with p is
\* closed, even if it is the page's own call to p.
CloseRemote(ks, c, p) ==
  LET closes(k) == Between(k, c, p) /\ Keeps(k, c)
  IN  Ended(Hidden(ks, c, p), c, closes)

\* Mutant: the calls of screenCallsRef are forgotten, not closed.
ClearedUnclosed(ks, c) ==
  LET closes(k) == k.to = c /\ k.in = "pending"
  IN  Ended({IF k.to = c THEN [k EXCEPT !.shown = FALSE] ELSE k : k \in ks}, c, closes)
\* clearRoomState: what is held or pending is closed; an orphan stays open, unseen.
Cleared(ks, c) ==
  LET closes(k) == c \in {k.from, k.to} /\ (Keeps(k, c) \/ End(k, c) = "pending")
  IN  Ended({IF k.to = c THEN [k EXCEPT !.shown = FALSE] ELSE k : k \in ks}, c, closes)

\* The client is gone, with every connection.
Severed(ks, c) == LET closes(k) == c \in {k.from, k.to} IN Ended(ks, c, closes)

\* The views of going shares that c takes when it closes what it holds with p, or hides p.
Taken(c, p) ==
  {<<k.to, k.from>> : k \in {h \in calls :
     /\ Between(h, c, p) /\ (Keeps(h, c) \/ (h.to = c /\ h.shown))
     /\ h.share = stream[h.from] /\ h.in # "closed" /\ h.out \notin {"closing", "closed"}}}
\* Who joins, leaves or shares anew makes a fresh start.
LostWithout(c) == {w \in lost : c \notin {w[1], w[2]}}

-----------------------------------------------------------------------------
(* The relay                                                                *)

Others(c) == members \ {c}

\* handleRequestScreenPeerId: the sharers of the room are told.
SharersTold(c) == IF c \in members THEN (shares \ {c}) \ gone ELSE {}
RequestScreenPeerId(c, boxes) ==
  /\ ids' = ids \cup {c}
  /\ inbox' = Told(Told(boxes, SharersTold(c), Event("new", {c})), {c}, Event("assigned", {}))

\* handleScreenshareStarted: nothing happens outside a room.
ScreenshareStarted(c, boxes) ==
  IF c \in members
  THEN /\ shares' = shares \cup {c}
       /\ inbox' = Told(Told(boxes, Others(c), Event("started", {c})), {c},
                        Event("peers", Others(c) \cap ids))
  ELSE inbox' = boxes /\ UNCHANGED shares

\* handleScreenshareStopped
ScreenshareStopped(c) ==
  IF c \in members
  THEN shares' = shares \ {c} /\ inbox' = Told(inbox, Others(c), Event("stopped", {c}))
  ELSE UNCHANGED <<shares, inbox>>

\* One event for each share the newcomer finds, in some order.
Listed(box, ps) ==
  {box \o [i \in 1 .. Cardinality(ps) |-> Event("started", {order[i]})] :
     order \in {f \in [1 .. Cardinality(ps) -> ps] : {f[i] : i \in DOMAIN f} = ps}}

\* handleJoinRoom, once the check is passed: the newcomer hears of the shares, and the
\* sharers of the newcomer if it has a screen peer id (all-users matters here to the bot).
JoinGranted(c) ==
  /\ c \in checking
  /\ checking' = checking \ {c} /\ members' = members \cup {c}
  /\ \E box \in Listed(IF c \in Bots THEN Append(inbox[c], Event("all-users", {})) ELSE inbox[c],
                        shares) :
       inbox' = [Told(inbox, IF c \in ids THEN shares \ (gone \cup {c}) ELSE {}, Event("new", {c}))
                   EXCEPT ![c] = box]
  /\ UNCHANGED <<ids, shares, page, calls, gone, counts, lost>>

\* The room's shares go with its last member.
Remaining(kept, c) == IF members \subseteq {c} THEN {} ELSE kept

\* handleLeaveRoom tells of a share, handleJoinRoom for another room removes it without a
\* word, handleDisconnect leaves it.
LeaveRoom(c) ==
  /\ members' = members \ {c} /\ shares' = Remaining(shares \ {c}, c)
  /\ inbox' = IF c \in members \cap shares THEN Told(inbox, Others(c), Event("left", {c})) ELSE inbox
SwitchRoom(c) ==
  members' = members \ {c} /\ shares' = Remaining(shares \ {c}, c) /\ UNCHANGED inbox
HandleDisconnect(c) ==
  /\ members' = members \ {c} /\ checking' = checking \ {c} /\ gone' = gone \cup {c}
  /\ shares' = Remaining(shares, c)

-----------------------------------------------------------------------------
(* useScreenshare                                                           *)

Here(c) == c \in Browser \ gone

\* The page has a socket: it asks for its screen peer id.
Connect(c) ==
  /\ Here(c) /\ peer[c] = "none"
  /\ peer' = [peer EXCEPT ![c] = "asked"]
  /\ RequestScreenPeerId(c, inbox)
  /\ UNCHANGED <<members, checking, shares, inRoom, stream, picking, allowed, named, calls,
                 gone, counts, lost>>

\* tryInit, once there are ICE servers; then the PeerJS server has the page.
InitPeer(c) ==
  /\ Here(c) /\ peer[c] = "late"
  /\ peer' = [peer EXCEPT ![c] = "made"]
  /\ UNCHANGED <<relay, inbox, inRoom, stream, picking, allowed, named, calls, gone, counts, lost>>
PeerOpens(c) ==
  /\ Here(c) /\ peer[c] = "made"
  /\ peer' = [peer EXCEPT ![c] = "open"]
  /\ UNCHANGED <<relay, inbox, inRoom, stream, picking, allowed, named, calls, gone, counts, lost>>

ClearRoomState(c) ==
  /\ allowed' = [allowed EXCEPT ![c] = {}] /\ named' = [named EXCEPT ![c] = {}]
  /\ stream' = [stream EXCEPT ![c] = 0]
  /\ calls' = Cleared(calls, c) /\ lost' = LostWithout(c)

\* joinRoom, leaveRoom, and joinRoom of another room (a join in flight is not left:
\* see RealtimeRooms).
JoinRoom(c) ==
  /\ Here(c) /\ ~inRoom[c] /\ peer[c] # "none" /\ joins + count < MaxTurns
  /\ joins' = joins + 1
  /\ inRoom' = [inRoom EXCEPT ![c] = TRUE] /\ checking' = checking \cup {c}
  /\ ClearRoomState(c)
  /\ UNCHANGED <<members, ids, shares, inbox, peer, picking, gone, count>>
Leave(c) ==
  /\ Here(c) /\ inRoom[c] /\ c \notin checking
  /\ inRoom' = [inRoom EXCEPT ![c] = FALSE]
  /\ ClearRoomState(c) /\ LeaveRoom(c)
  /\ UNCHANGED <<checking, ids, peer, picking, gone, counts>>
Switch(c) ==
  /\ Here(c) /\ inRoom[c] /\ c \notin checking
  /\ inRoom' = [inRoom EXCEPT ![c] = FALSE]
  /\ ClearRoomState(c) /\ SwitchRoom(c)
  /\ UNCHANGED <<checking, ids, peer, picking, gone, counts>>

\* startScreenShare waits for the user to pick a screen and looks at the room no more.
PickScreen(c) ==
  /\ Here(c) /\ c \notin picking
  /\ inRoom[c] /\ peer[c] \in {"made", "open"} /\ stream[c] = 0 /\ joins + count < MaxTurns
  /\ picking' = picking \cup {c}
  /\ UNCHANGED <<relay, inbox, inRoom, peer, stream, allowed, named, calls, gone, counts, lost>>
StartScreenShare(c) ==
  /\ Here(c) /\ c \in picking /\ joins + count < MaxTurns
  /\ picking' = picking \ {c}
  /\ count' = count + 1 /\ stream' = [stream EXCEPT ![c] = count']
  /\ ScreenshareStarted(c, inbox)
  /\ lost' = {w \in lost : w[2] # c}
  /\ UNCHANGED <<members, checking, ids, inRoom, peer, allowed, named, calls, gone, joins>>

\* stopScreenShare closes every held call, those it watches too, each with its close event.
StopScreenShare(c) ==
  LET watched == {p \in Client : \E k \in calls : k.from = p /\ k.to = c /\ Keeps(k, c)}
      closes(k) == c \in {k.from, k.to} /\ Keeps(k, c)
      hides(k) == k.to = c /\ k.from \in watched
  IN  /\ Here(c) /\ inRoom[c] /\ stream[c] # 0
      /\ stream' = [stream EXCEPT ![c] = 0]
      /\ calls' = Ended({IF hides(k) THEN [k EXCEPT !.shown = FALSE] ELSE k : k \in calls}, c, closes)
      /\ allowed' = [allowed EXCEPT ![c] = @ \ watched]
      /\ ScreenshareStopped(c)
      /\ lost' = lost \cup {<<c, p>> : p \in watched}
      /\ UNCHANGED <<members, checking, ids, inRoom, peer, picking, named, gone, counts>>

\* The page is closed.
Disconnect(c) ==
  /\ Here(c) /\ inRoom[c]
  /\ HandleDisconnect(c)
  /\ inbox' = [inbox EXCEPT ![c] = <<>>]
  /\ inRoom' = [inRoom EXCEPT ![c] = FALSE] /\ peer' = [peer EXCEPT ![c] = "none"]
  /\ stream' = [stream EXCEPT ![c] = 0] /\ picking' = picking \ {c}
  /\ allowed' = [allowed EXCEPT ![c] = {}] /\ named' = [named EXCEPT ![c] = {}]
  /\ calls' = Severed(calls, c) /\ lost' = LostWithout(c)
  /\ UNCHANGED <<ids, counts>>

-----------------------------------------------------------------------------
(* What a page hears                                                        *)

Hears(c, kind) == Here(c) /\ inbox[c] # <<>> /\ Head(inbox[c]).kind = kind
Rest(c) == [inbox EXCEPT ![c] = Tail(@)]
Named(c) == CHOOSE p \in Head(inbox[c]).who : TRUE

\* Mutant: a call that was waiting for the announcement stays where it is.
NothingPending(c, p, k) == FALSE
\* A pending call of p's.
PendingOf(c, p, k) == k.from = p /\ k.to = c /\ k.in = "pending"

\* answerCall: the call is held, and its stream replaces what was shown of the peer.
Answered(ks, c, k) ==
  (Replaced(Hidden(ks \ {k}, c, k.from), c, {k.from}))
    \cup {[k EXCEPT !.in = "held", !.shown = TRUE, !.reply = k.from \in Bots]}

\* A call that is over takes the place of one that is not.
Outdone(c, k) == IF k.out \in {"closing", "closed"} THEN Taken(c, k.from) ELSE {}

HandleScreenPeerAssigned(c) ==
  /\ Hears(c, "assigned") /\ inbox' = Rest(c)
  /\ peer' = [peer EXCEPT ![c] = "late"]
  /\ UNCHANGED <<relay, inRoom, stream, picking, allowed, named, calls, gone, counts, lost>>

\* handleRoomScreenPeers
HandleRoomScreenPeers(c) ==
  LET ps == Head(inbox[c]).who IN
  /\ Hears(c, "peers") /\ inbox' = Rest(c)
  /\ allowed' = [allowed EXCEPT ![c] = @ \cup ps]
  /\ calls' = IF stream[c] # 0 THEN Called(calls, c, ps, "held") ELSE calls
  /\ UNCHANGED <<relay, inRoom, peer, stream, picking, named, gone, counts, lost>>

\* handlePeerScreenshareStarted answers a call that came first.
HandlePeerScreenshareStarted(c) ==
  LET p == Named(c) IN
  /\ Hears(c, "started") /\ inbox' = Rest(c)
  /\ allowed' = [allowed EXCEPT ![c] = @ \cup {p}] /\ named' = [named EXCEPT ![c] = @ \cup {p}]
  /\ IF \E k \in calls : PendingOf(c, p, k)
     THEN \E k \in calls :
            PendingOf(c, p, k) /\ calls' = Answered(calls, c, k) /\ lost' = lost \cup Outdone(c, k)
     ELSE UNCHANGED <<calls, lost>>
  /\ UNCHANGED <<relay, inRoom, peer, stream, picking, gone, counts>>

\* handlePeerScreenshareStopped
HandlePeerScreenshareStopped(c) ==
  LET p == Named(c) IN
  /\ Hears(c, "stopped") \/ Hears(c, "left")
  /\ inbox' = Rest(c)
  /\ IF p \in named[c]
     THEN /\ calls' = CloseRemote(calls, c, p)
          /\ allowed' = [allowed EXCEPT ![c] = @ \ {p}] /\ named' = [named EXCEPT ![c] = @ \ {p}]
          /\ lost' = lost \cup Taken(c, p)
     ELSE UNCHANGED <<calls, allowed, named, lost>>
  /\ UNCHANGED <<relay, inRoom, peer, stream, picking, gone, counts>>

\* handleNewScreenPeer
HandleNewScreenPeer(c) ==
  /\ Hears(c, "new") /\ inbox' = Rest(c)
  /\ calls' = IF stream[c] # 0 THEN Called(calls, c, Head(inbox[c]).who, "held") ELSE calls
  /\ UNCHANGED <<relay, page, gone, counts, lost>>

\* The PeerJS server keeps the order of what one peer sends another.
Live(k) == k.out \in {"offered", "held"}
Older(h, k) ==
  /\ h.from = k.from /\ h.to = k.to
  /\ h.share < k.share \/ (h.share = k.share /\ Live(k) /\ ~Live(h))

\* A call arrives: it is answered if the peer is known to share, else it waits, in the
\* place of the one that waited before.
Rings(k) ==
  LET c == k.to IN
  /\ k.in = "ringing" /\ c \in Browser /\ peer[c] = "open"
  /\ \A h \in calls : h.in = "ringing" => ~Older(h, k)
  /\ calls' =
       IF k.from \in allowed[c] THEN Answered(calls, c, k)
       ELSE LET replaced(h) == PendingOf(c, k.from, h)
            IN  Ended(calls \ {k}, c, replaced) \cup {[k EXCEPT !.in = "pending"]}
  /\ lost' = IF k.from \in allowed[c] THEN lost \cup Outdone(c, k) ELSE lost
  /\ UNCHANGED <<relay, inbox, page, gone, counts>>

\* Or it does not, as the page's peer is not there yet; the PeerJS server gives it up, and
\* tells the caller: the browser ignores it, the bot closes its connection.
Expires(k) ==
  LET c == k.to IN
  /\ k.in = "ringing" /\ peer[c] # "open"
  /\ calls' = Real((calls \ {k}) \cup
       {[k EXCEPT !.in = "closed", !.out = IF k.from \in Bots /\ @ = "offered" THEN "closing" ELSE @]})
  /\ lost' = lost \cup {<<c, k.from>>}
  /\ UNCHANGED <<relay, inbox, page, gone, counts>>

Announced(c, p) == \E i \in DOMAIN inbox[c] : inbox[c][i] = Event("started", {p})

\* The caller's end of an answered call is closed, and the page notices.
CloseEvent(k) ==
  LET c == k.to  p == k.from IN
  /\ k.in \in {"held", "orphan"} /\ k.out \in {"closing", "closed"}
  /\ LET noticed == Real((calls \ {k}) \cup {[k EXCEPT !.in = "closed", !.shown = FALSE]})
     IN  calls' = CloseRemote(noticed, c, p)
  /\ allowed' = [allowed EXCEPT ![c] = @ \ {p}]
  /\ lost' = lost \cup Taken(c, p)
               \cup IF p \in shares /\ ~Announced(c, p) THEN {<<c, p>>} ELSE {}
  /\ UNCHANGED <<relay, inbox, inRoom, peer, stream, picking, named, gone, counts>>

-----------------------------------------------------------------------------
(* The video bot                                                            *)

Up(v) == v \in Bots \ gone
Conns(v) == {k \in calls : k.from = v /\ Keeps(k, v)}

BotJoins(v) ==
  /\ Up(v) /\ ~inRoom[v]
  /\ inRoom' = [inRoom EXCEPT ![v] = TRUE] /\ checking' = checking \cup {v}
  /\ UNCHANGED <<members, ids, shares, inbox, peer, stream, picking, allowed, named, calls,
                 gone, counts, lost>>

\* onAllUsers: ask for a screen peer id, connect with it, share.
OnAllUsers(v) ==
  /\ Up(v) /\ inbox[v] # <<>> /\ Head(inbox[v]).kind = "all-users"
  /\ peer' = [peer EXCEPT ![v] = "asked"]
  /\ RequestScreenPeerId(v, Rest(v))
  /\ UNCHANGED <<members, checking, shares, inRoom, stream, picking, allowed, named, calls,
                 gone, counts, lost>>
ConnectScreenPeerWs(v) ==
  /\ Up(v) /\ inbox[v] # <<>> /\ Head(inbox[v]).kind = "assigned"
  /\ inbox' = Rest(v) /\ peer' = [peer EXCEPT ![v] = "made"]
  /\ UNCHANGED <<relay, inRoom, stream, picking, allowed, named, calls, gone, counts, lost>>
StreamStarted(v) ==
  /\ Up(v) /\ peer[v] = "made"
  /\ peer' = [peer EXCEPT ![v] = "open"] /\ stream' = [stream EXCEPT ![v] = 1]
  /\ ScreenshareStarted(v, inbox)
  /\ UNCHANGED <<members, checking, ids, inRoom, picking, allowed, named, calls, gone, counts, lost>>

Emptied(v) ==
  /\ inRoom' = [inRoom EXCEPT ![v] = FALSE] /\ peer' = [peer EXCEPT ![v] = "none"]
  /\ stream' = [stream EXCEPT ![v] = 0]
  /\ calls' = Severed(calls, v) /\ lost' = LostWithout(v)
  /\ UNCHANGED <<ids, picking, allowed, named, counts>>

\* destroy: screenshare-stopped, leave-room, disconnect.
Destroy(v) ==
  /\ members' = members \ {v} /\ checking' = checking \ {v} /\ gone' = gone \cup {v}
  /\ shares' = Remaining(shares \ {v}, v)
  /\ inbox' = [IF v \in members THEN Told(inbox, Others(v), Event("stopped", {v})) ELSE inbox
                 EXCEPT ![v] = <<>>]
  /\ Emptied(v)
\* The service ends: shutdown destroys the sessions and exits, and what they emit may or may
\* not get out.
Crash(v) ==
  \/ Destroy(v)
  \/ HandleDisconnect(v) /\ inbox' = [inbox EXCEPT ![v] = <<>>] /\ Emptied(v)

\* Somebody tells the bot to leave; a timeout in onAllUsers ends the service.
Destroyed(v) == Up(v) /\ inRoom[v] /\ Destroy(v)
StartFails(v) == Up(v) /\ peer[v] \in {"asked", "made"} /\ Crash(v)

\* closeAVPeer: the last connection closed takes the bot with it (checkAutoLeave).
CloseAVPeer(v, p, boxes, ks) ==
  LET closed == {k \in ks : k.from = v /\ k.to = p /\ Keeps(k, v)}
      closes(k) == k \in closed
  IN  IF closed # {} /\ Conns(v) \subseteq {k \in calls : k.to = p}
      THEN Destroy(v)
      ELSE /\ calls' = Real({IF closes(k) THEN [k EXCEPT !.out = "closing"] ELSE k : k \in ks})
           /\ inbox' = boxes /\ lost' = lost \cup Taken(v, p)
           /\ UNCHANGED <<relay, page, gone, counts>>

\* callFrontendScreenPeer closes the connection it replaces.
CallsFrontends(v, ps) ==
  LET closed == {k \in Conns(v) : k.to \in ps}
  IN  Called((calls \ closed) \cup {[k EXCEPT !.out = "closing"] : k \in closed}, v, ps, "offered")
RoomScreenPeers(v) ==
  /\ Up(v) /\ inbox[v] # <<>> /\ Head(inbox[v]).kind \in {"peers", "new"}
  /\ calls' = CallsFrontends(v, Head(inbox[v]).who) /\ inbox' = Rest(v)
  /\ UNCHANGED <<relay, page, gone, counts, lost>>

\* peer-screenshare-stopped names the screen peer only when a sharer leaves the room.
PeerScreenshareStopped(v) ==
  /\ Up(v) /\ inbox[v] # <<>> /\ Head(inbox[v]).kind = "left"
  /\ CloseAVPeer(v, Named(v), Rest(v), calls)
NoConcern(v) ==
  /\ Up(v) /\ inbox[v] # <<>> /\ Head(inbox[v]).kind \in {"started", "stopped"}
  /\ inbox' = Rest(v)
  /\ UNCHANGED <<relay, page, calls, gone, counts, lost>>

\* An OFFER is nothing to the bot.
IgnoresOffer(k) ==
  /\ k.in = "ringing" /\ k.to \in Bots
  /\ calls' = calls \ {k}
  /\ UNCHANGED <<relay, inbox, page, gone, counts, lost>>

\* onAVAnswer takes an answer for the connection it has now with who sent it; a second
\* answer is refused, and nothing catches that.
OnAVAnswer(k) ==
  LET v == k.from
      rest == (calls \ {k}) \cup {[k EXCEPT !.reply = FALSE]}
      conn == {h \in rest : h.from = v /\ h.to = k.to /\ Keeps(h, v)}
  IN  /\ k.reply /\ \A h \in calls : h.reply => ~Older(h, k)
      /\ IF \E h \in conn : h.out = "held" THEN Crash(v)
         ELSE /\ calls' = Real((rest \ conn) \cup {[h EXCEPT !.out = "held"] : h \in conn})
              /\ lost' = IF k.out # "offered" /\ conn # {} THEN lost \cup {<<k.to, v>>} ELSE lost
              /\ UNCHANGED <<relay, inbox, page, gone, counts>>

\* The connection state becomes failed or closed: closeAVPeer, by the peer's id, whatever
\* connection that has by now.
PcClosed(k) ==
  /\ k.from \in Bots
  /\ \/ k.out = "closing"
     \/ k.out = "held" /\ k.in \notin {"held", "orphan"}
  /\ LET told == IF k.out = "closing" THEN (calls \ {k}) \cup {[k EXCEPT !.out = "closed"]}
                 ELSE calls
     IN  CloseAVPeer(k.from, k.to, inbox, told)

\* Or the library says nothing of a close that was asked for.
PcClosedSilently(k) ==
  /\ k.from \in Bots /\ k.out = "closing"
  /\ calls' = Real((calls \ {k}) \cup {[k EXCEPT !.out = "closed"]})
  /\ UNCHANGED <<relay, inbox, page, gone, counts, lost>>

-----------------------------------------------------------------------------
Next ==
  \/ \E c \in Client : JoinGranted(c)
  \/ \E c \in Browser :
       \/ Connect(c) \/ InitPeer(c) \/ PeerOpens(c)
       \/ JoinRoom(c) \/ Leave(c) \/ Switch(c) \/ Disconnect(c)
       \/ PickScreen(c) \/ StartScreenShare(c) \/ StopScreenShare(c)
       \/ HandleScreenPeerAssigned(c) \/ HandleRoomScreenPeers(c)
       \/ HandlePeerScreenshareStarted(c) \/ HandlePeerScreenshareStopped(c)
       \/ HandleNewScreenPeer(c)
  \/ \E v \in Bots :
       \/ BotJoins(v) \/ OnAllUsers(v) \/ ConnectScreenPeerWs(v) \/ StreamStarted(v)
       \/ Destroyed(v) \/ StartFails(v)
       \/ RoomScreenPeers(v) \/ PeerScreenshareStopped(v) \/ NoConcern(v)
  \/ \E k \in calls :
       \/ Rings(k) \/ Expires(k) \/ CloseEvent(k)
       \/ IgnoresOffer(k) \/ OnAVAnswer(k) \/ PcClosed(k) \/ PcClosedSilently(k)

Spec == Init /\ [][Next]_vars

-----------------------------------------------------------------------------
\* Everything sent has been heard, and every end of a call knows of the other's.
Settled(k) ==
  /\ k.in # "ringing" /\ ~k.reply
  /\ k.in \in {"held", "orphan"} => k.out \notin {"closing", "closed"}
  /\ k.from \in Bots => k.out # "closing" /\ (k.out = "held" => k.in \in {"held", "orphan"})
Quiet ==
  /\ checking = {} /\ \A c \in Client \ gone : inbox[c] = <<>>
  /\ \A k \in calls : Settled(k)

\* When all is quiet, every member sees every share of the room, unless its call was taken by
\* an event of another: its own share's end, an older call's close, a page not ready in time.
ViewersSee ==
  Quiet => \A p \in shares \cap members : \A c \in (members \cap Browser) \ {p} :
    peer[c] = "open" /\ <<c, p>> \notin lost =>
      \E k \in calls : k.from = p /\ k.to = c /\ k.shown /\ k.share = stream[p]

\* When all is quiet, what a page shows of a peer is the share that peer now makes, not the
\* frozen end of one; unless both shared at once, so that the peer's own call to the page was
\* replaced in screenCallsRef by the page's, and the peer changed rooms.
NoFrozenShares ==
  Quiet => \A k \in calls :
    k.shown => k.out = "orphan" \/ (k.share = stream[k.from] /\ k.from \notin gone)
=============================================================================
