----------------------------- MODULE VoiceCalls -----------------------------
(***************************************************************************)
(* Voice in one room: the browsers' usePeerConnection, useMicrophone and    *)
(* useRoomSession with the parts of useVoIP that join and leave, and what   *)
(* the relay tells of the room.  Two members who meet call each other, so   *)
(* that there are two calls, and a page keeps one call and one stream of a  *)
(* peer.  The relay's events, the offers and answers (which go through the  *)
(* PeerJS server) and the closes (which go from peer to peer) overtake each *)
(* other.  PeerJS is external; a page that dies is one that leaves.         *)
(***************************************************************************)
EXTENDS Naturals, FiniteSets, Sequences

CONSTANTS
    Browser,
    Call,     \* bound: calls at a time, by number
    NoCall,   \* none
    MaxTurns  \* bound: joins, and losses of the PeerJS server

ASSUME CallAssumption == Call \subseteq Nat /\ NoCall \notin Call /\ MaxTurns \in Nat

VARIABLES
    \* the relay
    members,  \* room.users
    checking, \* those whose join-room is being checked
    inbox,    \* the events on their way to each page
    \* the pages
    place,    \* currentRoomId: this room, another one ("away") or none ("out")
    waiting,  \* joinRoom waits for the microphone and the PeerJS server
    peer,     \* peerRef
    retry,    \* callPeer's attempts that try again
    ref,      \* connectionsRef
    shown,    \* remoteStreams, by the call that brought the stream
    \* both ends of each call
    calls,
    turns,
    \* history: pairs who lost a call of their present stay to an event of another
    spoiled

relay == <<members, checking>>
maps  == <<ref, shown>>
vars  == <<relay, inbox, place, waiting, peer, retry, maps, calls, turns, spoiled>>

\* An end is "made" or "answered" until its stream has come, then "live".  An
\* offer that nobody takes is "expired".  History: the call was made before one
\* of the two came or went; it was made or answered while the two were not both
\* in the room.
Record == [
    from: Browser, to: Browser,
    out: {"made", "live", "closed"},
    in:  {"ringing", "answered", "live", "closed", "expired"},
    answer: BOOLEAN,
    old: BOOLEAN, stray: BOOLEAN]

Events == [kind: {"all-users", "user-connected", "user-disconnected"}, who: SUBSET Browser]

TypeOK ==
    /\ members \subseteq Browser /\ checking \subseteq Browser /\ waiting \subseteq Browser
    /\ inbox \in [Browser -> Seq(Events)]
    /\ place \in [Browser -> {"out", "here", "away"}]
    /\ peer \in [Browser -> {"none", "made", "open", "lost"}]
    /\ retry \in [Browser -> SUBSET Browser]
    /\ ref \in [Browser -> [Browser -> Call \cup {NoCall}]]
    /\ shown \in [Browser -> [Browser -> Call \cup {NoCall}]]
    /\ DOMAIN calls \subseteq Call /\ \A k \in DOMAIN calls : calls[k] \in Record
    /\ turns \in 0..MaxTurns
    /\ spoiled \subseteq SUBSET Browser

Nothing == [c \in Browser |-> [p \in Browser |-> NoCall]]

Init ==
    /\ members = {} /\ checking = {} /\ waiting = {} /\ spoiled = {}
    /\ inbox = [c \in Browser |-> <<>>]
    /\ place = [c \in Browser |-> "out"]
    /\ peer = [c \in Browser |-> "none"]
    /\ retry = [c \in Browser |-> {}]
    /\ ref = Nothing /\ shown = Nothing
    /\ calls = <<>> /\ turns = 0

-----------------------------------------------------------------------------
(* Calls                                                                    *)

Between(k, c, p) == {calls[k].from, calls[k].to} = {c, p}
Other(k, c) == IF calls[k].from = c THEN calls[k].to ELSE calls[k].from
EndOf(r, c) == IF r.from = c THEN r.out ELSE r.in
Up(r, c)    == EndOf(r, c) \notin {"closed", "ringing", "expired"}
Shut(r, c)  == IF r.from = c THEN [r EXCEPT !.out = "closed"] ELSE [r EXCEPT !.in = "closed"]

\* A call that is over at both ends is nobody's any more.
Over(r) == r.out = "closed" /\ r.in \in {"closed", "expired"}
Kept(cs) == [k \in {j \in DOMAIN cs : ~Over(cs[j])} |-> cs[k]]

\* The ends at c of the calls in ks are closed.
ShutAt(cs, c, ks) ==
    Kept([k \in DOMAIN cs |-> IF k \in ks /\ Up(cs[k], c) THEN Shut(cs[k], c) ELSE cs[k]])

Names(c, m) == {m[c][p] : p \in Browser} \ {NoCall}

\* Who comes or goes makes what was before it old.
Aged(cs, c) == [k \in DOMAIN cs |-> [cs[k] EXCEPT !.old = @ \/ c \in {cs[k].from, cs[k].to}]]
Fresh(c)    == {w \in spoiled : c \notin w}

\* closeAll: a call that another has replaced in the map stays open.
CloseAll(c, cs) ==
    /\ ref' = [ref EXCEPT ![c] = Nothing[c]]
    /\ shown' = [shown EXCEPT ![c] = Nothing[c]]
    /\ calls' = ShutAt(cs, c, Names(c, ref))

\* Mutant: the stream goes and the call stays.
HideStream(c, p, cs) ==
    /\ shown' = [shown EXCEPT ![c][p] = NoCall]
    /\ UNCHANGED ref
    /\ calls' = cs

\* removeRemoteStream: whichever call the map holds is closed, and whichever
\* stream is shown goes.
RemoveRemoteStream(c, p, cs) ==
    /\ ref' = [ref EXCEPT ![c][p] = NoCall]
    /\ shown' = [shown EXCEPT ![c][p] = NoCall]
    /\ calls' = ShutAt(cs, c, {ref[c][p]})

\* Whether c has by then a call with p of their present stay, which loses its place
\* or, as its stream came second, has no stream shown.
Meets(c, p) == \E k \in DOMAIN calls : Between(k, c, p) /\ Up(calls[k], c) /\ ~calls[k].old

\* The first n numbers that are free.
FirstFree(n) ==
    LET free == Call \ DOMAIN calls
    IN  {k \in free : Cardinality({j \in free : j < k}) < n}

\* callPeer, for each of ps: now, if the page is with the PeerJS server.
CallPeers(c, ps) ==
    IF peer[c] = "open"
    THEN \E new \in [ps -> FirstFree(Cardinality(ps))] :
           /\ \A p, q \in ps : new[p] = new[q] => p = q
           /\ calls' = [k \in DOMAIN calls \cup {new[p] : p \in ps} |->
                          IF k \in DOMAIN calls THEN calls[k]
                          ELSE [from |-> c, to |-> CHOOSE p \in ps : new[p] = k,
                                out |-> "made", in |-> "ringing", answer |-> FALSE, old |-> FALSE,
                                stray |-> ~({c, CHOOSE p \in ps : new[p] = k} \subseteq members)]]
           /\ ref' = [ref EXCEPT ![c] = [p \in Browser |-> IF p \in ps THEN new[p] ELSE @[p]]]
           /\ UNCHANGED retry
    ELSE retry' = [retry EXCEPT ![c] = @ \cup ps] /\ UNCHANGED <<calls, ref>>

-----------------------------------------------------------------------------
(* Joining and leaving (useVoIP)                                            *)

Event(kind, who) == [kind |-> kind, who |-> who]
Told(whom, e) == [c \in Browser |-> IF c \in whom THEN Append(inbox[c], e) ELSE inbox[c]]

Turn == turns < MaxTurns /\ turns' = turns + 1

\* joinRoom acquires the microphone, and the stream makes the Peer.
AcquireMic(c) ==
    /\ place[c] = "out" /\ c \notin waiting
    /\ Turn
    /\ waiting' = waiting \cup {c}
    /\ peer' = [peer EXCEPT ![c] = IF @ = "none" THEN "made" ELSE @]
    /\ UNCHANGED <<relay, inbox, place, retry, maps, calls, spoiled>>

PeerOpens(c) ==
    /\ peer[c] = "made"
    /\ peer' = [peer EXCEPT ![c] = "open"]
    /\ UNCHANGED <<relay, inbox, place, waiting, retry, maps, calls, turns, spoiled>>

\* waitForOpen gives up after ten seconds.
GiveUp(c) ==
    /\ c \in waiting /\ peer[c] = "made"
    /\ waiting' = waiting \ {c}
    /\ UNCHANGED <<relay, inbox, place, peer, retry, maps, calls, turns, spoiled>>

\* The rest of joinRoom.  isOpenRef stays true when the PeerJS server is lost.
EnterRoom(c) ==
    /\ peer[c] \in {"open", "lost"}
    /\ \/ c \in waiting /\ UNCHANGED turns
       \/ place[c] = "away" /\ Turn
    /\ waiting' = waiting \ {c}
    /\ CloseAll(c, Aged(calls, c))
    /\ place' = [place EXCEPT ![c] = "here"]
    /\ checking' = checking \cup {c}
    /\ spoiled' = Fresh(c)
    /\ UNCHANGED <<members, inbox, peer, retry>>

\* handleJoinRoom for another room leaves this one.  A join in flight is not left
\* (see RealtimeRooms).
SwitchRoom(c) ==
    /\ place[c] = "here" /\ c \notin checking
    /\ CloseAll(c, Aged(calls, c))
    /\ place' = [place EXCEPT ![c] = "away"]
    /\ members' = members \ {c}
    /\ inbox' = Told(members \ {c}, Event("user-disconnected", {c}))
    /\ spoiled' = Fresh(c)
    /\ UNCHANGED <<checking, waiting, peer, retry, turns>>

\* leaveRoom releases the microphone, and without a stream the Peer is destroyed
\* with every call it has.
LeaveRoom(c) ==
    /\ place[c] # "out" /\ c \notin checking
    /\ place' = [place EXCEPT ![c] = "out"]
    /\ peer' = [peer EXCEPT ![c] = "none"]
    /\ ref' = [ref EXCEPT ![c] = Nothing[c]]
    /\ shown' = [shown EXCEPT ![c] = Nothing[c]]
    /\ calls' = ShutAt(Aged(calls, c), c, DOMAIN calls)
    /\ members' = members \ {c}
    /\ inbox' = IF c \in members THEN Told(members \ {c}, Event("user-disconnected", {c})) ELSE inbox
    /\ spoiled' = Fresh(c)
    /\ UNCHANGED <<checking, waiting, retry, turns>>

\* handleJoinRoom, once the check is passed.
JoinGranted(c) ==
    /\ c \in checking
    /\ checking' = checking \ {c}
    /\ members' = members \cup {c}
    /\ inbox' = [Told(members, Event("user-connected", {c}))
                   EXCEPT ![c] = Append(@, Event("all-users", members))]
    /\ UNCHANGED <<place, waiting, peer, retry, maps, calls, turns, spoiled>>

\* The connection to the PeerJS server breaks: nobody makes it anew.
PeerLost(c) ==
    /\ peer[c] = "open"
    /\ peer' = [peer EXCEPT ![c] = "lost"]
    /\ UNCHANGED <<relay, inbox, place, waiting, retry, maps, calls, turns, spoiled>>

-----------------------------------------------------------------------------
(* What a page hears of the room (useRoomSession)                           *)

\* Nobody listens without a room; in another room, the next room's handlers do.
Hears(c, kind) == inbox[c] # <<>> /\ Head(inbox[c]).kind = kind /\ place[c] # "out"
Who(c) == Head(inbox[c]).who
Next1(c) == inbox' = [inbox EXCEPT ![c] = Tail(@)]

Unheard(c) ==
    /\ inbox[c] # <<>> /\ place[c] = "out"
    /\ Next1(c)
    /\ UNCHANGED <<relay, place, waiting, peer, retry, maps, calls, turns, spoiled>>

HandleAllUsers(c) ==
    /\ Hears(c, "all-users")
    /\ Next1(c)
    /\ CallPeers(c, Who(c))
    /\ UNCHANGED <<relay, place, waiting, peer, shown, turns, spoiled>>

HandleUserConnected(c) ==
    /\ Hears(c, "user-connected")
    /\ Next1(c)
    /\ CallPeers(c, Who(c))
    /\ UNCHANGED <<relay, place, waiting, peer, shown, turns, spoiled>>

HandleUserDisconnected(c) ==
    /\ Hears(c, "user-disconnected")
    /\ Next1(c)
    /\ \E p \in Who(c) :
           /\ RemoveRemoteStream(c, p, calls)
           /\ spoiled' = IF Meets(c, p) THEN spoiled \cup {{c, p}} ELSE spoiled
    /\ UNCHANGED <<relay, place, waiting, peer, retry, turns>>

-----------------------------------------------------------------------------
(* What a page hears of its calls (usePeerConnection)                       *)

\* An attempt of callPeer, a tenth of a second later: in whatever room the page
\* is by then.
Attempt(c, p) ==
    /\ p \in retry[c] /\ peer[c] = "open"
    /\ \E k \in FirstFree(1) :
           /\ calls' = [j \in DOMAIN calls \cup {k} |->
                          IF j # k THEN calls[j]
                          ELSE [from |-> c, to |-> p, out |-> "made", in |-> "ringing",
                                answer |-> FALSE, old |-> FALSE, stray |-> ~({c, p} \subseteq members)]]
           /\ ref' = [ref EXCEPT ![c][p] = k]
    /\ retry' = [retry EXCEPT ![c] = @ \ {p}]
    /\ UNCHANGED <<relay, inbox, place, waiting, peer, shown, turns, spoiled>>

\* The PeerJS server keeps the order of what one page offers another.
Behind(k) ==
    \E j \in DOMAIN calls :
        /\ calls[j].from = calls[k].from /\ calls[j].to = calls[k].to
        /\ calls[j].in = "ringing" /\ calls[j].old /\ ~calls[k].old

\* Mutant: an offer of somebody whom the page calls itself is refused.
AnswerOnce(k) ==
    LET r == calls[k]
    IN  /\ r.in = "ringing" /\ peer[r.to] = "open" /\ ~Behind(k)
        /\ IF ref[r.to][r.from] # NoCall
           THEN calls' = Kept([calls EXCEPT ![k].in = "closed"]) /\ UNCHANGED ref
           ELSE /\ calls' = [calls EXCEPT ![k].in = "answered", ![k].answer = TRUE]
                /\ ref' = [ref EXCEPT ![r.to][r.from] = k]
        /\ UNCHANGED <<relay, inbox, place, waiting, peer, retry, shown, turns, spoiled>>

\* An offer comes and is answered, whoever made it.
Incoming(k) ==
    LET r == calls[k]
    IN  /\ r.in = "ringing" /\ peer[r.to] = "open" /\ ~Behind(k)
        /\ calls' = [calls EXCEPT ![k].in = "answered", ![k].answer = TRUE,
                                  ![k].stray = @ \/ ~({r.from, r.to} \subseteq members)]
        /\ ref' = [ref EXCEPT ![r.to][r.from] = k]
        /\ UNCHANGED <<relay, inbox, place, waiting, peer, retry, shown, turns, spoiled>>

\* The PeerJS server keeps an offer to somebody it does not know for a while only.
Expire(k) ==
    /\ calls[k].in = "ringing" /\ peer[calls[k].to] # "open"
    /\ calls' = Kept([calls EXCEPT ![k].in = "expired"])
    /\ UNCHANGED <<relay, inbox, place, waiting, peer, retry, maps, turns, spoiled>>

\* addRemoteStream keeps the stream that came first.
Streamed(c, p, k) == shown' = [shown EXCEPT ![c][p] = IF @ = NoCall THEN k ELSE @]

\* The stream event, once the offer or the answer is in.
StreamIn(k) ==
    /\ calls[k].in = "answered"
    /\ calls' = [calls EXCEPT ![k].in = "live"]
    /\ Streamed(calls[k].to, calls[k].from, k)
    /\ UNCHANGED <<relay, inbox, place, waiting, peer, retry, ref, turns, spoiled>>
StreamOut(k) ==
    /\ calls[k].out = "made" /\ calls[k].answer /\ peer[calls[k].from] = "open"
    /\ calls' = [calls EXCEPT ![k].out = "live"]
    /\ Streamed(calls[k].from, calls[k].to, k)
    /\ UNCHANGED <<relay, inbox, place, waiting, peer, retry, ref, turns, spoiled>>

\* The other end's close: of this call, but what the map holds of the peer goes.
CloseHeard(k, c) ==
    LET p == Other(k, c)
    IN  /\ c \in {calls[k].from, calls[k].to}
        /\ calls[k].answer /\ Up(calls[k], c) /\ EndOf(calls[k], p) = "closed"
        /\ RemoveRemoteStream(c, p, [calls EXCEPT ![k] = Shut(@, c)])
        /\ spoiled' = IF calls[k].old /\ Meets(c, p) THEN spoiled \cup {{c, p}} ELSE spoiled
        /\ UNCHANGED <<relay, inbox, place, waiting, peer, retry, turns>>

Next ==
    \/ \E c \in Browser :
           \/ AcquireMic(c) \/ PeerOpens(c) \/ GiveUp(c)
           \/ EnterRoom(c) \/ SwitchRoom(c) \/ LeaveRoom(c)
           \/ JoinGranted(c) \/ PeerLost(c)
           \/ Unheard(c)
           \/ HandleAllUsers(c) \/ HandleUserConnected(c) \/ HandleUserDisconnected(c)
           \/ \E p \in Browser : Attempt(c, p)
           \/ \E k \in DOMAIN calls : CloseHeard(k, c)
    \/ \E k \in DOMAIN calls : Incoming(k) \/ Expire(k) \/ StreamIn(k) \/ StreamOut(k)

Spec == Init /\ [][Next]_vars

-----------------------------------------------------------------------------
\* Nothing is on its way between c and p.
Settled(c, p) ==
    /\ \A b \in {c, p} : inbox[b] = <<>> /\ b \notin checking
    /\ p \notin retry[c] /\ c \notin retry[p]
    /\ \A k \in DOMAIN calls :
           Between(k, c, p) =>
               ~ENABLED (Incoming(k) \/ Expire(k) \/ StreamIn(k) \/ StreamOut(k)
                           \/ CloseHeard(k, c) \/ CloseHeard(k, p))

\* Two members of the room hear each other, over a call that is up at both ends,
\* unless one has lost the PeerJS server, or an event of an earlier stay (a late
\* close, or the notice that the other had gone) has taken a call of this one.
MembersHearEachOther ==
    \A c, p \in members :
        c # p /\ Settled(c, p) /\ peer[c] = "open" /\ peer[p] = "open" /\ {c, p} \notin spoiled
        => /\ shown[c][p] # NoCall
           /\ shown[c][p] \in DOMAIN calls
           /\ Up(calls[shown[c][p]], c) /\ Up(calls[shown[c][p]], p)

\* A call that one of its ends still holds joins two members of the room, unless it
\* was made or answered while they were not both there.
HeldCallsStayInTheRoom ==
    \A k \in DOMAIN calls :
        LET c == calls[k].from
            p == calls[k].to
        IN  /\ Settled(c, p)
            /\ Up(calls[k], c) /\ Up(calls[k], p)
            /\ ref[c][p] = k \/ ref[p][c] = k
            => {c, p} \subseteq members \/ calls[k].stray

=============================================================================
