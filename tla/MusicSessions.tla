---------------------------- MODULE MusicSessions ----------------------------
(***************************************************************************)
(* The music bot of one room: the HTTP routes and their map of sessions,   *)
(* MusicSession (the queue), BotInstance (the connection to the room) and  *)
(* its AudioPipeline (yt-dlp and ffmpeg).                                  *)
(*                                                                         *)
(* A route looks the session up after its last await but one, so that a    *)
(* request is one step.  The exception is the start of a bot, which takes  *)
(* a step per event it waits for; every request may come in between.       *)
(* Left out: pause and resume, the peer connections, the video bot, and    *)
(* the flag `advancing`, which is down between any two steps.  Several     *)
(* items added by one request are added by several.                        *)
(***************************************************************************)
EXTENDS Naturals, Sequences, FiniteSets

CONSTANTS
    Session,   \* bound: sessions made for the room
    NoSession, \* undefined
    Item,      \* queue items, by their id; the item stands for its url
    Repeated,  \* bound: items that are added while they are in the queue
    MaxQueue   \* bound: length of the queue

ASSUME SessionAssumption == NoSession \notin Session
ASSUME ItemAssumption    == Item # {} /\ Repeated \subseteq Item
ASSUME QueueAssumption   == MaxQueue \in Nat \ {0}

VARIABLES
    current, \* routes: the session in the map
    ses      \* the sessions, see Record
vars == <<current, ses>>

\* How far the bot is on its way into the room: the socket connects (or comes
\* back); the connection to the PeerJS server opens; join-room is sent;
\* all-users came and the peers are called; the bot is in.  "orphaned": destroyed
\* while it called its peers.  "out": not in the room, and not on its way.
Stage == {"connecting", "peering", "joining", "calling", "in", "orphaned", "out"}

Record == [
    life:    {"unused", "live", "disposed"},
    queue:   UNION {[1..n -> Item] : n \in 0..MaxQueue},
    index:   0..MaxQueue,      \* currentIndex, from 0
    url:     Item,             \* BotInstance.url, and the pipeline's
    running: BOOLEAN,          \* the pipeline is
    recent:  BOOLEAN,          \* less than TRACK_END_SUPPRESSION_MS ago: a transition
    at:      Stage,
    promise: {"pending", "done", "failed"}, \* of MusicSession.start
    \* history: the pipeline's last end was ignored; the session was destroyed
    \* without a connected socket, or as it called its peers
    ignored: BOOLEAN,
    cut:     BOOLEAN]

TypeOK ==
    /\ current \in Session \cup {NoSession}
    /\ ses \in [Session -> Record]

\* Stands for any.
SomeItem == CHOOSE i \in Item : TRUE

Init ==
    /\ current = NoSession
    /\ ses = [s \in Session |->
                [life |-> "unused", queue |-> <<>>, index |-> 0, url |-> SomeItem,
                 running |-> FALSE, recent |-> FALSE, at |-> "out",
                 promise |-> "pending", ignored |-> FALSE, cut |-> FALSE]]

Live(s) == ses[s].life = "live"

\* MusicSession.currentItem, when the index is in the queue.
HasCurrent(r)  == r.index < Len(r.queue)
CurrentItem(r) == r.queue[r.index + 1]

Holds(q, i)     == \E n \in DOMAIN q : q[n] = i
IndexOf(q, i)   == (CHOOSE n \in DOMAIN q : q[n] = i /\ \A m \in 1..(n - 1) : q[m] # i) - 1
\* filter: the m-th item that is kept is the one with m kept up to it.
Without(q, i) ==
    LET kept     == {n \in DOMAIN q : q[n] # i}
        Place(m) == CHOOSE n \in kept : Cardinality({k \in kept : k <= n}) = m
    IN  [m \in 1..Cardinality(kept) |-> q[Place(m)]]
WithoutAt(q, n) == SubSeq(q, 1, n) \o SubSeq(q, n + 2, Len(q))
Unique(q)       == \A m, n \in DOMAIN q : q[m] = q[n] => m = n
Orders(q) ==
    {[n \in DOMAIN q |-> q[p[n]]] :
        p \in {f \in [DOMAIN q -> DOMAIN q] : \A m, n \in DOMAIN q : f[m] = f[n] => m = n}}

-----------------------------------------------------------------------------
(* What the calls do to a session                                          *)

\* Mutant: the track is announced and not started.
NotStarted(r, i) == [r EXCEPT !.url = i, !.recent = TRUE, !.running = FALSE]

\* changeTrack and markPlaybackTransition: the old pipeline is stopped, with no
\* one listening to it any more, and a new one started.
TrackChanged(r, i) ==
    [r EXCEPT !.url = i, !.running = TRUE, !.recent = TRUE, !.ignored = FALSE]

\* destroy of the session and of the bot, which disconnects a connected socket
\* only, and leaves the calls to peers to finish.  The queue, the url and the
\* time of the last transition, which decide nothing any more, are dropped.
Disposed(r) ==
    [r EXCEPT !.life = "disposed", !.running = FALSE, !.queue = <<>>, !.index = 0,
              !.url = SomeItem, !.recent = FALSE, !.ignored = FALSE,
              !.at = CASE r.at = "connecting" -> "connecting"
                       [] r.at = "calling"    -> "orphaned"
                       [] OTHER               -> "out",
              !.cut = (r.at \in {"connecting", "calling"})]

Update(s, r) == ses' = [ses EXCEPT ![s] = r] /\ UNCHANGED current

\* The bot's destroy callback takes the room out of the map.
Dispose(s, r) == ses' = [ses EXCEPT ![s] = Disposed(r)] /\ current' = NoSession

\* start fails: the route destroys the session, unless it is destroyed already.
Reject(s, r) ==
    LET failed == [r EXCEPT !.promise = "failed"]
    IN  IF Live(s) THEN Dispose(s, failed) ELSE Update(s, failed)

-----------------------------------------------------------------------------
(* Requests                                                                *)

NewSession(r, i) ==
    [r EXCEPT !.life = "live", !.queue = <<i>>, !.url = i, !.at = "connecting"]

\* /play and /queue/add without a session, and /join.
Create(s, i) ==
    /\ ses[s].life = "unused"
    /\ current = NoSession
    /\ current' = s
    /\ ses' = [ses EXCEPT ![s] = NewSession(@, i)]

\* Mutant: the session of the other mode lives on.
SwitchOnly(s, i) ==
    /\ ses[s].life = "unused"
    /\ current # NoSession
    /\ current' = s
    /\ ses' = [ses EXCEPT ![s] = NewSession(@, i)]

\* /play in the other video mode: the old session is destroyed first.
SwitchMode(s, i) ==
    /\ ses[s].life = "unused"
    /\ current # NoSession
    /\ current' = s
    /\ ses' = [ses EXCEPT ![current] = Disposed(@), ![s] = NewSession(@, i)]

PlayNow(s, i) ==
    Update(s, TrackChanged([ses[s] EXCEPT !.queue = <<i>>, !.index = 0], i))

AddItem(s, i) ==
    /\ Len(ses[s].queue) < MaxQueue
    /\ Holds(ses[s].queue, i) => i \in Repeated
    /\ Update(s, [ses[s] EXCEPT !.queue = Append(@, i)])

PlayItem(s, i) ==
    /\ Holds(ses[s].queue, i)
    /\ Update(s, TrackChanged([ses[s] EXCEPT !.index = IndexOf(ses[s].queue, i)], i))

\* Mutant: the index stays when an item before it is removed.
RemoveAndStay(s, i) ==
    /\ Holds(ses[s].queue, i)
    /\ Len(ses[s].queue) > 1
    /\ Update(s, [ses[s] EXCEPT !.queue = Without(@, i)])

\* removeItem finds the first item of the id and removes every one.
RemoveItem(s, i) ==
    LET r == ses[s]
        n == IndexOf(r.queue, i)
        q == Without(r.queue, i)
    IN  /\ Holds(r.queue, i)
        /\ IF n # r.index
           THEN Update(s, [r EXCEPT !.queue = q, !.index = IF n < @ THEN @ - 1 ELSE @])
           ELSE IF q = <<>>
           THEN Dispose(s, r)
           ELSE Update(s, TrackChanged([r EXCEPT !.queue = q, !.index = 0], q[1]))

\* advance: the current item goes, the first one of the rest plays.
Advance(s) ==
    LET r == ses[s]
        q == IF HasCurrent(r) THEN WithoutAt(r.queue, r.index) ELSE r.queue
    IN  IF q = <<>>
        THEN Dispose(s, r)
        ELSE Update(s, TrackChanged([r EXCEPT !.queue = q, !.index = 0], q[1]))

\* Refuses a queue with an id twice.
Reorder(s, q) ==
    LET r == ses[s]
    IN  /\ q \in Orders(r.queue)
        /\ Unique(q)
        /\ Update(s, [r EXCEPT !.queue = q,
                               !.index = IF HasCurrent(r) THEN IndexOf(q, CurrentItem(r)) ELSE 0])

Shuffle(s) ==
    LET r == ses[s]
    IN  /\ Len(r.queue) > 1
        /\ IF HasCurrent(r)
           THEN \E q \in Orders(Without(r.queue, CurrentItem(r))) :
                    Update(s, [r EXCEPT !.queue = <<CurrentItem(r)>> \o q, !.index = 0])
           ELSE \E q \in Orders(r.queue) : Update(s, [r EXCEPT !.queue = q])

\* The pipeline is stopped and started, whether it ran or not.
Seek(s) == Update(s, [ses[s] EXCEPT !.running = TRUE, !.recent = TRUE, !.ignored = FALSE])

\* /queue/clear and /leave.
Leave(s) == Dispose(s, ses[s])

Request(s) ==
    /\ current = s
    /\ \/ \E i \in Item : PlayNow(s, i) \/ AddItem(s, i) \/ PlayItem(s, i) \/ RemoveItem(s, i)
       \/ Advance(s)
       \/ \E q \in Orders(ses[s].queue) : Reorder(s, q)
       \/ Shuffle(s)
       \/ Seek(s)
       \/ Leave(s)

-----------------------------------------------------------------------------
(* The bot                                                                 *)

\* The socket's connection, and the peer id that the server sends on it.  No
\* handler asks whether the bot has been destroyed.
Connect(s) ==
    /\ ses[s].at = "connecting"
    /\ Update(s, [ses[s] EXCEPT !.at = "peering"])

\* connect_error; the client tries again unless the server refused it.
ConnectError(s) ==
    /\ ses[s].at = "connecting"
    /\ \E next \in {"connecting", "out"} :
           LET r == [ses[s] EXCEPT !.at = next]
           IN  IF r.promise = "pending" THEN Reject(s, r) ELSE Update(s, r)

\* The PeerJS server answers, and join-room is sent.
PeerReady(s) ==
    /\ ses[s].at = "peering"
    /\ Update(s, [ses[s] EXCEPT !.at = "joining"])

PeerFailed(s) ==
    /\ ses[s].at = "peering"
    /\ IF ses[s].promise = "pending"
       THEN Reject(s, [ses[s] EXCEPT !.at = IF Live(s) THEN @ ELSE "out"])
       ELSE Update(s, [ses[s] EXCEPT !.at = "out"])

\* all-users.
Joined(s) ==
    /\ ses[s].at = "joining"
    /\ Update(s, [ses[s] EXCEPT !.at = "calling"])

\* onAllUsers has called the peers: the pipeline starts, unless it runs, and the
\* request that started the bot goes on.
CallsDone(s) ==
    /\ ses[s].at \in {"calling", "orphaned"}
    /\ Update(s, [ses[s] EXCEPT !.at = IF @ = "calling" THEN "in" ELSE "out",
                                !.running = TRUE,
                                !.ignored = @ /\ ses[s].running,
                                !.recent  = @ \/ (Live(s) /\ ses[s].promise = "pending"),
                                !.promise = IF @ = "pending" THEN "done" ELSE @])

\* Mutant: destroy clears the timer.
TimeoutOfLive(s) ==
    /\ Live(s)
    /\ ses[s].promise = "pending"
    /\ ses[s].at \notin {"calling", "orphaned"}
    /\ Reject(s, ses[s])

\* The 15 seconds of connectSignaling, which a join-error runs into as well.
StartTimeout(s) ==
    /\ ses[s].life # "unused"
    /\ ses[s].promise = "pending"
    /\ ses[s].at \notin {"calling", "orphaned"}
    /\ Reject(s, ses[s])

\* The connection breaks; the client connects anew unless the server closed it.
SocketDrops(s) ==
    /\ ses[s].at \in {"joining", "in"}
    /\ \E next \in {"connecting", "out"} : Update(s, [ses[s] EXCEPT !.at = next])

\* room-closed, or checkAutoLeave when the last peer has gone.
BotLeaves(s) ==
    /\ Live(s)
    /\ ses[s].promise = "done"
    /\ Dispose(s, ses[s])

\* The pipeline's last frame is out, or it failed; handleTrackEnded ignores the
\* event for a while after a transition.
TrackEnds(s) ==
    /\ ses[s].running
    /\ IF Live(s) /\ ~ses[s].recent
       THEN Advance(s)
       ELSE Update(s, [ses[s] EXCEPT !.running = FALSE, !.ignored = Live(s)])

\* TRACK_END_SUPPRESSION_MS pass.
Settle(s) ==
    /\ ses[s].recent
    /\ Update(s, [ses[s] EXCEPT !.recent = FALSE])

Bot(s) ==
    \/ Connect(s)   \/ ConnectError(s)
    \/ PeerReady(s) \/ PeerFailed(s)
    \/ Joined(s)    \/ CallsDone(s)
    \/ StartTimeout(s)
    \/ SocketDrops(s)
    \/ BotLeaves(s)
    \/ TrackEnds(s) \/ Settle(s)

Next ==
    \E s \in Session :
        \/ \E i \in Item : Create(s, i) \/ SwitchMode(s, i)
        \/ Request(s)
        \/ Bot(s)

Spec == Init /\ [][Next]_vars

\* The timer fires, and the promises of the WebRTC library settle.
Fairness == \A s \in Session : WF_vars(StartTimeout(s)) /\ WF_vars(CallsDone(s))
FairSpec == Spec /\ Fairness

-----------------------------------------------------------------------------
\* The map of the routes holds the one session that is not disposed, however the
\* sessions of the room start, fail and replace each other.
MapHoldsTheLiveOne == \A s \in Session : Live(s) <=> current = s

\* The state a session shows names the track its bot plays; a session without a
\* track is gone.
ShowsWhatPlays ==
    \A s \in Session : Live(s) => HasCurrent(ses[s]) /\ CurrentItem(ses[s]) = ses[s].url

\* A session whose start has succeeded is silent only when the end of its track
\* came right after a transition.
SilentAfterIgnoredEnd ==
    \A s \in Session :
        Live(s) /\ ses[s].promise = "done" /\ ~ses[s].running => ses[s].ignored

\* A disposed session neither plays nor is in the room (destroy() "stops the
\* pipeline" and sends leave-room), unless it was destroyed without a connected
\* socket, or as it called its peers.
GhostsWereCutShort ==
    \A s \in Session :
        /\ ses[s].life = "disposed"
        /\ ses[s].running \/ ses[s].at \in {"calling", "in"}
        => ses[s].cut

\* The request that starts a bot is answered, whatever happens to the session.
StartsAreAnswered ==
    \A s \in Session :
        ses[s].life # "unused" ~> ses[s].promise # "pending"

=============================================================================
