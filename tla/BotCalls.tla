------------------------------ MODULE BotCalls ------------------------------
(***************************************************************************)
(* The peer connections of one MusicMan bot with the browsers of its room. *)
(* Both sides call: a browser calls the bot when it learns of it, and the  *)
(* bot calls the browser on the same occasions, tries again from a timer,  *)
(* and decides crossing calls by comparing peer ids.  Calls travel as      *)
(* OFFER and ANSWER messages through the PeerJS server; the handlers of the *)
(* bot await the WebRTC library, so that anything may happen between a     *)
(* handler's start and its continuation.  The library, the server and ICE  *)
(* are external, and candidates are left to ICE.                           *)
(***************************************************************************)
EXTENDS Naturals, FiniteSets, Sequences

CONSTANTS Clients,     \* the browsers, by peer id
          Larger,      \* those whose peer id is larger than the bot's
          MaxRetries,  \* MAX_PEER_CALL_RETRIES
          MaxJoins,    \* bound: joins of one browser
          Steady,      \* bound: browsers that stay in the room and are never late
          IdLimit      \* bound: calls of one side of a pair that leave traces

ASSUME ClientsAssumption ==
  /\ Larger \subseteq Clients /\ Steady \subseteq Clients /\ IsFiniteSet(Clients)
  /\ MaxRetries \in Nat /\ IdLimit \in Nat

VARIABLES
  conns,        \* BotInstance.conns: the bot's connection with each browser
  timers,       \* the browsers with a peerRetryTimers entry
  counts,       \* peerRetryCounts
  pending,      \* handlers of the bot that wait for the WebRTC library
  isConnected,  \* BotInstance.isConnected
  queued,       \* whether frameQueue holds frames
  destroyed,    \* BotInstance.destroyed
  late,         \* GRACE_MS have passed since the start
  events,       \* socket events on their way to the bot
  toBot,        \* PeerJS messages of each browser to the bot
  toClient,     \* PeerJS messages of the bot to each browser
  here,         \* the browsers in the room
  dialing,      \* those that learned of the bot and have not called it yet
  live,         \* the calls each browser made to the bot and keeps open
  spoken,       \* its connections with the bot that have both descriptions
  joins,        \* joins of each browser so far
  faulty        \* browsers with a message or a connection that was lost or slow

flags == <<isConnected, queued, destroyed, late>>
bot == <<conns, timers, counts, pending, flags>>
wire == <<events, toBot, toClient>>
browser == <<here, dialing, live, spoken, joins>>
vars == <<bot, wire, browser, faulty>>

NoId == <<"none", 0>>
NoConn == [id |-> NoId]
Ids == {"b", "c"} \X (1 .. IdLimit)
Has(p) == conns[p] # NoConn
Connected(p) == Has(p) /\ conns[p].ice = "connected"

\* A connectionId (a uuid): one of the side's that has left no trace.
Traces(p) ==
  {conns[p].id} \cup {w.id : w \in {v \in pending : v.peer = p}} \cup live[p] \cup spoken[p]
    \cup {toBot[p][i].id : i \in DOMAIN toBot[p]} \cup {toClient[p][i].id : i \in DOMAIN toClient[p]}
Fresh(p, side) ==
  CHOOSE id \in Ids \ Traces(p) : id[1] = side /\ \A n \in 1 .. id[2] - 1 : <<side, n>> \in Traces(p)

-----------------------------------------------------------------------------
(* The bot                                                                  *)

\* A new RTCPeerConnection: no remote description, not connected.
MakePc(id) == [id |-> id, remote |-> NoId, ice |-> "new"]

\* What destroy leaves of the bot, its connections apart.
Destroyed ==
  destroyed' = TRUE /\ timers' = {} /\ counts' = [p \in Clients |-> 0] /\ queued' = FALSE

\* checkAutoLeave at the end of a closePeer that closed the connection of p: in
\* the first minute nothing, then an empty map destroys the bot.
CheckAutoLeave(p) == Has(p) /\ late /\ ~destroyed /\ \A q \in Clients \ {p} : ~Has(q)

\* closePeer(p): its timer and its connection go, and the bot may leave.
ClosePeer(p) ==
  /\ conns' = [conns EXCEPT ![p] = NoConn]
  /\ IF CheckAutoLeave(p)
     THEN Destroyed
     ELSE timers' = timers \ {p} /\ UNCHANGED <<counts, queued, destroyed>>

\* callPeer(p) of a bot that has no connection with p; "kind" tells what comes
\* after the offer was made.
StartCall(p, kind) ==
  /\ conns' = [conns EXCEPT ![p] = MakePc(Fresh(p, "b"))]
  /\ pending' = pending \cup {[peer |-> p, id |-> Fresh(p, "b"), kind |-> kind]}

\* all-users: every browser of the room is called.
OnAllUsers ==
  /\ events # <<>> /\ Head(events).type = "all-users" /\ ~destroyed
  /\ LET users == Head(events).users
         fresh == {p \in users : ~Has(p)}
     IN /\ conns' = [p \in Clients |-> IF p \in fresh THEN MakePc(Fresh(p, "b")) ELSE conns[p]]
        /\ pending' = pending \cup {[peer |-> p, id |-> Fresh(p, "b"), kind |-> "first"] : p \in fresh}
        /\ timers' = timers \cup (users \ fresh)
  /\ events' = Tail(events)
  /\ UNCHANGED <<counts, flags, toBot, toClient, browser, faulty>>

\* user-connected: the browser is called, and a timer is set at once.
OnUserConnected(p) ==
  /\ events # <<>> /\ Head(events) = [type |-> "connected", peer |-> p] /\ ~destroyed
  /\ events' = Tail(events)
  /\ IF Has(p) THEN UNCHANGED <<conns, pending>> ELSE StartCall(p, "plain")
  /\ timers' = timers \cup {p}
  /\ UNCHANGED <<counts, flags, toBot, toClient, browser, faulty>>

\* user-disconnected.
OnUserDisconnected(p) ==
  /\ events # <<>> /\ Head(events) = [type |-> "disconnected", peer |-> p] /\ ~destroyed
  /\ events' = Tail(events)
  /\ ClosePeer(p)
  /\ UNCHANGED <<pending, isConnected, late, toBot, toClient, browser, faulty>>

\* createOffer has returned: the offer is sent, and after a first call or a
\* retry the timer is set.  A connection that was closed meanwhile makes none.
OfferReady(w) ==
  /\ w \in pending /\ w.kind # "answer"
  /\ pending' = pending \ {w}
  /\ toClient' = IF destroyed \/ conns[w.peer].id # w.id THEN toClient
                 ELSE [toClient EXCEPT ![w.peer] = Append(@, [type |-> "OFFER", id |-> w.id])]
  /\ timers' = IF w.kind = "plain" \/ destroyed THEN timers ELSE timers \cup {w.peer}
  /\ UNCHANGED <<conns, counts, flags, events, toBot, browser, faulty>>

\* The retry timer of p fires: a browser that is connected, or was called
\* often enough, is left alone.
RetryEnds(p) ==
  /\ p \in timers
  /\ Connected(p) \/ counts[p] = MaxRetries
  /\ timers' = timers \ {p}
  /\ counts' = [counts EXCEPT ![p] = 0]
  /\ faulty' = IF Connected(p) THEN faulty ELSE faulty \cup {p}
  /\ UNCHANGED <<conns, pending, flags, wire, browser>>

\* Otherwise a stale connection is closed, which may make the bot leave, and
\* the browser is called again.
RetryCalls(p) ==
  /\ p \in timers
  /\ ~Connected(p) /\ counts[p] < MaxRetries /\ p \notin Steady
  /\ IF CheckAutoLeave(p)
     THEN Destroyed /\ conns' = [conns EXCEPT ![p] = NoConn] /\ UNCHANGED pending
     ELSE /\ timers' = timers \ {p}
          /\ counts' = [counts EXCEPT ![p] = @ + 1]
          /\ StartCall(p, "again")
          /\ UNCHANGED <<queued, destroyed>>
  /\ faulty' = faulty \cup {p}
  /\ UNCHANGED <<isConnected, late, wire, browser>>

\* The message that p sent first is handled.
Received(p, type) ==
  /\ toBot[p] # <<>> /\ Head(toBot[p]).type = type
  /\ toBot' = [toBot EXCEPT ![p] = Tail(@)]

\* Of two calls that cross, the bot keeps its own when its peer id is smaller.
Keeps(p) == Has(p) /\ p \in Larger

\* Mutant: the bot gives up its own call and leaves the other unanswered.
OnOfferGivenUp(p) ==
  /\ Received(p, "OFFER")
  /\ IF destroyed \/ Keeps(p)
     THEN UNCHANGED bot
     ELSE ClosePeer(p) /\ UNCHANGED <<pending, isConnected, late>>
  /\ UNCHANGED <<events, toClient, browser, faulty>>

\* An offer that finds a connection of a bot with the larger id replaces it;
\* closing the old one may make the bot leave.
OnOffer(p) ==
  /\ Received(p, "OFFER")
  /\ IF destroyed \/ Keeps(p)
     THEN UNCHANGED bot
     ELSE LET id == Head(toBot[p]).id IN
          /\ conns' = [conns EXCEPT ![p] = MakePc(id)]
          /\ pending' = pending \cup {[peer |-> p, id |-> id, kind |-> "answer"]}
          /\ IF CheckAutoLeave(p)
             THEN Destroyed
             ELSE /\ timers' = IF Has(p) THEN timers \ {p} ELSE timers
                  /\ UNCHANGED <<counts, queued, destroyed>>
          /\ UNCHANGED <<isConnected, late>>
  /\ UNCHANGED <<events, toClient, browser, faulty>>

\* The rest of onOffer: the remote description is set and the answer is sent.
AnswerReady(w) ==
  /\ w \in pending /\ w.kind = "answer"
  /\ pending' = pending \ {w}
  /\ IF conns[w.peer].id = w.id
     THEN /\ conns' = [conns EXCEPT ![w.peer].remote = w.id]
          /\ toClient' = IF destroyed THEN toClient
                         ELSE [toClient EXCEPT ![w.peer] = Append(@, [type |-> "ANSWER", id |-> w.id])]
     ELSE UNCHANGED <<conns, toClient>>
  /\ UNCHANGED <<timers, counts, flags, events, toBot, browser, faulty>>

\* An answer is given to whatever connection the bot has with p: its
\* connectionId is not compared.  The library takes it when that connection
\* made an offer and has had no answer.
Takes(p) == Has(p) /\ conns[p].id[1] = "b" /\ conns[p].remote = NoId

OnAnswer(p) ==
  /\ Received(p, "ANSWER")
  /\ conns' = IF Takes(p) THEN [conns EXCEPT ![p].remote = Head(toBot[p]).id] ELSE conns
  /\ UNCHANGED <<timers, counts, pending, flags, events, toClient, browser, faulty>>

\* An answer that it refuses with an error: nobody catches it, and the process
\* destroys all its sessions and exits.
OnAnswerRefused(p) ==
  /\ Received(p, "ANSWER") /\ Has(p) /\ ~Takes(p)
  /\ Destroyed
  /\ conns' = [q \in Clients |-> NoConn]
  /\ UNCHANGED <<pending, isConnected, late, events, toClient, browser, faulty>>

\* EXPIRE: the server could not deliver a message to p.
OnExpire(p) ==
  /\ Received(p, "EXPIRE")
  /\ ClosePeer(p)
  /\ UNCHANGED <<pending, isConnected, late, events, toClient, browser, faulty>>

\* Both ends of the bot's connection have the other's description.
Matched(p) == Has(p) /\ conns[p].remote = conns[p].id /\ conns[p].id \in spoken[p]

\* connectionstatechange to connected: the retries of p end, and the frames
\* that were queued are sent to it.
ConnectionUp(p) ==
  /\ Matched(p) /\ conns[p].ice = "new" /\ ~destroyed
  /\ conns' = [conns EXCEPT ![p].ice = "connected"]
  /\ isConnected' = TRUE
  /\ counts' = [counts EXCEPT ![p] = 0]
  /\ timers' = timers \ {p}
  /\ queued' = FALSE
  /\ UNCHANGED <<pending, destroyed, late, wire, browser, faulty>>

\* Mutant: one failure clears the flag of all connections.
ConnectionFailsForAll(p) ==
  /\ Has(p) /\ conns[p].remote # NoId /\ ~destroyed
  /\ isConnected' = FALSE
  /\ ClosePeer(p)
  /\ faulty' = faulty \cup {p}
  /\ UNCHANGED <<pending, late, wire, browser>>

\* connectionstatechange to failed.
ConnectionFails(p) ==
  /\ Has(p) /\ conns[p].remote # NoId /\ ~destroyed
  /\ isConnected' = (Cardinality({q \in Clients : Has(q)}) > 1)
  /\ ClosePeer(p)
  /\ faulty' = faulty \cup {p}
  /\ UNCHANGED <<pending, late, wire, browser>>

\* The pipeline runs once the first calls have been tried.
Playing == /\ ~destroyed
           /\ \A i \in DOMAIN events : events[i].type # "all-users"
           /\ \A w \in pending : w.kind # "first"

\* A frame of the pipeline is sent to every connection, or queued.
OnAudioFrame ==
  /\ Playing
  /\ queued' = (queued \/ ~isConnected)
  /\ UNCHANGED <<conns, timers, counts, pending, isConnected, destroyed, late, wire, browser, faulty>>

\* The session is stopped, or the room is closed.
Destroy ==
  /\ ~destroyed /\ Destroyed
  /\ conns' = [p \in Clients |-> NoConn]
  /\ UNCHANGED <<pending, isConnected, late, wire, browser, faulty>>

\* The first minute is over.
GraceEnds ==
  /\ ~late /\ late' = TRUE
  /\ UNCHANGED <<conns, timers, counts, pending, isConnected, queued, destroyed, wire, browser, faulty>>

-----------------------------------------------------------------------------
(* The browsers (their own calls are in VoicePeers)                         *)

\* A socket event for the bot, while it has its socket.
Tell(event) == events' = IF destroyed THEN events ELSE Append(events, event)

\* The browser joins the room and learns of the bot.
Join(p) ==
  /\ p \notin here /\ joins[p] < MaxJoins
  /\ here' = here \cup {p}
  /\ joins' = [joins EXCEPT ![p] = @ + 1]
  /\ dialing' = IF destroyed THEN dialing ELSE dialing \cup {p}
  /\ Tell([type |-> "connected", peer |-> p])
  /\ UNCHANGED <<live, spoken, toBot, toClient, faulty, bot>>

\* It leaves: its peer is destroyed with its connections.
Leave(p) ==
  /\ p \in here \ Steady
  /\ here' = here \ {p} /\ dialing' = dialing \ {p}
  /\ live' = [live EXCEPT ![p] = {}] /\ spoken' = [spoken EXCEPT ![p] = {}]
  /\ Tell([type |-> "disconnected", peer |-> p])
  /\ UNCHANGED <<joins, toBot, toClient, faulty, bot>>

Send(p, type, id) == toBot' = [toBot EXCEPT ![p] = Append(@, [type |-> type, id |-> id])]
Arrives(p, type) == /\ p \in here /\ toClient[p] # <<>> /\ Head(toClient[p]).type = type
                    /\ toClient' = [toClient EXCEPT ![p] = Tail(@)]

\* The browser calls the bot.
ClientCalls(p) ==
  LET id == Fresh(p, "c") IN
  /\ p \in dialing /\ dialing' = dialing \ {p}
  /\ live' = [live EXCEPT ![p] = @ \cup {id}]
  /\ Send(p, "OFFER", id)
  /\ UNCHANGED <<here, spoken, joins, events, toClient, faulty, bot>>

\* It answers the bot's call.
ClientAnswers(p) ==
  LET id == Head(toClient[p]).id IN
  /\ Arrives(p, "OFFER")
  /\ spoken' = [spoken EXCEPT ![p] = @ \cup {id}]
  /\ Send(p, "ANSWER", id)
  /\ UNCHANGED <<here, dialing, live, joins, events, faulty, bot>>

\* The library ignores the bot's offer: it names no type of connection.
ClientRefuses(p) ==
  /\ Arrives(p, "OFFER") /\ p \notin Steady
  /\ faulty' = faulty \cup {p}
  /\ UNCHANGED <<browser, events, toBot, bot>>

\* It is answered; an answer is matched by its connection id.
ClientIsAnswered(p) ==
  LET id == Head(toClient[p]).id IN
  /\ Arrives(p, "ANSWER")
  /\ spoken' = [spoken EXCEPT ![p] = @ \cup ({id} \cap live[p])]
  /\ UNCHANGED <<here, dialing, live, joins, events, toBot, faulty, bot>>

\* A message for a browser without a peer expires at the server.
Expires(p) ==
  /\ p \notin here /\ toClient[p] # <<>>
  /\ toClient' = [toClient EXCEPT ![p] = Tail(@)]
  /\ Send(p, "EXPIRE", NoId)
  /\ faulty' = faulty \cup {p}
  /\ UNCHANGED <<browser, events, bot>>

-----------------------------------------------------------------------------
Init ==
  /\ conns = [p \in Clients |-> NoConn] /\ timers = {} /\ counts = [p \in Clients |-> 0]
  /\ pending = {} /\ isConnected = FALSE /\ queued = FALSE /\ destroyed = FALSE /\ late = FALSE
  /\ here \in {users \in SUBSET Clients : Steady \subseteq users} /\ dialing = here
  /\ events = <<[type |-> "all-users", users |-> here]>>
  /\ toBot = [p \in Clients |-> <<>>] /\ toClient = [p \in Clients |-> <<>>]
  /\ joins = [p \in Clients |-> IF p \in here THEN 1 ELSE 0]
  /\ live = [p \in Clients |-> {}] /\ spoken = live
  /\ faulty = {}

Handlers(p) ==
  \/ OnUserConnected(p) \/ OnUserDisconnected(p) \/ OnOffer(p) \/ OnExpire(p)
  \/ OnAnswer(p) \/ OnAnswerRefused(p)
Retries(p) == RetryEnds(p) \/ RetryCalls(p)
Continuations == \E w \in pending : OfferReady(w) \/ AnswerReady(w)
Answers(p) == ClientAnswers(p) \/ ClientRefuses(p) \/ ClientIsAnswered(p) \/ Expires(p)

Next ==
  \/ OnAllUsers \/ Continuations \/ OnAudioFrame \/ Destroy \/ GraceEnds
  \/ \E p \in Clients :
       \/ Handlers(p) \/ Retries(p) \/ ConnectionUp(p) \/ ConnectionFails(p)
       \/ ClientCalls(p) \/ Answers(p) \/ Join(p) \/ Leave(p)

\* Handlers run, timers fire, the library answers, the network delivers; joins,
\* departures, failures, frames and the end of the first minute need not happen.
Fairness ==
  /\ WF_vars(OnAllUsers) /\ WF_vars(Continuations)
  /\ \A p \in Clients :
       /\ WF_vars(Handlers(p)) /\ WF_vars(Retries(p)) /\ WF_vars(ConnectionUp(p))
       /\ WF_vars(ClientCalls(p)) /\ WF_vars(Answers(p))

Spec == Init /\ [][Next]_vars /\ Fairness

-----------------------------------------------------------------------------
Conns == [id : Ids, remote : Ids \cup {NoId}, ice : {"new", "connected"}]
Pending == [peer : Clients, id : Ids, kind : {"first", "again", "plain", "answer"}]

\* Types of the variables.
TypeOK ==
  /\ conns \in [Clients -> Conns \cup {NoConn}]
  /\ timers \subseteq Clients /\ counts \in [Clients -> 0 .. MaxRetries]
  /\ pending \subseteq Pending
  /\ isConnected \in BOOLEAN /\ queued \in BOOLEAN /\ destroyed \in BOOLEAN /\ late \in BOOLEAN
  /\ here \subseteq Clients /\ dialing \subseteq Clients /\ faulty \subseteq Clients
  /\ \A p \in Clients : live[p] \subseteq Ids /\ spoken[p] \subseteq Ids

\* Whoever is connected is sent the frames: the shared isConnected flag, which
\* one connection's failure clears, never silences another that is up, no frame
\* waits in the queue then, and the bot is not one that was destroyed.
ConnectedAreServed ==
  (\E p \in Clients : Connected(p)) => isConnected /\ ~queued /\ ~destroyed

\* The calls of both sides cross whenever the two meet.  A browser that stays in
\* the room, and has lost nothing and waited for nothing longer than the retry
\* timer, ends up connected to the bot, if the bot stays.
CrossingCallsMeet ==
  \A p \in Clients : <>[](p \in here /\ p \notin faulty /\ ~destroyed) => <>[]Connected(p)


=============================================================================
