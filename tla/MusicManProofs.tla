--------------------------- MODULE MusicManProofs ---------------------------
(***************************************************************************)
(* What a member hears and sees of the bot.  First its calls: whoever is    *)
(* connected to the bot is sent its frames, for any number of browsers,     *)
(* whatever crosses: the flag isConnected is shared by all the connections, *)
(* and each handler that clears it, fills the queue or destroys the bot     *)
(* leaves nobody behind it.  Then the music panels, for any number of       *)
(* panels, requests, sessions and positions.                                *)
(***************************************************************************)
EXTENDS BotCalls, MusicPanel, Integers, FiniteSetTheorems, TLAPS

\* The bot's map: an entry for each browser, either none or a connection.
\* What its id is does not matter here.
IsConn(c) == c = [id |-> c.id, remote |-> c.remote, ice |-> c.ice]
MapOK ==
  /\ conns = [p \in Clients |-> conns[p]]
  /\ \A p \in Clients : conns[p] = NoConn \/ IsConn(conns[p])

Served == \A p \in Clients : Connected(p) => isConnected /\ ~queued /\ ~destroyed

IInv == MapOK /\ Served

LEMMA InitInv == Init => IInv
  BY DEF Init, IInv, MapOK, Served, Connected, Has

-----------------------------------------------------------------------------
(* The two arguments of the steps                                           *)

\* A step keeps the invariant when every connection that is up after it was up
\* before, and the flags that such a connection needs are as they were.
LEMMA NoneComesUp ==
  ASSUME IInv, MapOK',
         \A p \in Clients : Connected(p)' => Connected(p),
         (\E p \in Clients : Connected(p)') => UNCHANGED <<isConnected, queued, destroyed>>
  PROVE  IInv'
<1>1. ASSUME NEW p \in Clients, Connected(p)' PROVE (isConnected /\ ~queued /\ ~destroyed)'
  <2>1. Connected(p) BY <1>1
  <2>2. UNCHANGED <<isConnected, queued, destroyed>> BY <1>1
  <2> QED BY <2>1, <2>2 DEF IInv, Served
<1> QED BY <1>1 DEF IInv, Served

\* A new connection is one, and is not up.
LEMMA NewConn ==
  ASSUME NEW id
  PROVE  IsConn(MakePc(id)) /\ MakePc(id).ice = "new" /\ MakePc(id) # NoConn
  BY DEF IsConn, MakePc, NoConn

\* Replacing entries of the map by none or by new connections.
LEMMA MapChanges ==
  ASSUME IInv,
         conns' = [p \in Clients |-> conns'[p]],
         \A p \in Clients : \/ conns'[p] = conns[p] \/ conns'[p] = NoConn
                            \/ \E id : conns'[p] = MakePc(id)
  PROVE  MapOK' /\ \A p \in Clients : Connected(p)' => Connected(p) /\ conns'[p] = conns[p]
<1>1. ASSUME NEW p \in Clients PROVE conns'[p] = NoConn \/ IsConn(conns'[p])
  BY <1>1, NewConn DEF IInv, MapOK
<1>2. MapOK' BY <1>1 DEF MapOK
<1>3. ASSUME NEW p \in Clients, Connected(p)' PROVE Connected(p) /\ conns'[p] = conns[p]
  <2>1. conns'[p] # NoConn /\ conns'[p].ice = "connected" BY <1>3 DEF Connected, Has
  <2>2. conns'[p] = conns[p] BY <2>1, NewConn
  <2> QED BY <2>1, <2>2 DEF Connected, Has
<1> QED BY <1>2, <1>3

\* closePeer: the bot leaves only when no connection is left.
LEMMA ClosedPeer ==
  ASSUME IInv, NEW p \in Clients, ClosePeer(p)
  PROVE  /\ MapOK'
         /\ \A q \in Clients : Connected(q)' => Connected(q) /\ q # p
         /\ (\E q \in Clients : Connected(q)') => UNCHANGED <<queued, destroyed>>
<1>1. conns' = [conns EXCEPT ![p] = NoConn] BY DEF ClosePeer
<1>2. conns' = [q \in Clients |-> IF q = p THEN NoConn ELSE conns[q]]
  BY <1>1 DEF IInv, MapOK
<1>3. MapOK' /\ \A q \in Clients : Connected(q)' => Connected(q) /\ conns'[q] = conns[q]
  BY <1>2, MapChanges
<1>4. ~Connected(p)' BY <1>2 DEF Connected, Has
<1>5. ASSUME NEW q \in Clients, Connected(q)' PROVE UNCHANGED <<queued, destroyed>>
  <2>1. Connected(q) /\ q # p BY <1>3, <1>4, <1>5
  <2>2. ~CheckAutoLeave(p) BY <2>1 DEF CheckAutoLeave, Connected
  <2> QED BY <2>2 DEF ClosePeer
<1> QED BY <1>3, <1>4, <1>5

-----------------------------------------------------------------------------
(* The handlers of the bot                                                  *)

LEMMA AllUsersKeeps == ASSUME IInv, OnAllUsers PROVE IInv'
<1>1. PICK fresh : conns' = [p \in Clients |-> IF p \in fresh THEN MakePc(Fresh(p, "b")) ELSE conns[p]]
  BY DEF OnAllUsers
<1>2. MapOK' /\ \A p \in Clients : Connected(p)' => Connected(p) /\ conns'[p] = conns[p]
  <2>1. conns' = [p \in Clients |-> conns'[p]] BY <1>1
  <2>2. ASSUME NEW p \in Clients
        PROVE conns'[p] = conns[p] \/ \E id : conns'[p] = MakePc(id)
    BY <1>1
  <2> QED BY <2>1, <2>2, MapChanges
<1>3. UNCHANGED <<isConnected, queued, destroyed>> BY DEF OnAllUsers, flags
<1> QED BY <1>2, <1>3, NoneComesUp

\* callPeer puts a connection that is not up in the place of another.
LEMMA StartedCall ==
  ASSUME IInv, NEW p \in Clients, NEW kind, StartCall(p, kind)
  PROVE  MapOK' /\ \A q \in Clients : Connected(q)' => Connected(q)
<1>1. conns' = [q \in Clients |-> IF q = p THEN MakePc(Fresh(p, "b")) ELSE conns[q]]
  BY DEF StartCall, IInv, MapOK
<1>2. ASSUME NEW q \in Clients PROVE conns'[q] = conns[q] \/ \E id : conns'[q] = MakePc(id)
  BY <1>1
<1> QED BY <1>1, <1>2, MapChanges

\* What leaves the map alone leaves its connections alone.
LEMMA SameMap ==
  ASSUME IInv, UNCHANGED conns
  PROVE  MapOK' /\ \A p \in Clients : Connected(p)' => Connected(p)
  BY DEF IInv, MapOK, IsConn, NoConn, NoId, Connected, Has

LEMMA UserConnectedKeeps == ASSUME IInv, NEW p \in Clients, OnUserConnected(p) PROVE IInv'
<1>1. UNCHANGED <<isConnected, queued, destroyed>> BY DEF OnUserConnected, flags
<1>2. MapOK' /\ \A q \in Clients : Connected(q)' => Connected(q)
  BY StartedCall, SameMap DEF OnUserConnected
<1> QED BY <1>1, <1>2, NoneComesUp

LEMMA ClosingKeeps ==
  ASSUME IInv, NEW p \in Clients, OnUserDisconnected(p) \/ OnExpire(p)
  PROVE  IInv'
<1>1. ClosePeer(p) /\ UNCHANGED isConnected BY DEF OnUserDisconnected, OnExpire
<1> QED BY <1>1, ClosedPeer, NoneComesUp

\* No connection is left of a bot that is destroyed.
LEMMA EmptyMap ==
  ASSUME IInv, conns' = [q \in Clients |-> NoConn]
  PROVE  IInv'
<1>1. MapOK' BY DEF MapOK
<1>2. \A q \in Clients : ~Connected(q)' BY DEF Connected, Has
<1> QED BY <1>1, <1>2 DEF IInv, Served

LEMMA RetryKeeps == ASSUME IInv, NEW p \in Clients, Retries(p) PROVE IInv'
<1>1. CASE RetryEnds(p)
  <2>1. UNCHANGED <<conns, isConnected, queued, destroyed>> BY <1>1 DEF RetryEnds, flags
  <2> QED BY <2>1, SameMap, NoneComesUp
<1>2. CASE RetryCalls(p) /\ CheckAutoLeave(p)
  <2>1. conns' = [conns EXCEPT ![p] = NoConn] BY <1>2 DEF RetryCalls
  <2>2. \A q \in Clients \ {p} : conns[q] = NoConn BY <1>2 DEF CheckAutoLeave, Has
  <2>3. conns' = [q \in Clients |-> NoConn] BY <2>1, <2>2 DEF IInv, MapOK
  <2> QED BY <2>3, EmptyMap
<1>3. CASE RetryCalls(p) /\ ~CheckAutoLeave(p)
  <2>1. StartCall(p, "again") /\ UNCHANGED <<isConnected, queued, destroyed>>
    BY <1>3 DEF RetryCalls
  <2> QED BY <2>1, StartedCall, NoneComesUp
<1> QED BY <1>1, <1>2, <1>3 DEF Retries

LEMMA OfferKeeps == ASSUME IInv, NEW p \in Clients, OnOffer(p) PROVE IInv'
<1>1. CASE destroyed \/ Keeps(p)
  <2>1. UNCHANGED <<conns, isConnected, queued, destroyed>> BY <1>1 DEF OnOffer, bot, flags
  <2> QED BY <2>1, SameMap, NoneComesUp
<1>2. CASE ~(destroyed \/ Keeps(p))
  <2>1. PICK id : conns' = [conns EXCEPT ![p] = MakePc(id)] BY <1>2 DEF OnOffer
  <2>2. conns' = [q \in Clients |-> IF q = p THEN MakePc(id) ELSE conns[q]]
    BY <2>1 DEF IInv, MapOK
  <2>3. MapOK' /\ \A q \in Clients : Connected(q)' => Connected(q) /\ conns'[q] = conns[q]
    <3>1. ASSUME NEW q \in Clients PROVE conns'[q] = conns[q] \/ \E i : conns'[q] = MakePc(i)
      BY <2>2
    <3> QED BY <2>2, <3>1, MapChanges
  <2>4. ~Connected(p)' BY <2>2, NewConn DEF Connected
  <2>5. ASSUME NEW q \in Clients, Connected(q)' PROVE UNCHANGED <<isConnected, queued, destroyed>>
    <3>1. Connected(q) /\ q # p BY <2>3, <2>4, <2>5
    <3>2. ~CheckAutoLeave(p) BY <3>1 DEF CheckAutoLeave, Connected
    <3> QED BY <1>2, <3>2 DEF OnOffer
  <2> QED BY <2>3, <2>5, NoneComesUp
<1> QED BY <1>1, <1>2

\* Setting a remote description brings no connection up and makes none.
LEMMA RemoteSet ==
  ASSUME IInv, NEW p, NEW r, conns' = [conns EXCEPT ![p].remote = r]
  PROVE  MapOK' /\ \A q \in Clients : Connected(q)' => Connected(q)
<1>1. conns' = [q \in Clients |-> IF q = p THEN [conns[q] EXCEPT !.remote = r] ELSE conns[q]]
  BY DEF IInv, MapOK
<1>2. ASSUME NEW q \in Clients
      PROVE  /\ conns'[q] = NoConn \/ IsConn(conns'[q])
             /\ Connected(q)' => Connected(q)
  <2>1. CASE q # p BY <1>1, <2>1 DEF IInv, MapOK, Connected, Has
  <2>2. CASE q = p /\ conns[q] = NoConn
    <3>1. conns'[q] = NoConn BY <1>1, <2>2 DEF NoConn
    <3> QED BY <3>1 DEF Connected, Has
  <2>3. CASE q = p /\ conns[q] # NoConn
    <3>1. IsConn(conns[q]) BY <2>3 DEF IInv, MapOK
    <3>2. conns'[q] = [id |-> conns[q].id, remote |-> r, ice |-> conns[q].ice]
      BY <1>1, <2>3, <3>1 DEF IsConn
    <3> QED BY <2>3, <3>2 DEF IsConn, Connected, Has
  <2> QED BY <2>1, <2>2, <2>3
<1> QED BY <1>1, <1>2 DEF MapOK

LEMMA AnswerKeeps ==
  ASSUME IInv, NEW p \in Clients, OnAnswer(p)
  PROVE  IInv'
<1>1. UNCHANGED <<isConnected, queued, destroyed>> BY DEF OnAnswer, flags
<1>2. MapOK' /\ \A q \in Clients : Connected(q)' => Connected(q)
  BY RemoteSet, SameMap DEF OnAnswer
<1> QED BY <1>1, <1>2, NoneComesUp

LEMMA ContinuationsKeep == ASSUME IInv, Continuations PROVE IInv'
<1>1. UNCHANGED <<isConnected, queued, destroyed>>
  BY DEF Continuations, OfferReady, AnswerReady, flags
<1>2. MapOK' /\ \A q \in Clients : Connected(q)' => Connected(q)
  <2>1. PICK w \in pending : OfferReady(w) \/ AnswerReady(w) BY DEF Continuations
  <2>2. CASE OfferReady(w) BY <2>2, SameMap DEF OfferReady
  <2>3. CASE AnswerReady(w) BY <2>3, RemoteSet, SameMap DEF AnswerReady
  <2> QED BY <2>1, <2>2, <2>3
<1> QED BY <1>1, <1>2, NoneComesUp

\* A connection that comes up sets the flag and empties the queue for all.
LEMMA UpKeeps == ASSUME IInv, NEW p \in Clients, ConnectionUp(p) PROVE IInv'
<1>1. conns' = [conns EXCEPT ![p].ice = "connected"] /\ isConnected' /\ ~queued' /\ ~destroyed'
  BY DEF ConnectionUp
<1>2. conns' = [q \in Clients |-> IF q = p THEN [conns[q] EXCEPT !.ice = "connected"] ELSE conns[q]]
  BY <1>1 DEF IInv, MapOK
<1>3. IsConn(conns[p]) BY DEF IInv, MapOK, ConnectionUp, Matched, Has
<1>4. conns'[p] = [id |-> conns[p].id, remote |-> conns[p].remote, ice |-> "connected"]
  BY <1>2, <1>3 DEF IsConn
<1>5. ASSUME NEW q \in Clients PROVE conns'[q] = NoConn \/ IsConn(conns'[q])
  <2>1. CASE q = p BY <1>4, <2>1 DEF IsConn
  <2>2. CASE q # p BY <1>2, <2>2 DEF IInv, MapOK
  <2> QED BY <2>1, <2>2
<1> QED BY <1>1, <1>2, <1>5 DEF IInv, MapOK, Served

\* A connection that fails keeps the flag when another is left: the map then
\* had two entries at least.
LEMMA FailureKeeps == ASSUME IInv, NEW p \in Clients, ConnectionFails(p) PROVE IInv'
<1> DEFINE S == {q \in Clients : Has(q)}
<1>1. ClosePeer(p) /\ Has(p) /\ isConnected' = (Cardinality(S) > 1) BY DEF ConnectionFails
<1>2. IsFiniteSet(S) BY ClientsAssumption, FS_Subset
<1>3. ASSUME NEW q \in Clients, Connected(q)'
      PROVE  UNCHANGED <<isConnected, queued, destroyed>>
  <2>1. Connected(q) /\ q # p /\ UNCHANGED <<queued, destroyed>> BY <1>1, <1>3, ClosedPeer
  <2>2. q \in S /\ p \in S BY <1>1, <2>1 DEF Connected
  <2>3. Cardinality(S) \in Nat BY <1>2, FS_CardinalityType
  <2>4. IsFiniteSet({p, q}) /\ Cardinality({p, q}) = 2
    <3>1. IsFiniteSet({q}) /\ Cardinality({q}) = 1 BY FS_Singleton
    <3>2. p \notin {q} BY <2>1
    <3>3. IsFiniteSet({q} \cup {p}) /\ Cardinality({q} \cup {p}) = Cardinality({q}) + 1
      BY <3>1, <3>2, FS_AddElement
    <3>4. {p, q} = {q} \cup {p} OBVIOUS
    <3> QED BY <3>1, <3>3, <3>4
  <2>5. Cardinality({p, q}) \leq Cardinality(S) BY <1>2, <2>2, FS_Subset
  <2>6. Cardinality(S) > 1 BY <2>3, <2>4, <2>5
  <2>7. isConnected' BY <1>1, <2>6
  <2> QED BY <2>1, <2>7 DEF IInv, Served
<1> QED BY <1>1, <1>3, ClosedPeer, NoneComesUp

LEMMA FrameKeeps == ASSUME IInv, OnAudioFrame PROVE IInv'
<1>1. UNCHANGED <<conns, isConnected, destroyed>> /\ queued' = (queued \/ ~isConnected)
  BY DEF OnAudioFrame
<1>2. MapOK' /\ \A p \in Clients : Connected(p)' => Connected(p) BY <1>1, SameMap
<1>3. ASSUME NEW p \in Clients, Connected(p)' PROVE (isConnected /\ ~queued /\ ~destroyed)'
  <2>1. isConnected /\ ~queued /\ ~destroyed BY <1>2, <1>3 DEF IInv, Served
  <2> QED BY <1>1, <2>1
<1> QED BY <1>2, <1>3 DEF IInv, Served

-----------------------------------------------------------------------------
\* The steps of the browsers do not touch the bot.
LEMMA BrowserKeeps ==
  ASSUME IInv, NEW p \in Clients, Join(p) \/ Leave(p) \/ ClientCalls(p) \/ Answers(p)
  PROVE  IInv'
<1>1. UNCHANGED bot
  BY DEF Join, Leave, ClientCalls, Answers, ClientAnswers, ClientRefuses, ClientIsAnswered, Expires
<1>2. UNCHANGED <<conns, isConnected, queued, destroyed>> BY <1>1 DEF bot, flags
<1> QED BY <1>2, SameMap, NoneComesUp

LEMMA InductiveInv == IInv /\ [Next]_vars => IInv'
<1> SUFFICES ASSUME IInv, [Next]_vars PROVE IInv' OBVIOUS
<1>1. CASE OnAllUsers BY <1>1, AllUsersKeeps
<1>2. CASE Continuations BY <1>2, ContinuationsKeep
<1>3. CASE OnAudioFrame BY <1>3, FrameKeeps
<1>4. CASE Destroy BY <1>4, EmptyMap DEF Destroy
<1>5. CASE GraceEnds \/ UNCHANGED vars
  <2>1. UNCHANGED <<conns, isConnected, queued, destroyed>>
    BY <1>5 DEF GraceEnds, vars, bot, flags
  <2> QED BY <2>1, SameMap, NoneComesUp
<1>6. ASSUME NEW p \in Clients, Handlers(p) PROVE IInv'
  <2>1. CASE OnAnswerRefused(p) BY <2>1, EmptyMap DEF OnAnswerRefused
  <2> QED BY <1>6, <2>1, UserConnectedKeeps, ClosingKeeps, OfferKeeps, AnswerKeeps DEF Handlers
<1>7. ASSUME NEW p \in Clients, Retries(p) \/ ConnectionUp(p) \/ ConnectionFails(p) PROVE IInv'
  BY <1>7, RetryKeeps, UpKeeps, FailureKeeps
<1>8. ASSUME NEW p \in Clients, ClientCalls(p) \/ Answers(p) \/ Join(p) \/ Leave(p) PROVE IInv'
  BY <1>8, BrowserKeeps
<1> QED BY <1>1, <1>2, <1>3, <1>4, <1>5, <1>6, <1>7, <1>8 DEF Next

\* Whoever is connected is sent the frames: the shared flag, the queue and the end
\* of the bot, which every connection's failure, closing and retry may touch, never
\* cut off another connection that is up.
THEOREM ServesTheConnected == Spec => []ConnectedAreServed
<1>1. IInv => ConnectedAreServed BY DEF IInv, Served, ConnectedAreServed
<1> QED BY <1>1, InitInv, InductiveInv, PTL DEF Spec

-----------------------------------------------------------------------------
(* The panels.  The inductive invariant says where a state comes from: an   *)
(* answer is of a session that was made, an empty one only of a session     *)
(* that is over, and a panel shows the state of the session it saw last.    *)

-----------------------------------------------------------------------------
(* The invariant                                                            *)

\* A state is of a queue that is not empty.
Filled(st) == st = Blank \/ st.tracks >= 1
Known(s) == s \in Session /\ ses[s] # Blank

SessionsOK ==
  /\ \A s \in Session : Filled(ses[s])
  /\ current # NoSession => Known(current)

\* An answer is of a session that was made; it is empty only if that session is over.
RequestOK(r) ==
  /\ Filled(r.state)
  /\ r.kind = "add" => r.n >= 1
  /\ r.stage = "starting" => Known(r.s)
  /\ r.stage = "answered" /\ (r.s # NoSession \/ r.state # Blank) => Known(r.s)
  /\ r.stage = "answered" /\ r.state = Blank => r.s # current \/ r.s = NoSession

PanelOK(q) ==
  /\ Filled(q.shown)
  /\ q.sight # NoSession => Known(q.sight)
  /\ q.shown # Blank => q.sight # NoSession
  /\ q.shown = Blank /\ q.sight # NoSession /\ ~q.overtaken => q.sight # current
  /\ q.held /\ q.seek = NoSecond => q.cut

PanelsInv ==
  /\ PanelsTypeOK
  /\ SessionsOK
  /\ \A p \in Panel : PanelOK(panel[p]) /\ \A i \in Slot : RequestOK(net[p][i])

PanelType == [
    shown:     State \cup {Blank},
    botJoined: BOOLEAN,
    loading:   BOOLEAN,
    resolving: BOOLEAN,
    seek:      Second \cup {NoSecond},
    held:      BOOLEAN,
    sight:     Session \cup {NoSession},
    overtaken: BOOLEAN,
    cut:       BOOLEAN]

LEMMA Types ==
  PanelsTypeOK <=> /\ member \in BOOLEAN
             /\ current \in Session \cup {NoSession}
             /\ ses \in [Session -> State \cup {Blank}]
             /\ net \in [Panel -> [Slot -> Request]]
             /\ panel \in [Panel -> PanelType]
             /\ turns \in 0 .. MaxTurns
  BY DEF PanelsTypeOK, PanelType

LEMMA Plain ==
  /\ Idle \in Request /\ Idle.stage = "idle" /\ Idle.kind = "status" /\ Idle.state = Blank
  /\ \A kind \in Kind : /\ Sent(kind) \in Request /\ Sent(kind).stage = "sent"
                        /\ Sent(kind).kind = kind /\ Sent(kind).state = Blank
<1>1. Idle \in Request /\ Idle.stage = "idle" /\ Idle.kind = "status" /\ Idle.state = Blank
  BY PanelAssumption DEF Idle, Request, Kind
<1>2. ASSUME NEW kind \in Kind
      PROVE  /\ Sent(kind) \in Request /\ Sent(kind).stage = "sent"
             /\ Sent(kind).kind = kind /\ Sent(kind).state = Blank
  BY <1>1 DEF Sent, Request
<1> QED BY <1>1, <1>2

LEMMA PanelsInitInv == PanelsInit => PanelsInv
<1> SUFFICES ASSUME PanelsInit PROVE PanelsInv OBVIOUS
<1>1. current \in Session \cup {NoSession}
  <2>1. SomeSession \in Session BY PanelAssumption DEF SomeSession
  <2> QED BY <2>1 DEF PanelsInit
<1>2. PICK n \in 1 .. MAX_QUEUE, f \in Face :
        ses = [s \in Session |->
                IF s # current THEN Blank
                ELSE [tracks |-> n, face |-> f, at |-> 0, playing |-> TRUE, paused |-> FALSE]]
  BY DEF PanelsInit
<1> DEFINE st == [tracks |-> n, face |-> f, at |-> 0, playing |-> TRUE, paused |-> FALSE]
<1>3. st \in State /\ st.tracks >= 1 /\ st # Blank
  <2>1. n \in Nat /\ n >= 1 BY PanelAssumption
  <2>2. st \in State BY <2>1, PanelAssumption DEF State
  <2>3. st.tracks >= 1 BY <2>1
  <2> QED BY <2>2, <2>3, BlankAssumption
<1> HIDE DEF st
<1>4. ses = [s \in Session |-> IF s # current THEN Blank ELSE st] BY <1>2 DEF st
<1>5. ses \in [Session -> State \cup {Blank}] BY <1>3, <1>4
<1>6. net \in [Panel -> [Slot -> Request]] BY Plain DEF PanelsInit, Kind
<1> DEFINE q == [shown |-> Blank, botJoined |-> member, loading |-> FALSE,
                 resolving |-> FALSE, seek |-> NoSecond, held |-> FALSE,
                 sight |-> NoSession, overtaken |-> FALSE, cut |-> FALSE]
<1>7. q \in PanelType BY DEF PanelType, PanelsInit
<1>8. \A p \in Panel : panel[p] = q BY DEF PanelsInit
<1>9. panel \in [Panel -> PanelType] BY <1>7 DEF PanelsInit
<1>10. PanelsTypeOK
  <2>1. member \in BOOLEAN /\ turns \in 0 .. MaxTurns BY PanelAssumption DEF PanelsInit
  <2> QED BY <1>1, <1>5, <1>6, <1>9, <2>1, Types
<1>11. SessionsOK BY <1>1, <1>3, <1>4 DEF SessionsOK, Filled, Known
<1>12. ASSUME NEW p \in Panel PROVE PanelOK(panel[p]) BY <1>8 DEF PanelOK, Filled
<1>13. ASSUME NEW p \in Panel, NEW i \in Slot PROVE RequestOK(net[p][i])
  <2>1. net[p][i] = Sent("status") \/ net[p][i] = Idle BY DEF PanelsInit
  <2>2. /\ net[p][i].stage \in {"sent", "idle"} /\ net[p][i].kind = "status"
        /\ net[p][i].state = Blank
    BY <2>1, Plain DEF Kind
  <2> QED BY <2>2 DEF RequestOK, Filled
<1> QED BY <1>10, <1>11, <1>12, <1>13 DEF PanelsInv

-----------------------------------------------------------------------------
(* What a step changes                                                      *)

\* Sessions that were made stay so, and a session that is over is not current again.
Onward == \A s : Known(s) => Known(s)' /\ (s # current => s # current')

LEMMA Step ==
  ASSUME PanelsInv, PanelsTypeOK', SessionsOK', Onward, NEW p \in Panel,
         \A o \in Panel \ {p} : panel'[o] = panel[o] /\ net'[o] = net[o],
         panel'[p] = panel[p] \/ PanelOK(panel[p])',
         \A i \in Slot : net'[p][i] = net[p][i] \/ RequestOK(net[p][i])'
  PROVE  PanelsInv'
<1>1. ASSUME NEW o \in Panel PROVE PanelOK(panel[o])'
  <2>1. CASE panel'[o] = panel[o]
    <3>1. PanelOK(panel[o]) BY DEF PanelsInv
    <3> QED BY <2>1, <3>1 DEF PanelOK, Onward
  <2>2. CASE o = p /\ PanelOK(panel[p])' BY <2>2
  <2> QED BY <2>1, <2>2
<1>2. ASSUME NEW o \in Panel, NEW i \in Slot PROVE RequestOK(net[o][i])'
  <2>1. CASE net'[o][i] = net[o][i]
    <3>1. RequestOK(net[o][i]) BY DEF PanelsInv
    <3> QED BY <2>1, <3>1 DEF RequestOK, Onward
  <2>2. CASE o = p /\ RequestOK(net[p][i])' BY <2>2
  <2> QED BY <2>1, <2>2
<1> QED BY <1>1, <1>2 DEF PanelsInv

LEMMA OnePanel ==
  ASSUME PanelsTypeOK, NEW p \in Panel, NEW q \in PanelType, panel' = [panel EXCEPT ![p] = q]
  PROVE  /\ panel' \in [Panel -> PanelType]
         /\ panel'[p] = q
         /\ \A o \in Panel \ {p} : panel'[o] = panel[o]
  BY Types

\* Steps of a panel with a request, and the sessions as they are.
LEMMA PanelStep ==
  ASSUME PanelsInv, UNCHANGED <<current, ses>>, member' \in BOOLEAN, turns' \in 0 .. MaxTurns,
         NEW p \in Panel, NEW q \in PanelType, panel' = [panel EXCEPT ![p] = q], PanelOK(q),
         \/ UNCHANGED net
         \/ \E i \in Slot, r \in Request : net' = [net EXCEPT ![p][i] = r] /\ RequestOK(r)
  PROVE  PanelsInv'
<1>1. PanelsTypeOK /\ SessionsOK BY DEF PanelsInv
<1>2. Onward /\ SessionsOK' BY <1>1 DEF Onward, Known, SessionsOK
<1>3. /\ panel' \in [Panel -> PanelType] /\ panel'[p] = q
      /\ \A o \in Panel \ {p} : panel'[o] = panel[o]
  BY <1>1, OnePanel
<1>4. PanelOK(panel[p])' BY <1>3 DEF PanelOK, Known
<1>5. /\ net' \in [Panel -> [Slot -> Request]]
      /\ \A o \in Panel \ {p} : net'[o] = net[o]
      /\ \A i \in Slot : net'[p][i] = net[p][i] \/ RequestOK(net[p][i])'
  <2>1. CASE UNCHANGED net BY <1>1, <2>1 DEF PanelsTypeOK
  <2>2. ASSUME NEW i \in Slot, NEW r \in Request, net' = [net EXCEPT ![p][i] = r], RequestOK(r)
        PROVE  <1>5!1 /\ <1>5!2 /\ <1>5!3
    <3>1. /\ net' \in [Panel -> [Slot -> Request]] /\ net'[p][i] = r
          /\ \A j \in Slot \ {i} : net'[p][j] = net[p][j]
          /\ \A o \in Panel \ {p} : net'[o] = net[o]
      BY <1>1, <2>2 DEF PanelsTypeOK
    <3>2. RequestOK(net[p][i])' BY <2>2, <3>1 DEF RequestOK, Known
    <3> QED BY <3>1, <3>2
  <2> QED BY <2>1, <2>2
<1>6. PanelsTypeOK'
  <2>1. current' \in Session \cup {NoSession} /\ ses' \in [Session -> State \cup {Blank}]
    BY <1>1 DEF PanelsTypeOK
  <2> QED BY <1>3, <1>5, <2>1 DEF PanelsTypeOK, PanelType
<1> QED BY <1>2, <1>3, <1>4, <1>5, <1>6, Step

LEMMA Turns ==
  ASSUME PanelsTypeOK, Turn \/ UNCHANGED turns
  PROVE  turns' \in 0 .. MaxTurns
  BY PanelAssumption DEF PanelsTypeOK, Turn

LEMMA AtPanel ==
  ASSUME PanelsInv, NEW p \in Panel
  PROVE  /\ panel[p] \in PanelType
         /\ PanelOK(panel[p])
         /\ \A i \in Slot : net[p][i] \in Request /\ RequestOK(net[p][i])
  BY Types DEF PanelsInv

-----------------------------------------------------------------------------
(* The member and the poll                                                  *)

LEMMA SentOK == \A kind \in Kind \ {"add"} : RequestOK(Sent(kind))
  BY Plain DEF RequestOK, Filled

LEMMA AskStep ==
  ASSUME PanelsInv, NEW p \in Panel, NEW r \in Request, RequestOK(r), Ask(p, r),
         Turn \/ UNCHANGED turns,
         NEW q \in PanelType, PanelOK(q), panel' = [panel EXCEPT ![p] = q]
  PROVE  PanelsInv'
<1>1. \E i \in Slot, x \in Request : net' = [net EXCEPT ![p][i] = x] /\ RequestOK(x)
  BY DEF Ask
<1>2. UNCHANGED <<current, ses>> /\ member' \in BOOLEAN BY DEF Ask, Unchanged, PanelsInv, PanelsTypeOK
<1>3. turns' \in 0 .. MaxTurns BY Turns DEF PanelsInv
<1> QED BY <1>1, <1>2, <1>3, PanelStep

LEMMA CommandStep ==
  ASSUME PanelsInv, NEW p \in Panel, NEW r \in Request, RequestOK(r), Command(p, r)
  PROVE  PanelsInv'
<1> DEFINE q == [panel[p] EXCEPT !.loading = TRUE]
<1>1. q \in PanelType /\ PanelOK(q) BY AtPanel DEF PanelType, PanelOK
<1>2. panel' = [panel EXCEPT ![p] = q] BY DEF Command
<1>3. Ask(p, r) /\ Turn BY DEF Command
<1> HIDE DEF q
<1> QED BY <1>1, <1>2, <1>3, AskStep

LEMMA SeekOnlyStep ==
  ASSUME PanelsInv, NEW p \in Panel, NEW q \in PanelType, PanelOK(q), SeekOnly(p, q),
         Turn \/ UNCHANGED turns
  PROVE  PanelsInv'
<1>1. /\ UNCHANGED <<current, ses>> /\ member' \in BOOLEAN /\ UNCHANGED net
      /\ panel' = [panel EXCEPT ![p] = q]
  BY DEF SeekOnly, Unchanged, PanelsInv, PanelsTypeOK
<1>2. turns' \in 0 .. MaxTurns BY Turns DEF PanelsInv
<1> QED BY <1>1, <1>2, PanelStep

LEMMA UserInv ==
  ASSUME PanelsInv, NEW p \in Panel, User(p)
  PROVE  PanelsInv'
<1>0. panel[p] \in PanelType /\ PanelOK(panel[p]) BY AtPanel
<1>k. \A kind \in Kind \ {"add"} : Sent(kind) \in Request /\ RequestOK(Sent(kind))
  BY Plain, SentOK
<1>1. CASE AddBot(p)
  BY <1>1, <1>k, CommandStep DEF AddBot, Kind
<1>2. CASE Add(p)
  <2> DEFINE r == [Sent("resolve") EXCEPT !.n = Room(p)]
             q == [panel[p] EXCEPT !.resolving = TRUE]
  <2>1. Room(p) \in Nat
    <3>1. Room(p) \in Int
      BY <1>0, PanelAssumption DEF Room, Active, PanelType, State
    <3> QED BY <3>1, <1>2 DEF Add
  <2>2. r \in Request BY <2>1, <1>k DEF Request, Kind
  <2>3. RequestOK(r)
    <3>1. r.kind = "resolve" /\ r.stage = "sent" /\ r.state = Blank BY Plain DEF Kind, Request
    <3> QED BY <3>1 DEF RequestOK, Filled
  <2>4. q \in PanelType /\ PanelOK(q) BY <1>0 DEF PanelType, PanelOK
  <2>5. Turn /\ Ask(p, r) /\ panel' = [panel EXCEPT ![p] = q] BY <1>2 DEF Add
  <2> HIDE DEF r, q
  <2> QED BY <2>2, <2>3, <2>4, <2>5, AskStep
<1>3. CASE PauseResume(p)
  <2>1. \E kind \in {"pause", "resume"} : Command(p, Sent(kind)) BY <1>3 DEF PauseResume
  <2> QED BY <2>1, <1>k, CommandStep DEF Kind
<1>4. CASE PlayNext(p) BY <1>4, <1>k, CommandStep DEF PlayNext, Kind
<1>5. CASE Stop(p) BY <1>5, <1>k, CommandStep DEF Stop, Kind
<1>6. CASE FromQueue(p)
  <2>1. \E kind \in {"item", "remove", "clear", "order"} : Command(p, Sent(kind))
    BY <1>6 DEF FromQueue
  <2> QED BY <2>1, <1>k, CommandStep DEF Kind
<1>7. CASE StartSeek(p)
  <2> DEFINE q == [panel[p] EXCEPT !.held = TRUE, !.cut = FALSE,
                                   !.seek = IF @ = NoSecond THEN panel[p].shown.at ELSE @]
  <2>1. panel[p].shown \in State BY <1>0, <1>7 DEF StartSeek, Active, PanelType
  <2>2. panel[p].shown.at \in Second BY <2>1 DEF State
  <2>3. q \in PanelType BY <1>0, <2>2 DEF PanelType
  <2>4. q.seek # NoSecond BY <1>0, <2>2, PanelAssumption DEF PanelType
  <2>5. /\ q.shown = panel[p].shown /\ q.sight = panel[p].sight
        /\ q.overtaken = panel[p].overtaken
    BY <1>0 DEF PanelType
  <2>6. SeekOnly(p, q) /\ Turn BY <1>7 DEF StartSeek
  <2> HIDE DEF q
  <2>7. PanelOK(q) BY <1>0, <2>4, <2>5 DEF PanelOK
  <2> QED BY <2>3, <2>6, <2>7, SeekOnlyStep
<1>8. CASE ChangeSeek(p)
  <2> PICK sec \in Second : SeekOnly(p, [panel[p] EXCEPT !.seek = sec, !.cut = FALSE])
    BY <1>8 DEF ChangeSeek
  <2> DEFINE q == [panel[p] EXCEPT !.seek = sec, !.cut = FALSE]
  <2>1. q \in PanelType /\ PanelOK(q) BY <1>0, PanelAssumption DEF PanelType, PanelOK
  <2>2. SeekOnly(p, q) /\ UNCHANGED turns BY <1>8 DEF ChangeSeek
  <2> HIDE DEF q
  <2> QED BY <2>1, <2>2, SeekOnlyStep
<1>9. CASE CommitSeek(p)
  <2> DEFINE q == [panel[p] EXCEPT !.held = FALSE, !.cut = FALSE]
  <2>1. q \in PanelType /\ PanelOK(q) BY <1>0 DEF PanelType, PanelOK
  <2>2. Turn \/ UNCHANGED turns BY <1>9 DEF CommitSeek
  <2>3. CASE panel[p].seek = NoSecond
    <3>1. SeekOnly(p, q) BY <1>9, <2>3 DEF CommitSeek
    <3> HIDE DEF q
    <3> QED BY <2>1, <2>2, <3>1, SeekOnlyStep
  <2>4. CASE panel[p].seek # NoSecond
    <3> DEFINE r == [Sent("seek") EXCEPT !.at = panel[p].seek]
    <3>1. panel[p].seek \in Second BY <1>0, <2>4 DEF PanelType
    <3>2. r \in Request BY <3>1, <1>k DEF Request, Kind
    <3>3. RequestOK(r)
      <4>1. r.kind = "seek" /\ r.stage = "sent" /\ r.state = Blank BY Plain DEF Kind, Request
      <4> QED BY <4>1 DEF RequestOK, Filled
    <3>4. Ask(p, r) /\ panel' = [panel EXCEPT ![p] = q] BY <1>9, <2>4 DEF CommitSeek
    <3> HIDE DEF q, r
    <3> QED BY <2>1, <2>2, <3>2, <3>3, <3>4, AskStep
  <2> QED BY <2>3, <2>4
<1>10. CASE CancelSeek(p)
  <2> DEFINE q == [panel[p] EXCEPT !.held = FALSE, !.seek = NoSecond, !.cut = FALSE]
  <2>1. q \in PanelType /\ PanelOK(q) BY <1>0 DEF PanelType, PanelOK
  <2>2. SeekOnly(p, q) /\ UNCHANGED turns BY <1>10 DEF CancelSeek
  <2> HIDE DEF q
  <2> QED BY <2>1, <2>2, SeekOnlyStep
<1> QED BY <1>1, <1>2, <1>3, <1>4, <1>5, <1>6, <1>7, <1>8, <1>9, <1>10 DEF User

LEMMA PollInv ==
  ASSUME PanelsInv, NEW p \in Panel, Poll(p)
  PROVE  PanelsInv'
<1>1. panel[p] \in PanelType /\ PanelOK(panel[p]) BY AtPanel
<1>2. panel' = [panel EXCEPT ![p] = panel[p]] BY DEF Poll, PanelsInv, PanelsTypeOK
<1>3. Ask(p, Sent("status")) /\ UNCHANGED turns BY DEF Poll
<1>4. Sent("status") \in Request /\ RequestOK(Sent("status")) BY Plain, SentOK DEF Kind
<1> QED BY <1>1, <1>2, <1>3, <1>4, AskStep

-----------------------------------------------------------------------------
(* The routes                                                               *)

LEMMA RouteStep ==
  ASSUME PanelsInv, NEW p \in Panel, NEW i \in Slot, NEW r \in Request,
         net' = [net EXCEPT ![p][i] = r], RequestOK(r)',
         UNCHANGED <<panel, turns>>, member' \in BOOLEAN,
         current' \in Session \cup {NoSession}, ses' \in [Session -> State \cup {Blank}],
         SessionsOK', Onward
  PROVE  PanelsInv'
<1>1. PanelsTypeOK BY DEF PanelsInv
<1>2. /\ net' \in [Panel -> [Slot -> Request]] /\ net'[p][i] = r
      /\ \A j \in Slot \ {i} : net'[p][j] = net[p][j]
      /\ \A o \in Panel \ {p} : net'[o] = net[o]
  BY <1>1 DEF PanelsTypeOK
<1>3. PanelsTypeOK' BY <1>1, <1>2 DEF PanelsTypeOK
<1>4. \A j \in Slot : net'[p][j] = net[p][j] \/ RequestOK(net[p][j])' BY <1>2
<1> QED BY <1>2, <1>3, <1>4, Step

\* Answers from a session that is as it was, or from none.
LEMMA AnswerAlike ==
  ASSUME PanelsInv, NEW p \in Panel, NEW i \in Slot, NEW ok \in BOOLEAN,
         net' = [net EXCEPT ![p][i] = Answered(net[p][i], NoSession, ok, Blank)],
         UNCHANGED <<panel, turns, current, ses>>, member' \in BOOLEAN
  PROVE  PanelsInv'
<1>1. net[p][i] \in Request /\ RequestOK(net[p][i]) BY AtPanel
<1>2. PICK r \in Request : r = Answered(net[p][i], NoSession, ok, Blank)
  BY <1>1 DEF Answered, Request
<1>3. RequestOK(r)' BY <1>1, <1>2 DEF RequestOK, Answered, Request, Filled
<1>4. current' \in Session \cup {NoSession} /\ ses' \in [Session -> State \cup {Blank}]
  BY DEF PanelsInv, PanelsTypeOK
<1>5. SessionsOK' /\ Onward BY DEF PanelsInv, SessionsOK, Known, Onward
<1> QED BY <1>2, <1>3, <1>4, <1>5, RouteStep

\* No route leaves a state with an empty queue.
LEMMA AdvancedOK ==
  ASSUME NEW st \in State, st.tracks >= 1, NEW x \in Advanced(st)
  PROVE  x \in State \cup {Blank} /\ Filled(x)
<1>1. CASE st.tracks = 1 BY <1>1 DEF Advanced, Filled
<1>2. CASE st.tracks # 1
  <2> PICK f \in Face : x = Played([st EXCEPT !.tracks = @ - 1], f) BY <1>2 DEF Advanced
  <2>1. st.tracks - 1 \in Nat /\ st.tracks - 1 >= 1 BY <1>2 DEF State
  <2>2. x \in State BY <2>1, PanelAssumption DEF Played, State
  <2>3. x.tracks = st.tracks - 1 BY DEF Played, State
  <2> QED BY <2>1, <2>2, <2>3 DEF Filled
<1> QED BY <1>1, <1>2

LEMMA OutcomesOK ==
  ASSUME NEW st \in State, st.tracks >= 1, NEW r \in Request, NEW x \in Outcomes(r, st)
  PROVE  x \in State \cup {Blank} /\ Filled(x)
<1>1. CASE x \in Advanced(st) BY <1>1, AdvancedOK
<1>2. CASE x = Blank \/ x = st BY <1>2 DEF Filled
<1>3. CASE r.kind = "add" /\ x \in Added(st, r.n)
  <2>1. st.tracks + r.n \in Nat /\ st.tracks + r.n >= 1 BY DEF State, Request
  <2>2. x = [st EXCEPT !.tracks = st.tracks + r.n] BY <1>3 DEF Added
  <2>3. x \in State /\ x.tracks = st.tracks + r.n BY <2>1, <2>2 DEF State
  <2> QED BY <2>1, <2>3 DEF Filled
<1>4. CASE x \in ItemPlayed(st) \cup Ordered(st) \cup Paused(st) \cup Resumed(st) \cup Sought(st, r.at)
  <2>0. st.playing \in BOOLEAN /\ 0 \in Second /\ r.at \in Second
    BY PanelAssumption DEF State, Request
  <2>1. CASE x \in ItemPlayed(st)
    <3>1. PICK f \in Face : x = Played(st, f) BY <2>1 DEF ItemPlayed
    <3> QED BY <2>0, <3>1 DEF Played, State, Filled
  <2>2. CASE x \in Ordered(st)
    <3>1. PICK f \in Face : x = [st EXCEPT !.face = f] BY <2>2 DEF Ordered
    <3> QED BY <3>1 DEF State, Filled
  <2>3. CASE x \in Paused(st) \cup Resumed(st)
    BY <2>0, <2>3 DEF Paused, Resumed, State, Filled
  <2>4. CASE x \in Sought(st, r.at) BY <2>0, <2>4 DEF Sought, State, Filled
  <2> QED BY <1>4, <2>1, <2>2, <2>3, <2>4
<1>5. CASE x \in Removed(st) \ Advanced(st)
  <2> PICK f \in Face : x = [st EXCEPT !.tracks = st.tracks - 1, !.face = f] /\ st.tracks # 1
    BY <1>5 DEF Removed
  <2>1. st.tracks - 1 \in Nat /\ st.tracks - 1 >= 1 BY DEF State
  <2>2. x \in State /\ x.tracks = st.tracks - 1 BY <2>1 DEF State
  <2> QED BY <2>1, <2>2 DEF Filled
<1>6. \/ x \in Advanced(st) \/ x = Blank \/ x = st \/ (r.kind = "add" /\ x \in Added(st, r.n))
      \/ x \in ItemPlayed(st) \cup Ordered(st) \cup Paused(st) \cup Resumed(st) \cup Sought(st, r.at)
      \/ x \in Removed(st) \ Advanced(st)
  <2>1. r.kind = "add" => x \in Added(st, r.n) BY DEF Outcomes
  <2>2. r.kind = "item" => x \in ItemPlayed(st) BY DEF Outcomes
  <2>3. r.kind = "remove" => x \in Removed(st) BY DEF Outcomes
  <2>4. r.kind = "next" => x \in Advanced(st) BY DEF Outcomes
  <2>5. r.kind = "order" => x \in Ordered(st) BY DEF Outcomes
  <2>6. r.kind = "clear" => x \in {Blank} BY DEF Outcomes, Cleared
  <2>7. r.kind = "pause" => x \in Paused(st) BY DEF Outcomes
  <2>8. r.kind = "resume" => x \in Resumed(st) BY DEF Outcomes
  <2>9. r.kind = "seek" => x \in Sought(st, r.at) BY DEF Outcomes
  <2>10. r.kind \in {"join", "resolve", "status"} => x = st
    <3>1. ASSUME NEW kind \in {"join", "resolve", "status"}, r.kind = kind PROVE x = st
      BY <3>1 DEF Outcomes
    <3> QED BY <3>1
  <2>11. r.kind \in Kind BY DEF Request
  <2>12. x \in Removed(st) => x \in Advanced(st) \/ x \in Removed(st) \ Advanced(st) OBVIOUS
  <2>13. CASE r.kind \in {"add", "item", "remove", "next"}
    BY <2>1, <2>2, <2>3, <2>4, <2>12, <2>13
  <2>14. CASE r.kind \in {"order", "clear", "pause", "resume", "seek"}
    BY <2>5, <2>6, <2>7, <2>8, <2>9, <2>14
  <2>15. CASE r.kind \in {"join", "resolve", "status"} BY <2>10, <2>15
  <2> QED BY <2>11, <2>13, <2>14, <2>15 DEF Kind
<1> QED BY <1>1, <1>2, <1>3, <1>4, <1>5, <1>6

LEMMA Current ==
  ASSUME PanelsInv, current # NoSession
  PROVE  current \in Session /\ ses[current] \in State /\ ses[current].tracks >= 1
         /\ ses[current] # Blank
<1>1. current \in Session /\ ses[current] # Blank BY DEF PanelsInv, SessionsOK, Known
<1>2. ses[current] \in State BY <1>1 DEF PanelsInv, PanelsTypeOK
<1>3. ses[current].tracks >= 1 BY <1>1 DEF PanelsInv, SessionsOK, Filled
<1> QED BY <1>1, <1>2, <1>3

LEMMA BecomesOK ==
  ASSUME PanelsInv, current # NoSession, NEW st \in State \cup {Blank}, Filled(st),
         Becomes(current, st)
  PROVE  /\ current' \in Session \cup {NoSession}
         /\ ses' \in [Session -> State \cup {Blank}]
         /\ SessionsOK' /\ Onward
         /\ ses'[current] # Blank
         /\ st = Blank => current' # current
<1>0. /\ current \in Session /\ ses[current] # Blank
      /\ ses \in [Session -> State \cup {Blank}] /\ SessionsOK
  BY Current DEF PanelsInv, PanelsTypeOK
<1>1. CASE st = Blank
  <2>1. current' = NoSession /\ ses' = ses BY <1>1 DEF Becomes
  <2> QED BY <1>0, <1>1, <2>1, PanelAssumption DEF SessionsOK, Onward, Known
<1>2. CASE st # Blank
  <2>1. current' = current /\ ses' = [ses EXCEPT ![current] = st] BY <1>2 DEF Becomes
  <2> QED BY <1>0, <1>2, <2>1 DEF SessionsOK, Onward, Known
<1> QED BY <1>1, <1>2

LEMMA ServeInv ==
  ASSUME PanelsInv, NEW p \in Panel, NEW i \in Slot, Serve(p, i)
  PROVE  PanelsInv'
<1>1. net[p][i] \in Request /\ RequestOK(net[p][i]) BY AtPanel
<1>2. PICK st \in Outcomes(net[p][i], ses[current]) :
        /\ Becomes(current, st)
        /\ net' = [net EXCEPT ![p][i] = Answered(net[p][i], current, TRUE, st)]
  BY DEF Serve
<1>3. current # NoSession /\ UNCHANGED <<member, panel, turns>> BY DEF Serve
<1>4. current \in Session /\ ses[current] \in State /\ ses[current].tracks >= 1
  BY <1>3, Current
<1>5. st \in State \cup {Blank} /\ Filled(st) BY <1>1, <1>2, <1>4, OutcomesOK
<1>6. /\ current' \in Session \cup {NoSession} /\ ses' \in [Session -> State \cup {Blank}]
      /\ SessionsOK' /\ Onward /\ ses'[current] # Blank
      /\ st = Blank => current' # current
  BY <1>2, <1>3, <1>5, BecomesOK
<1>7. PICK r \in Request : r = Answered(net[p][i], current, TRUE, st)
  BY <1>1, <1>4, <1>5 DEF Answered, Request
<1>8. /\ r.kind = net[p][i].kind /\ r.n = net[p][i].n /\ r.stage = "answered"
      /\ r.s = current /\ r.state = st
  BY <1>1, <1>7 DEF Answered, Request
<1>9. net' = [net EXCEPT ![p][i] = r] BY <1>2, <1>7
<1>10. RequestOK(r)' BY <1>1, <1>4, <1>5, <1>6, <1>8 DEF RequestOK, Known
<1>11. member' \in BOOLEAN BY <1>3 DEF PanelsInv, PanelsTypeOK
<1> QED BY <1>3, <1>6, <1>7, <1>9, <1>10, <1>11, RouteStep

LEMMA CreateInv ==
  ASSUME PanelsInv, NEW p \in Panel, NEW i \in Slot, Create(p, i)
  PROVE  PanelsInv'
<1>1. net[p][i] \in Request /\ RequestOK(net[p][i]) /\ net[p][i].kind = "add"
  BY AtPanel DEF Create
<1>2. PICK s \in Session : s = (CHOOSE x \in Session : ses[x] = Blank) /\ ses[s] = Blank
  BY DEF Create
<1>3. PICK f \in Face :
        ses' = [ses EXCEPT ![s] = [tracks |-> net[p][i].n, face |-> f, at |-> 0,
                                   playing |-> FALSE, paused |-> FALSE]]
  BY <1>2 DEF Create
<1>4. /\ current = NoSession /\ current' = s /\ UNCHANGED <<member, panel, turns>>
      /\ net' = [net EXCEPT ![p][i].stage = "starting", ![p][i].s = s]
  BY <1>2 DEF Create
<1> DEFINE st == [tracks |-> net[p][i].n, face |-> f, at |-> 0, playing |-> FALSE, paused |-> FALSE]
<1>5. net[p][i].n \in Nat /\ net[p][i].n >= 1 BY <1>1 DEF Request, RequestOK
<1>6. st \in State /\ st.tracks >= 1 /\ st # Blank
  <2>1. st \in State BY <1>5, PanelAssumption DEF State
  <2>2. st.tracks >= 1 BY <1>5
  <2> QED BY <2>1, <2>2, BlankAssumption
<1>7. ses' = [ses EXCEPT ![s] = st] BY <1>3
<1>9. PICK r \in Request : r = [net[p][i] EXCEPT !.stage = "starting", !.s = s]
  BY <1>1, <1>2 DEF Request
<1>8. net' = [net EXCEPT ![p][i] = r] BY <1>4, <1>9 DEF PanelsInv, PanelsTypeOK
<1>10. /\ r.stage = "starting" /\ r.s = s /\ r.state = net[p][i].state
       /\ r.kind = net[p][i].kind /\ r.n = net[p][i].n
  BY <1>1, <1>9 DEF Request
<1> HIDE DEF st
<1>11. ses \in [Session -> State \cup {Blank}] /\ SessionsOK BY DEF PanelsInv, PanelsTypeOK
<1>12. ses' \in [Session -> State \cup {Blank}] BY <1>6, <1>7, <1>11
<1>13. SessionsOK' /\ Onward
  BY <1>2, <1>4, <1>6, <1>7, <1>11 DEF SessionsOK, Onward, Known, Filled
<1>14. RequestOK(r)'
  <2>1. ses'[s] # Blank BY <1>2, <1>6, <1>7, <1>11
  <2> QED BY <1>1, <1>2, <1>10, <2>1 DEF RequestOK, Known
<1>15. member' \in BOOLEAN BY <1>4 DEF PanelsInv, PanelsTypeOK
<1> QED BY <1>2, <1>4, <1>8, <1>9, <1>12, <1>13, <1>14, <1>15, RouteStep

LEMMA StartedInv ==
  ASSUME PanelsInv, NEW p \in Panel, NEW i \in Slot, Started(p, i)
  PROVE  PanelsInv'
<1>1. net[p][i] \in Request /\ RequestOK(net[p][i]) /\ net[p][i].stage = "starting"
  BY AtPanel DEF Started
<1>2. PICK s \in Session : s = net[p][i].s /\ ses[s] # Blank BY <1>1 DEF RequestOK, Known
<1> DEFINE st == [ses[s] EXCEPT !.playing = TRUE]
<1>3. ses \in [Session -> State \cup {Blank}] /\ SessionsOK /\ member \in BOOLEAN
      /\ current \in Session \cup {NoSession}
  BY DEF PanelsInv, PanelsTypeOK
<1>4. ses[s] \in State /\ ses[s].tracks >= 1 BY <1>2, <1>3 DEF SessionsOK, Filled
<1>5. st \in State /\ st.tracks >= 1 BY <1>4 DEF State
<1>6. st # Blank BY <1>5, BlankAssumption
<1>7. PICK r \in Request : r = Answered(net[p][i], s, TRUE, st)
  BY <1>1, <1>2, <1>5 DEF Answered, Request
<1>8. /\ ses' = [ses EXCEPT ![s] = st] /\ net' = [net EXCEPT ![p][i] = r]
      /\ UNCHANGED <<member, current, panel, turns>>
  BY <1>2, <1>7 DEF Started
<1>9. /\ r.kind = net[p][i].kind /\ r.n = net[p][i].n /\ r.stage = "answered"
      /\ r.s = s /\ r.state = st
  BY <1>1, <1>7 DEF Answered, Request
<1>10. ses' \in [Session -> State \cup {Blank}] BY <1>3, <1>5, <1>8
<1>13. r.state # Blank /\ r.state.tracks >= 1 /\ ses' = [ses EXCEPT ![s] = r.state]
  BY <1>5, <1>6, <1>8, <1>9
<1> HIDE DEF st
<1>11. SessionsOK' /\ Onward
  BY <1>2, <1>3, <1>8, <1>13 DEF SessionsOK, Onward, Known, Filled
<1>12. RequestOK(r)'
  <2>1. ses'[s] # Blank BY <1>2, <1>3, <1>13
  <2> QED BY <1>1, <1>2, <1>9, <1>13, <2>1 DEF RequestOK, Known, Filled
<1> QED BY <1>3, <1>8, <1>10, <1>11, <1>12, RouteStep

LEMMA StartFailsInv ==
  ASSUME PanelsInv, NEW p \in Panel, NEW i \in Slot, StartFails(p, i)
  PROVE  PanelsInv'
<1>1. net[p][i] \in Request /\ RequestOK(net[p][i]) /\ net[p][i].stage = "starting"
  BY AtPanel DEF StartFails
<1>2. PICK s \in Session : s = net[p][i].s /\ ses[s] # Blank BY <1>1 DEF RequestOK, Known
<1>3. ses \in [Session -> State \cup {Blank}] /\ SessionsOK /\ member \in BOOLEAN
      /\ current \in Session \cup {NoSession}
  BY DEF PanelsInv, PanelsTypeOK
<1>5. PICK r \in Request : r = Answered(net[p][i], s, FALSE, Blank)
  BY <1>1, <1>2 DEF Answered, Request
<1>4. /\ current' = IF current = s THEN NoSession ELSE current
      /\ net' = [net EXCEPT ![p][i] = r] /\ UNCHANGED <<member, ses, panel, turns>>
  BY <1>2, <1>5 DEF StartFails
<1>6. /\ r.kind = net[p][i].kind /\ r.n = net[p][i].n /\ r.stage = "answered"
      /\ r.s = s /\ r.state = Blank
  BY <1>1, <1>5 DEF Answered, Request
<1>7. SessionsOK' /\ Onward
  BY <1>3, <1>4, PanelAssumption DEF SessionsOK, Onward, Known
<1>8. current' # s BY <1>2, <1>4, PanelAssumption
<1>9. RequestOK(r)' BY <1>1, <1>2, <1>4, <1>6, <1>8 DEF RequestOK, Known, Filled
<1>10. current' \in Session \cup {NoSession} BY <1>3, <1>4
<1> QED BY <1>3, <1>4, <1>5, <1>7, <1>9, <1>10, RouteStep

LEMMA RoutesInv ==
  ASSUME PanelsInv, NEW p \in Panel, NEW i \in Slot, Routes(p, i)
  PROVE  PanelsInv'
<1>1. CASE HubJoin(p, i) BY <1>1, AnswerAlike DEF HubJoin
<1>2. CASE Resolve(p, i)
  BY <1>2, AnswerAlike DEF Resolve, Unchanged, PanelsInv, PanelsTypeOK
<1>3. CASE NotFound(p, i)
  BY <1>3, AnswerAlike DEF NotFound, Unchanged, PanelsInv, PanelsTypeOK
<1> QED BY <1>1, <1>2, <1>3, ServeInv, CreateInv, StartedInv, StartFailsInv DEF Routes

LEMMA TrackEndsInv == PanelsInv /\ TrackEnds => PanelsInv'
<1> SUFFICES ASSUME PanelsInv, TrackEnds PROVE PanelsInv' OBVIOUS
<1>1. PICK st \in Advanced(ses[current]) \cup {Blank} : Becomes(current, st) BY DEF TrackEnds
<1>2. current # NoSession /\ Turn /\ UNCHANGED <<member, net, panel>> BY DEF TrackEnds
<1>3. current \in Session /\ ses[current] \in State /\ ses[current].tracks >= 1
  BY <1>2, Current
<1>4. st \in State \cup {Blank} /\ Filled(st) BY <1>1, <1>3, AdvancedOK DEF Filled
<1>5. /\ current' \in Session \cup {NoSession} /\ ses' \in [Session -> State \cup {Blank}]
      /\ SessionsOK' /\ Onward
  BY <1>1, <1>2, <1>4, BecomesOK
<1>6. turns' \in 0 .. MaxTurns BY <1>2, Turns DEF PanelsInv
<1>7. PanelsTypeOK' BY <1>2, <1>5, <1>6 DEF PanelsInv, PanelsTypeOK
<1>8. CASE Panel = {} BY <1>5, <1>7, <1>8 DEF PanelsInv
<1>9. CASE Panel # {}
  <2> PICK p \in Panel : TRUE BY <1>9
  <2> QED BY <1>2, <1>5, <1>7, Step
<1> QED BY <1>8, <1>9

-----------------------------------------------------------------------------
(* The answers                                                              *)

LEMMA ShowingOK ==
  ASSUME PanelsInv, NEW q \in PanelType, PanelOK(q), NEW r \in Request, RequestOK(r),
         r.stage = "answered"
  PROVE  Showing(q, r.state, r.s) \in PanelType /\ PanelOK(Showing(q, r.state, r.s))
<1> DEFINE x == Showing(q, r.state, r.s)
<1>1. CASE r.state # Blank
  <2>1. x = [q EXCEPT !.shown = r.state, !.sight = r.s, !.overtaken = FALSE]
    BY <1>1 DEF Showing
  <2>2. x \in PanelType BY <2>1 DEF PanelType, Request
  <2>3. /\ x.shown = r.state /\ x.sight = r.s
        /\ (x.held <=> q.held) /\ x.seek = q.seek /\ (x.cut <=> q.cut)
    BY <2>1 DEF PanelType
  <2> HIDE DEF x
  <2>4. Filled(r.state) /\ Known(r.s) BY <1>1 DEF RequestOK
  <2>5. r.s # NoSession BY <2>4, PanelAssumption DEF Known
  <2>6. PanelOK(x) BY <1>1, <2>3, <2>4, <2>5 DEF PanelOK
  <2> QED BY <2>2, <2>6 DEF x
<1>2. CASE r.state = Blank
  <2>1. x = [q EXCEPT !.shown = Blank, !.seek = NoSecond, !.cut = q.held,
                      !.overtaken = q.overtaken \/ (q.shown # Blank /\ r.s # q.sight)]
    BY <1>2 DEF Showing
  <2>2. x \in PanelType BY <2>1 DEF PanelType
  <2>3. /\ x.shown = Blank /\ x.sight = q.sight /\ (x.held <=> q.held) /\ (x.cut <=> q.held)
    BY <2>1 DEF PanelType
  <2>4. ~x.overtaken => ~q.overtaken /\ (q.shown = Blank \/ r.s = q.sight)
    BY <2>1 DEF PanelType
  <2> HIDE DEF x
  <2>5. r.s # current \/ r.s = NoSession BY <1>2 DEF RequestOK
  <2>6. PanelOK(x) BY <2>3, <2>4, <2>5 DEF PanelOK, Filled
  <2> QED BY <2>2, <2>6 DEF x
<1> QED BY <1>1, <1>2

\* An answer is taken, or a request is lost.
LEMMA AnswerStep ==
  ASSUME PanelsInv, NEW p \in Panel, NEW i \in Slot, NEW q \in PanelType, PanelOK(q),
         panel' = [panel EXCEPT ![p] = q], net' = [net EXCEPT ![p][i] = Idle],
         Unchanged, Turn \/ UNCHANGED turns
  PROVE  PanelsInv'
<1>1. Idle \in Request /\ RequestOK(Idle) BY Plain DEF RequestOK, Filled
<1>2. UNCHANGED <<current, ses>> /\ member' \in BOOLEAN BY DEF Unchanged, PanelsInv, PanelsTypeOK
<1>3. turns' \in 0 .. MaxTurns BY Turns DEF PanelsInv
<1>4. \E j \in Slot, r \in Request : net' = [net EXCEPT ![p][j] = r] /\ RequestOK(r) BY <1>1
<1> QED BY <1>2, <1>3, <1>4, PanelStep

LEMMA DeliverStep ==
  ASSUME PanelsInv, NEW p \in Panel, NEW i \in Slot, NEW q \in PanelType, PanelOK(q),
         NEW kinds, Deliver(p, i, kinds, q)
  PROVE  PanelsInv'
  BY AnswerStep DEF Deliver

\* What the panel keeps for itself: flags, and the seek bar let go.
LEMMA Flags ==
  ASSUME NEW q \in PanelType, PanelOK(q), NEW l \in BOOLEAN, NEW v \in BOOLEAN, NEW b \in BOOLEAN
  PROVE  /\ [q EXCEPT !.loading = l] \in PanelType
         /\ PanelOK([q EXCEPT !.loading = l])
         /\ [q EXCEPT !.loading = l, !.resolving = v] \in PanelType
         /\ PanelOK([q EXCEPT !.loading = l, !.resolving = v])
         /\ [q EXCEPT !.loading = l, !.botJoined = b] \in PanelType
         /\ PanelOK([q EXCEPT !.loading = l, !.botJoined = b])
         /\ [q EXCEPT !.resolving = v, !.loading = l] \in PanelType
         /\ PanelOK([q EXCEPT !.resolving = v, !.loading = l])
<1>1. ASSUME NEW x \in PanelType, x.shown = q.shown, x.sight = q.sight,
             x.overtaken <=> q.overtaken, x.held <=> q.held, x.seek = q.seek, x.cut <=> q.cut
      PROVE  PanelOK(x)
  BY <1>1 DEF PanelOK
<1>2. [q EXCEPT !.loading = l] \in PanelType
      /\ PanelOK([q EXCEPT !.loading = l])
  <2> DEFINE x == [q EXCEPT !.loading = l]
  <2>1. x \in PanelType BY DEF PanelType
  <2>2. /\ x.shown = q.shown /\ x.sight = q.sight /\ x.seek = q.seek
        /\ x.overtaken <=> q.overtaken
        /\ x.held <=> q.held
        /\ x.cut <=> q.cut
    BY DEF PanelType
  <2> HIDE DEF x
  <2>3. PanelOK(x) BY <1>1, <2>1, <2>2
  <2> QED BY <2>1, <2>3 DEF x
<1>3. [q EXCEPT !.loading = l, !.resolving = v] \in PanelType
      /\ PanelOK([q EXCEPT !.loading = l, !.resolving = v])
  <2> DEFINE x == [q EXCEPT !.loading = l, !.resolving = v]
  <2>1. x \in PanelType BY DEF PanelType
  <2>2. /\ x.shown = q.shown /\ x.sight = q.sight /\ x.seek = q.seek
        /\ x.overtaken <=> q.overtaken
        /\ x.held <=> q.held
        /\ x.cut <=> q.cut
    BY DEF PanelType
  <2> HIDE DEF x
  <2>3. PanelOK(x) BY <1>1, <2>1, <2>2
  <2> QED BY <2>1, <2>3 DEF x
<1>4. [q EXCEPT !.loading = l, !.botJoined = b] \in PanelType
      /\ PanelOK([q EXCEPT !.loading = l, !.botJoined = b])
  <2> DEFINE x == [q EXCEPT !.loading = l, !.botJoined = b]
  <2>1. x \in PanelType BY DEF PanelType
  <2>2. /\ x.shown = q.shown /\ x.sight = q.sight /\ x.seek = q.seek
        /\ x.overtaken <=> q.overtaken
        /\ x.held <=> q.held
        /\ x.cut <=> q.cut
    BY DEF PanelType
  <2> HIDE DEF x
  <2>3. PanelOK(x) BY <1>1, <2>1, <2>2
  <2> QED BY <2>1, <2>3 DEF x
<1>5. [q EXCEPT !.resolving = v, !.loading = l] = [q EXCEPT !.loading = l, !.resolving = v]
  BY DEF PanelType
<1> QED BY <1>2, <1>3, <1>4, <1>5

LEMMA LetGo ==
  ASSUME NEW q \in PanelType, PanelOK(q)
  PROVE  /\ [q EXCEPT !.seek = NoSecond, !.cut = @ \/ q.held] \in PanelType
         /\ PanelOK([q EXCEPT !.seek = NoSecond, !.cut = @ \/ q.held])
<1> DEFINE x == [q EXCEPT !.seek = NoSecond, !.cut = @ \/ q.held]
<1>1. x \in PanelType BY DEF PanelType
<1>2. x.shown = q.shown /\ x.sight = q.sight /\ (x.overtaken <=> q.overtaken)
  BY DEF PanelType
<1>4. (x.held <=> q.held) /\ (q.held => x.cut)
  <2>1. q.cut \in BOOLEAN /\ q.held \in BOOLEAN BY DEF PanelType
  <2>2. x.cut = (q.cut \/ q.held) /\ x.held = q.held BY DEF PanelType
  <2> QED BY <2>1, <2>2
<1> HIDE DEF x
<1>3. PanelOK(x) BY <1>2, <1>4 DEF PanelOK
<1> QED BY <1>1, <1>3 DEF x

LEMMA DeliverResolvedInv ==
  ASSUME PanelsInv, NEW p \in Panel, NEW i \in Slot, DeliverResolved(p, i)
  PROVE  PanelsInv'
<1>1. net[p][i] \in Request /\ panel[p] \in PanelType /\ PanelOK(panel[p]) BY AtPanel
<1>2. PICK n \in 1 .. net[p][i].n : net' = [net EXCEPT ![p][i] = [Sent("add") EXCEPT !.n = n]]
  BY DEF DeliverResolved
<1> DEFINE q == [panel[p] EXCEPT !.loading = TRUE]
           r == [Sent("add") EXCEPT !.n = n]
<1>3. q \in PanelType /\ PanelOK(q) BY <1>1, Flags
<1>4. n \in Nat /\ n >= 1 BY <1>1 DEF Request
<1>5. Sent("add") \in Request BY Plain DEF Kind
<1>6. r \in Request /\ r.n = n BY <1>4, <1>5 DEF Request
<1>7. r.stage = "sent" /\ r.kind = "add" /\ r.state = Blank BY Plain DEF Kind, Request
<1>8. net' = [net EXCEPT ![p][i] = r] /\ panel' = [panel EXCEPT ![p] = q]
  BY <1>2 DEF DeliverResolved
<1>9. UNCHANGED <<current, ses, turns>> /\ member' \in BOOLEAN /\ turns \in 0 .. MaxTurns
  BY DEF DeliverResolved, Unchanged, PanelsInv, PanelsTypeOK
<1> HIDE DEF q, r
<1>10. RequestOK(r) BY <1>4, <1>6, <1>7 DEF RequestOK, Filled
<1> QED BY <1>3, <1>6, <1>8, <1>9, <1>10, PanelStep

LEMMA AnswersInv ==
  ASSUME PanelsInv, NEW p \in Panel, NEW i \in Slot, Delivers(p, i)
  PROVE  PanelsInv'
<1> DEFINE r == net[p][i]
<1>0. panel[p] \in PanelType /\ PanelOK(panel[p]) /\ r \in Request /\ RequestOK(r) BY AtPanel
<1>1. CASE DeliverJoin(p, i)
  <2> DEFINE q == [panel[p] EXCEPT !.loading = FALSE, !.botJoined = TRUE]
  <2>1. q \in PanelType /\ PanelOK(q) BY <1>0, Flags
  <2>2. Deliver(p, i, {"join"}, q) BY <1>1 DEF DeliverJoin
  <2> HIDE DEF q
  <2> QED BY <2>1, <2>2, DeliverStep
<1>2. CASE DeliverState(p, i)
  <2> DEFINE q0 == [panel[p] EXCEPT !.loading = FALSE, !.resolving = @ /\ r.kind # "add"]
             q  == IF r.ok THEN Showing(q0, r.state, r.s) ELSE q0
  <2>1. q0 \in PanelType /\ PanelOK(q0)
    BY <1>0 DEF PanelType, PanelOK
  <2>2. Deliver(p, i, {"add", "item", "remove", "order", "next", "clear", "pause", "resume"}, q)
        /\ r.stage = "answered"
    BY <1>2 DEF DeliverState, Deliver
  <2> HIDE DEF q0
  <2>3. q \in PanelType /\ PanelOK(q) BY <1>0, <2>1, <2>2, ShowingOK
  <2> HIDE DEF q
  <2> QED BY <2>2, <2>3, DeliverStep
<1>3. CASE DeliverSeek(p, i)
  <2> DEFINE q0 == [panel[p] EXCEPT !.seek = NoSecond, !.cut = @ \/ panel[p].held]
             q  == IF r.ok THEN Showing(q0, r.state, r.s) ELSE q0
  <2>1. q0 \in PanelType /\ PanelOK(q0) BY <1>0, LetGo
  <2>2. Deliver(p, i, {"seek"}, q) /\ r.stage = "answered" BY <1>3 DEF DeliverSeek, Deliver
  <2> HIDE DEF q0
  <2>3. q \in PanelType /\ PanelOK(q) BY <1>0, <2>1, <2>2, ShowingOK
  <2> HIDE DEF q
  <2> QED BY <2>2, <2>3, DeliverStep
<1>4. CASE DeliverStatus(p, i)
  <2> DEFINE q == Showing(panel[p], r.state, r.s)
  <2>1. Deliver(p, i, {"status"}, q) /\ r.stage = "answered" BY <1>4 DEF DeliverStatus, Deliver
  <2>2. q \in PanelType /\ PanelOK(q) BY <1>0, <2>1, ShowingOK
  <2> HIDE DEF q
  <2> QED BY <2>1, <2>2, DeliverStep
<1> QED BY <1>1, <1>2, <1>3, <1>4, DeliverResolvedInv DEF Delivers

LEMMA FailInv ==
  ASSUME PanelsInv, NEW p \in Panel, NEW i \in Slot, Fail(p, i)
  PROVE  PanelsInv'
<1> DEFINE r == net[p][i]
           q == AfterError(p, r)
<1>0. panel[p] \in PanelType /\ PanelOK(panel[p]) BY AtPanel
<1>1. q \in PanelType /\ PanelOK(q)
  <2>1. CASE r.kind = "status" BY <1>0, <2>1 DEF AfterError
  <2>2. CASE r.kind = "seek"
    <3>1. q = [panel[p] EXCEPT !.seek = NoSecond, !.cut = @ \/ panel[p].held]
      BY <2>2 DEF AfterError
    <3> QED BY <1>0, <3>1, LetGo
  <2>3. CASE r.kind \in {"resolve", "add"}
    <3>1. q = [panel[p] EXCEPT !.resolving = FALSE, !.loading = @ /\ r.kind # "add"]
      BY <2>3 DEF AfterError
    <3>2. q = [panel[p] EXCEPT !.resolving = FALSE, !.loading = (panel[p].loading /\ r.kind # "add")]
      BY <3>1
    <3>3. (panel[p].loading /\ r.kind # "add") \in BOOLEAN OBVIOUS
    <3> QED BY <1>0, <3>2, <3>3, Flags
  <2>4. CASE r.kind \notin {"status", "seek", "resolve", "add"}
    <3>1. q = [panel[p] EXCEPT !.loading = FALSE] BY <2>4 DEF AfterError
    <3> QED BY <1>0, <3>1, Flags
  <2> QED BY <2>1, <2>2, <2>3, <2>4
<1>2. /\ panel' = [panel EXCEPT ![p] = q] /\ net' = [net EXCEPT ![p][i] = Idle]
      /\ Unchanged /\ Turn
  BY DEF Fail, Refusable
<1> HIDE DEF q
<1> QED BY <1>1, <1>2, AnswerStep

-----------------------------------------------------------------------------
(* The theorems                                                             *)

LEMMA PanelsInductive == PanelsInv /\ [PanelsNext]_panelsVars => PanelsInv'
<1> SUFFICES ASSUME PanelsInv, [PanelsNext]_panelsVars PROVE PanelsInv' OBVIOUS
<1>1. ASSUME NEW p \in Panel, NEW i \in Slot, Routes(p, i) \/ Delivers(p, i) \/ Fail(p, i)
      PROVE  PanelsInv'
  BY <1>1, RoutesInv, AnswersInv, FailInv
<1>2. CASE PanelsNext BY <1>1, <1>2, TrackEndsInv, UserInv, PollInv DEF PanelsNext
<1>3. CASE UNCHANGED panelsVars
  BY <1>3 DEF panelsVars, PanelsInv, PanelsTypeOK, SessionsOK, PanelOK, RequestOK, Known
<1> QED BY <1>2, <1>3

\* The inductive invariant holds.
THEOREM PanelsInvariant == PanelsSpec => []PanelsInv
  BY PanelsInitInv, PanelsInductive, PTL DEF PanelsSpec

\* The variables have their types.
THEOREM PanelsTypeCorrect == PanelsSpec => []PanelsTypeOK
<1>1. PanelsInv => PanelsTypeOK BY DEF PanelsInv
<1> QED BY <1>1, PanelsInvariant, PTL

\* However many panels ask, and in whatever order they are answered: a panel that showed the
\* session there is goes blank only by an answer that another session gave, or none.
THEOREM SightIsKept == PanelsSpec => []LosesSightOnlyByLateAnswers
<1>1. PanelsInv => LosesSightOnlyByLateAnswers
  BY DEF PanelsInv, LosesSightOnlyByLateAnswers, PanelOK, Active
<1> QED BY <1>1, PanelsInvariant, PTL

\* The thumb that a member holds is taken away by the answer to an earlier seek or by a blank
\* panel, never by a poll or the answer to another command.
THEOREM ThumbIsKept == PanelsSpec => []ThumbStaysInHand
<1>1. PanelsInv => ThumbStaysInHand BY DEF PanelsInv, ThumbStaysInHand, PanelOK
<1> QED BY <1>1, PanelsInvariant, PTL

=============================================================================
