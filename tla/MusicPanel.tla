----------------------------- MODULE MusicPanel -----------------------------
(***************************************************************************)
(* The music panels of a room's members (useMusicMan.ts and                *)
(* MusicManPanel.tsx) and the routes they ask (Routes.ts).                 *)
(*                                                                         *)
(* A panel shows the state that came last, from whichever answer: those of *)
(* its commands and those of its poll, which runs only while it shows      *)
(* something.  Nothing orders the answers.  The event                      *)
(* musicman:session-state, which it listens to as well, never comes: the   *)
(* relay has no handler for it.                                            *)
(*                                                                         *)
(* Abstracted: what a queue holds, its order and its current item are a    *)
(* face; the time that passes in a track is left out, so that a position   *)
(* is where the track was started or sought.  How a bot starts and a track *)
(* ends is MusicSessions' business.  One mode, audio or video.             *)
(***************************************************************************)
EXTENDS Naturals, FiniteSets

CONSTANTS
    Panel,     \* members with the panel open
    Slot,      \* bound: requests of a panel on their way
    Session,   \* bound: sessions made for the room
    NoSession, \* undefined
    Blank,     \* null: no state
    Face,      \* orders and current items of a queue
    Second,    \* positions of the seek bar
    NoSecond,  \* null: nobody seeks
    MAX_QUEUE, \* the panel's
    MaxTurns   \* bound: commands, failed requests and ends of tracks

ASSUME PanelAssumption ==
    /\ NoSession \notin Session
    /\ Session # {}
    /\ 0 \in Second
    /\ NoSecond \notin Second
    /\ MAX_QUEUE \in Nat \ {0}
    /\ MaxTurns \in Nat

VARIABLES
    member,  \* the bot is a member of the hub
    current, \* routes: the session in the map
    ses,     \* what getState() of each session returns
    net,     \* requests and answers on their way
    panel,   \* see PanelsTypeOK
    turns    \* history: for the bound
panelsVars == <<member, current, ses, net, panel, turns>>

State == [tracks: Nat, face: Face, at: Second, playing: BOOLEAN, paused: BOOLEAN]

ASSUME BlankAssumption == Blank \notin State

Kind == {"join", "resolve", "add", "item", "remove", "clear", "order", "next",
         "pause", "resume", "seek", "status"}

\* "starting": at the routes, which wait for the bot.
Request == [
    stage: {"idle", "sent", "starting", "answered"},
    kind:  Kind,
    n:     Nat,                        \* items to add, or room for them
    at:    Second,
    s:     Session \cup {NoSession},   \* history: the session that answered
    ok:    BOOLEAN,
    state: State \cup {Blank}]

PanelsTypeOK ==
    /\ member \in BOOLEAN
    /\ current \in Session \cup {NoSession}
    /\ ses \in [Session -> State \cup {Blank}]
    /\ net \in [Panel -> [Slot -> Request]]
    /\ panel \in [Panel -> [
           shown:     State \cup {Blank},        \* roomStates.get(roomId)
           botJoined: BOOLEAN,                   \* or hasMusicman
           loading:   BOOLEAN,
           resolving: BOOLEAN,
           seek:      Second \cup {NoSecond},    \* seekInteractionRef, with the preview
           held:      BOOLEAN,                   \* the member holds the thumb
           \* history: the session whose state was shown last; the panel went
           \* blank by an answer of no session or another one; an answer to an
           \* earlier seek, or a blank panel, ended the interaction
           sight:     Session \cup {NoSession},
           overtaken: BOOLEAN,
           cut:       BOOLEAN]]
    /\ turns \in 0..MaxTurns

Idle == [stage |-> "idle", kind |-> "status", n |-> 0, at |-> 0, s |-> NoSession,
         ok |-> FALSE, state |-> Blank]

Sent(kind) == [Idle EXCEPT !.stage = "sent", !.kind = kind]

SomeSession == CHOOSE s \in Session : TRUE
FirstSlot == CHOOSE i \in Slot : \A j \in Slot : i <= j

\* The panels are open, and each has asked for the state: of no session, or of
\* one that somebody else started.
PanelsInit ==
    /\ member \in BOOLEAN
    /\ current \in {NoSession} \cup (IF member THEN {SomeSession} ELSE {})
    /\ \E n \in 1..MAX_QUEUE, f \in Face :
           ses = [s \in Session |->
                    IF s # current THEN Blank
                    ELSE [tracks |-> n, face |-> f, at |-> 0, playing |-> TRUE, paused |-> FALSE]]
    /\ net = [p \in Panel |-> [i \in Slot |-> IF i = FirstSlot THEN Sent("status") ELSE Idle]]
    /\ panel = [p \in Panel |->
                  [shown |-> Blank, botJoined |-> member, loading |-> FALSE,
                   resolving |-> FALSE, seek |-> NoSecond, held |-> FALSE,
                   sight |-> NoSession, overtaken |-> FALSE, cut |-> FALSE]]
    /\ turns = 0

Active(p) == panel[p].shown # Blank
Busy(p)   == panel[p].loading \/ panel[p].resolving

\* What the panel offers: the buttons of the bar, the form for links, the queue.
HasBar(p)   == Active(p) /\ ~Busy(p)
HasForm(p)  == panel[p].botJoined \/ Active(p)
HasQueue(p) == Active(p) /\ panel[p].shown.tracks > 0
Room(p)   == MAX_QUEUE - (IF Active(p) THEN panel[p].shown.tracks ELSE 0)

Turn == turns < MaxTurns /\ turns' = turns + 1

-----------------------------------------------------------------------------
(* The panel's commands                                                    *)

Unchanged == UNCHANGED <<member, current, ses>>

\* Puts a request on the way.
Ask(p, r) ==
    /\ \E i \in Slot : net[p][i].stage = "idle"
    /\ LET i == CHOOSE j \in Slot : net[p][j].stage = "idle"
       IN  net' = [net EXCEPT ![p][i] = r]
    /\ Unchanged

Command(p, r) ==
    /\ Turn
    /\ Ask(p, r)
    /\ panel' = [panel EXCEPT ![p].loading = TRUE]

\* The button that asks the bot into the hub.
AddBot(p) ==
    /\ ~HasForm(p) /\ ~Busy(p)
    /\ Command(p, Sent("join"))

\* handleAdd computes the room in the queue it shows and has the link resolved.
\* Enter is not held back by a busy panel.
Add(p) ==
    /\ HasForm(p) /\ Room(p) > 0
    /\ Turn
    /\ Ask(p, [Sent("resolve") EXCEPT !.n = Room(p)])
    /\ panel' = [panel EXCEPT ![p].resolving = TRUE]

\* The buttons of the bar.
PauseResume(p) ==
    /\ HasBar(p)
    /\ Command(p, Sent(IF panel[p].shown.paused THEN "resume" ELSE "pause"))

PlayNext(p) ==
    /\ HasBar(p)
    /\ panel[p].shown.tracks > 1
    /\ Command(p, Sent("next"))

Stop(p) ==
    /\ HasBar(p)
    /\ Command(p, Sent("clear"))

\* The list, which a busy panel leaves alone.
FromQueue(p) ==
    /\ HasQueue(p)
    /\ \/ \E kind \in {"item", "remove", "clear"} : Command(p, Sent(kind))
       \/ panel[p].shown.tracks > 1 /\ Command(p, Sent("order"))

-----------------------------------------------------------------------------
(* The seek bar                                                            *)

SeekOnly(p, r) == panel' = [panel EXCEPT ![p] = r] /\ UNCHANGED net /\ Unchanged

StartSeek(p) ==
    /\ Active(p)
    /\ ~panel[p].held
    /\ Turn
    /\ SeekOnly(p, [panel[p] EXCEPT !.held = TRUE, !.cut = FALSE,
                                    !.seek = IF @ = NoSecond THEN panel[p].shown.at ELSE @])

\* A change begins an interaction when there is none.
ChangeSeek(p) ==
    /\ Active(p)
    /\ panel[p].held
    /\ UNCHANGED turns
    /\ \E sec \in Second : SeekOnly(p, [panel[p] EXCEPT !.seek = sec, !.cut = FALSE])

\* The pointer is released, or the bar loses the focus while the seek of its
\* release is on its way.  The interaction lasts until that is answered.
CommitSeek(p) ==
    /\ IF panel[p].held THEN UNCHANGED turns ELSE Turn
    /\ IF panel[p].seek = NoSecond
       THEN panel[p].held /\ SeekOnly(p, [panel[p] EXCEPT !.held = FALSE, !.cut = FALSE])
       ELSE /\ Ask(p, [Sent("seek") EXCEPT !.at = panel[p].seek])
            /\ panel' = [panel EXCEPT ![p].held = FALSE, ![p].cut = FALSE]

CancelSeek(p) ==
    /\ panel[p].held
    /\ UNCHANGED turns
    /\ SeekOnly(p, [panel[p] EXCEPT !.held = FALSE, !.seek = NoSecond, !.cut = FALSE])

\* Every five seconds, while the panel shows something.
Poll(p) ==
    /\ Active(p)
    /\ \A i \in Slot : net[p][i].stage = "idle" \/ net[p][i].kind # "status"
    /\ Ask(p, Sent("status"))
    /\ UNCHANGED <<panel, turns>>

-----------------------------------------------------------------------------
(* The routes                                                              *)

\* A new track.
Played(st, f) ==
    [st EXCEPT !.face = f, !.at = 0, !.playing = TRUE, !.paused = FALSE]

\* What each route makes of the session's state; Blank is its end.
Added(st, n)  == {[st EXCEPT !.tracks = @ + n]}
ItemPlayed(st) == {Played(st, f) : f \in Face}
Advanced(st) ==
    IF st.tracks = 1 THEN {Blank} ELSE {Played([st EXCEPT !.tracks = @ - 1], f) : f \in Face}
Removed(st) ==
    Advanced(st) \cup
    (IF st.tracks = 1 THEN {} ELSE {[st EXCEPT !.tracks = @ - 1, !.face = f] : f \in Face})
Ordered(st)   == {[st EXCEPT !.face = f] : f \in Face}
Cleared(st)   == {Blank}
\* A bot that does not play does not pause.
Paused(st)    == {[st EXCEPT !.paused = st.playing]}
Resumed(st)   == {[st EXCEPT !.paused = FALSE]}
Sought(st, a) == {[st EXCEPT !.at = a, !.playing = TRUE, !.paused = FALSE]}

Outcomes(r, st) ==
    CASE r.kind = "add"    -> Added(st, r.n)
      [] r.kind = "item"   -> ItemPlayed(st)
      [] r.kind = "remove" -> Removed(st)
      [] r.kind = "next"   -> Advanced(st)
      [] r.kind = "order"  -> Ordered(st)
      [] r.kind = "clear"  -> Cleared(st)
      [] r.kind = "pause"  -> Paused(st)
      [] r.kind = "resume" -> Resumed(st)
      [] r.kind = "seek"   -> Sought(st, r.at)
      [] OTHER             -> {st}

\* A session that has ended keeps the state it ended in.
Becomes(s, st) ==
    IF st = Blank
    THEN current' = NoSession /\ UNCHANGED ses
    ELSE ses' = [ses EXCEPT ![s] = st] /\ UNCHANGED current

Answered(r, s, ok, st) ==
    [r EXCEPT !.stage = "answered", !.s = s, !.ok = ok, !.state = st]

\* /hub/join: the bot is a member.
HubJoin(p, i) ==
    /\ net[p][i].stage = "sent" /\ net[p][i].kind = "join"
    /\ member' = TRUE
    /\ net' = [net EXCEPT ![p][i] = Answered(@, NoSession, TRUE, Blank)]
    /\ UNCHANGED <<current, ses, panel, turns>>

\* /resolve: at least one item was found.
Resolve(p, i) ==
    /\ net[p][i].stage = "sent" /\ net[p][i].kind = "resolve"
    /\ net' = [net EXCEPT ![p][i] = Answered(@, NoSession, TRUE, Blank)]
    /\ UNCHANGED <<panel, turns>> /\ Unchanged

\* Any other request, the session being there.
Serve(p, i) ==
    LET r == net[p][i]
    IN  /\ r.stage = "sent" /\ r.kind \notin {"join", "resolve"}
        /\ current # NoSession
        /\ \E st \in Outcomes(r, ses[current]) :
               /\ Becomes(current, st)
               /\ net' = [net EXCEPT ![p][i] = Answered(@, current, TRUE, st)]
        /\ UNCHANGED <<member, panel, turns>>

\* 404.
NotFound(p, i) ==
    /\ net[p][i].stage = "sent" /\ net[p][i].kind \notin {"join", "resolve", "add"}
    /\ current = NoSession
    /\ net' = [net EXCEPT ![p][i] = Answered(@, NoSession, FALSE, Blank)]
    /\ UNCHANGED <<panel, turns>> /\ Unchanged

\* /queue/add makes the session and waits for its bot.
Create(p, i) ==
    /\ net[p][i].stage = "sent" /\ net[p][i].kind = "add"
    /\ current = NoSession
    /\ \E s \in Session : ses[s] = Blank
    /\ LET s == CHOOSE x \in Session : ses[x] = Blank
       IN  /\ current' = s
           /\ \E f \in Face :
                  ses' = [ses EXCEPT ![s] = [tracks |-> net[p][i].n, face |-> f, at |-> 0,
                                             playing |-> FALSE, paused |-> FALSE]]
           /\ net' = [net EXCEPT ![p][i].stage = "starting", ![p][i].s = s]
    /\ UNCHANGED <<member, panel, turns>>

\* The bot is in: the answer is the session's state, whether it lives or not.
Started(p, i) ==
    LET s  == net[p][i].s
        st == [ses[s] EXCEPT !.playing = TRUE]
    IN  /\ net[p][i].stage = "starting"
        /\ member
        /\ ses' = [ses EXCEPT ![s] = st]
        /\ net' = [net EXCEPT ![p][i] = Answered(@, s, TRUE, st)]
        /\ UNCHANGED <<member, current, panel, turns>>

\* 500: the session is destroyed, unless it is gone.
StartFails(p, i) ==
    /\ net[p][i].stage = "starting"
    /\ current' = IF current = net[p][i].s THEN NoSession ELSE current
    /\ net' = [net EXCEPT ![p][i] = Answered(@, net[p][i].s, FALSE, Blank)]
    /\ UNCHANGED <<member, ses, panel, turns>>

\* A track ends, or the bot leaves.
TrackEnds ==
    /\ Turn
    /\ current # NoSession
    /\ \E st \in Advanced(ses[current]) \cup {Blank} : Becomes(current, st)
    /\ UNCHANGED <<member, net, panel>>

-----------------------------------------------------------------------------
(* The answers                                                             *)

\* The panel with a new state; an empty one ends the interaction of the seek bar.
Showing(q, st, s) ==
    IF st # Blank
    THEN [q EXCEPT !.shown = st, !.sight = s, !.overtaken = FALSE]
    ELSE [q EXCEPT !.shown = Blank, !.seek = NoSecond, !.cut = q.held,
                   !.overtaken = @ \/ (q.shown # Blank /\ s # q.sight)]

Deliver(p, i, kinds, q) ==
    /\ net[p][i].stage = "answered" /\ net[p][i].kind \in kinds
    /\ panel' = [panel EXCEPT ![p] = q]
    /\ net' = [net EXCEPT ![p][i] = Idle]
    /\ UNCHANGED turns /\ Unchanged

DeliverJoin(p, i) ==
    Deliver(p, i, {"join"}, [panel[p] EXCEPT !.loading = FALSE, !.botJoined = TRUE])

\* handleAdd goes on with as many of the items as there was room for.
DeliverResolved(p, i) ==
    LET r == net[p][i]
    IN  /\ r.stage = "answered" /\ r.kind = "resolve"
        /\ \E n \in 1..r.n : net' = [net EXCEPT ![p][i] = [Sent("add") EXCEPT !.n = n]]
        /\ panel' = [panel EXCEPT ![p].loading = TRUE]
        /\ UNCHANGED turns /\ Unchanged

\* An error changes nothing that is shown.
DeliverState(p, i) ==
    LET r == net[p][i]
        q == [panel[p] EXCEPT !.loading = FALSE, !.resolving = @ /\ r.kind # "add"]
    IN  Deliver(p, i, {"add", "item", "remove", "order", "next", "clear", "pause", "resume"},
                IF r.ok THEN Showing(q, r.state, r.s) ELSE q)

\* The seek bar is let go, whatever the answer and whoever holds it.
DeliverSeek(p, i) ==
    LET r == net[p][i]
        q == [panel[p] EXCEPT !.seek = NoSecond, !.cut = @ \/ panel[p].held]
    IN  Deliver(p, i, {"seek"}, IF r.ok THEN Showing(q, r.state, r.s) ELSE q)

\* Mutant: a 404 is an error like any other.
StatusOfTheLiving(p, i) ==
    LET r == net[p][i]
    IN  Deliver(p, i, {"status"}, IF r.ok THEN Showing(panel[p], r.state, r.s) ELSE panel[p])

\* 404 blanks the panel.
DeliverStatus(p, i) ==
    Deliver(p, i, {"status"}, Showing(panel[p], net[p][i].state, net[p][i].s))

\* Mutant: any error of the poll blanks the panel.
ErrorBlanks(p, r) ==
    IF r.kind = "status"
    THEN [panel[p] EXCEPT !.shown = Blank, !.seek = NoSecond, !.cut = panel[p].held]
    ELSE [panel[p] EXCEPT !.loading = FALSE, !.resolving = FALSE]

\* A network error, or another refusal.
AfterError(p, r) ==
    CASE r.kind = "status" -> panel[p]
      [] r.kind = "seek"   -> [panel[p] EXCEPT !.seek = NoSecond, !.cut = @ \/ panel[p].held]
      [] r.kind \in {"resolve", "add"} ->
             [panel[p] EXCEPT !.resolving = FALSE, !.loading = @ /\ r.kind # "add"]
      [] OTHER             -> [panel[p] EXCEPT !.loading = FALSE]

\* A route looks at the token and asks for the room's access before it changes anything.
Refusable(r) == r.stage = "sent"

\* On the way there or back.  A route that waits for a bot goes on.
Fail(p, i) ==
    /\ Refusable(net[p][i]) \/ net[p][i].stage = "answered"
    /\ Turn
    /\ panel' = [panel EXCEPT ![p] = AfterError(p, net[p][i])]
    /\ net' = [net EXCEPT ![p][i] = Idle]
    /\ Unchanged

-----------------------------------------------------------------------------
User(p) ==
    \/ AddBot(p) \/ Add(p)
    \/ PauseResume(p) \/ PlayNext(p) \/ Stop(p) \/ FromQueue(p)
    \/ StartSeek(p) \/ ChangeSeek(p) \/ CommitSeek(p) \/ CancelSeek(p)

Routes(p, i) ==
    \/ HubJoin(p, i) \/ Resolve(p, i) \/ Serve(p, i) \/ NotFound(p, i)
    \/ Create(p, i) \/ Started(p, i) \/ StartFails(p, i)

Delivers(p, i) ==
    \/ DeliverJoin(p, i) \/ DeliverResolved(p, i) \/ DeliverState(p, i)
    \/ DeliverSeek(p, i) \/ DeliverStatus(p, i)

PanelsNext ==
    \/ TrackEnds
    \/ \E p \in Panel :
           \/ User(p)
           \/ Poll(p)
           \/ \E i \in Slot : Routes(p, i) \/ Delivers(p, i) \/ Fail(p, i)

PanelsSpec == PanelsInit /\ [][PanelsNext]_panelsVars

\* The poll's timer fires, requests are served, and answers arrive.
PanelsFairness ==
    \A p \in Panel :
        /\ WF_panelsVars(Poll(p))
        /\ \A i \in Slot : WF_panelsVars(Routes(p, i)) /\ WF_panelsVars(Delivers(p, i))
FairPanelsSpec == PanelsSpec /\ PanelsFairness

-----------------------------------------------------------------------------
\* When nothing changes any more, every panel shows the session as it is, or
\* nothing: no late answer has the last word.
PanelsSettle ==
    <>[](\A p \in Panel : Active(p) => current # NoSession /\ panel[p].shown = ses[current])

\* A panel that has shown the live session loses sight of it (and then polls no
\* more) only by an answer that another session gave, or none.
LosesSightOnlyByLateAnswers ==
    \A p \in Panel :
        ~Active(p) /\ current # NoSession /\ panel[p].sight = current => panel[p].overtaken

\* The thumb stays with the member who holds it, whatever the poll brings, until
\* the answer to an earlier seek takes it away or there is nothing to seek in.
ThumbStaysInHand ==
    \A p \in Panel : panel[p].held /\ panel[p].seek = NoSecond => panel[p].cut

=============================================================================
