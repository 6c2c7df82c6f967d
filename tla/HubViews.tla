------------------------------ MODULE HubViews ------------------------------
(***************************************************************************)
(* What the open pages of one hub show: the list of its channels and the    *)
(* messages of the one that is open.  A page loads lists over HTTP, whose   *)
(* answers come in any order and are put on the screen as they come, loads  *)
(* older pages before the oldest message it shows, and loads again when the *)
(* relay passes on an event of another page.  Key rotations come from       *)
(* ChannelKeys and are a free choice of the sender here.                    *)
(***************************************************************************)
EXTENDS Integers, FiniteSets, Sequences, FiniteSetsExt

CONSTANTS Pages,        \* the browser pages, one socket each
          Channels,     \* text channels
          Limit,        \* messages of a history page
          MaxMessages,  \* bound: messages ever sent
          MaxLoads,     \* bound: requests for lists in flight
          MaxOpens,     \* bound: times pages open the hub
          MaxLosses     \* bound: pages that have lost a request or their socket

ASSUME LimitAssumption == Limit \in Nat \ {0} /\ MaxMessages \in Nat

VARIABLES
  listed,    \* the hub's channels
  history,     \* the stored messages of each channel
  clock, sent, \* the service's clock and the number of stamped messages
  page,        \* whether the page shows the hub
  known,       \* the channels it shows
  open,        \* the channel it has open
  shown, more, \* messages and hasMore of useChannelMessages
  loads,       \* its requests for lists, in flight or answered
  sending,     \* the message it is sending, and whether the hub is still shown
  checks,      \* membership checks of its hub:join that the relay waits for
  subscribed,  \* whether its socket is in the hub's Socket.IO room
  told,        \* events of the relay on their way to it
  opens,       \* times pages opened the hub
  base,        \* what was stored when its list was last loaded anew
  joined,      \* whether its list was put together from what it was loaded for
  lost         \* whether it has lost a request or its socket since it opened

service == <<listed, history, clock, sent>>
view == <<known, open, shown, more>>
socket == <<checks, subscribed>>
notes == <<base, joined, lost>>
viewsVars == <<service, page, view, loads, sending, socket, told, opens, notes>>

None == "none"
NoAnswer == [there |-> FALSE, messages |-> <<>>, more |-> FALSE, read |-> {}, names |-> {}]
NotSending == [stage |-> "no", channel |-> None, at |-> 0, n |-> 0, here |-> FALSE]
Message(s) == [at |-> s.at, n |-> s.n]

Messages == [at : Nat \ {0}, n : Nat]
Kinds == {"list", "created", "open", "again", "sent", "older"}
Answer == [there : BOOLEAN, messages : Seq(Messages), more : BOOLEAN,
           read : SUBSET Messages, names : SUBSET Channels]
Request == [kind : Kinds, channel : Channels \cup {None}, before : Nat, fresh : BOOLEAN,
            answer : Answer]
Sending == [stage : {"no", "posted", "stamped"}, channel : Channels \cup {None}, at : Nat,
            n : Nat, here : BOOLEAN]

ViewsTypeOK ==
  /\ listed \subseteq Channels /\ clock \in Nat /\ sent \in Nat
  /\ history \in [Channels -> SUBSET Messages] /\ \A c \in Channels : IsFiniteSet(history[c])
  /\ page \in [Pages -> BOOLEAN] /\ known \in [Pages -> SUBSET Channels]
  /\ open \in [Pages -> Channels \cup {None}]
  /\ shown \in [Pages -> Seq(Messages)] /\ more \in [Pages -> BOOLEAN]
  /\ loads \in [Pages -> SUBSET Request] /\ sending \in [Pages -> Sending]
  /\ checks \in [Pages -> Nat] /\ subscribed \in [Pages -> BOOLEAN]
  /\ told \in [Pages -> SUBSET [type : {"sent", "created", "rotated"}, channel : Channels]]
  /\ opens \in Nat /\ base \in [Pages -> SUBSET Messages]
  /\ joined \in [Pages -> BOOLEAN] /\ lost \in [Pages -> BOOLEAN]

Elements(s) == {s[i] : i \in DOMAIN s}

\* A request of the page for a list.
Asks(kind, c, before) ==
  [kind |-> kind, channel |-> c, before |-> before, fresh |-> TRUE, answer |-> NoAnswer]
Load(p, q) ==
  /\ MapThenSumSet(LAMBDA o : Cardinality(loads[o]), Pages) < MaxLoads
  /\ loads' = [loads EXCEPT ![p] = @ \cup {q}]

-----------------------------------------------------------------------------
(* The hub service                                                          *)

\* The messages of "set" by time; those of one timestamp in any order.
ByTime(set) ==
  {s \in [1 .. Cardinality(set) -> set] :
     /\ Elements(s) = set
     /\ \A i, j \in DOMAIN s : i < j => s[i] # s[j] /\ s[i].at <= s[j].at}

Newest(s) == IF Len(s) <= Limit THEN s ELSE SubSeq(s, Len(s) - Limit + 1, Len(s))

\* Mutant: the message of the cursor comes again.
PageInclusive(c, before) ==
  LET found == {m \in history[c] : before = 0 \/ m.at <= before}
  IN  {[NoAnswer EXCEPT !.there = TRUE, !.messages = Newest(s),
                        !.more = Len(s) > Limit, !.read = history[c]] : s \in ByTime(found)}

\* GetMessages: the newest messages before the cursor, 0 if there is none, in
\* chronological order, and whether there are older ones.
Page(c, before) ==
  LET found == {m \in history[c] : before = 0 \/ m.at < before}
  IN  {[NoAnswer EXCEPT !.there = TRUE, !.messages = Newest(s),
                        !.more = Len(s) > Limit, !.read = history[c]] : s \in ByTime(found)}

\* ListChannels.
List == [NoAnswer EXCEPT !.there = TRUE, !.names = listed]

OfChannels(q) == q.kind \in {"list", "created"}

\* The service reads what a request asks for.
Answers(p, q) ==
  /\ q \in loads[p] /\ ~q.answer.there
  /\ \E a \in IF OfChannels(q) THEN {List} ELSE Page(q.channel, q.before) :
       loads' = [loads EXCEPT ![p] = (@ \ {q}) \cup {[q EXCEPT !.answer = a]}]
  /\ UNCHANGED <<service, page, view, sending, socket, told, opens, notes>>

\* SendMessage stamps the message
Stamps(p) ==
  /\ sending[p].stage = "posted"
  /\ sent' = sent + 1
  /\ clock' \in {clock, clock + 1} /\ clock' > 0
  /\ sending' = [sending EXCEPT ![p].stage = "stamped", ![p].at = clock', ![p].n = sent']
  /\ UNCHANGED <<listed, history, page, view, loads, socket, told, opens, notes>>

\* and stores it; the page then loads the channel it sent to, which need not be
\* the one it shows by now.
Stores(p) ==
  LET s == sending[p] IN
  /\ s.stage = "stamped"
  /\ history' = [history EXCEPT ![s.channel] = @ \cup {Message(s)}]
  /\ sending' = [sending EXCEPT ![p] = NotSending]
  /\ IF s.here THEN Load(p, Asks("sent", s.channel, 0)) ELSE UNCHANGED loads
  /\ UNCHANGED <<listed, clock, sent, page, view, socket, told, opens, notes>>

-----------------------------------------------------------------------------
(* The relay                                                                *)

\* The fields the pages give an event, and those the relay wants of it.
Carried == [sent |-> {"hubId", "channelId"}, created |-> {"hubId", "channelId"},
            rotated |-> {"hubId", "channelId"}]
Wanted == [sent |-> {"hubId", "channelId", "content"}, created |-> {"hubId", "channelId", "name"},
           rotated |-> {"hubId", "channelId"}]
Relayed(type) == Wanted[type] \subseteq Carried[type]

\* An event of a page reaches the others in the hub's room.
Tell(p, type, c) ==
  told' = [o \in Pages |->
             IF o # p /\ subscribed[p] /\ subscribed[o] /\ Relayed(type)
             THEN told[o] \cup {[type |-> type, channel |-> c]} ELSE told[o]]

\* hub:join enters the socket in the room after the membership check.
CheckPasses(p) ==
  /\ checks[p] > 0
  /\ checks' = [checks EXCEPT ![p] = @ - 1]
  /\ subscribed' = [subscribed EXCEPT ![p] = TRUE]
  /\ UNCHANGED <<service, page, view, loads, sending, told, opens, notes>>

\* Something of the page may get lost.
MayLose(p) == ~lost[p] /\ Cardinality({o \in Pages : lost[o]}) < MaxLosses

\* The membership cannot be checked, and the page never gets to know.
CheckFails(p) ==
  /\ checks[p] > 0 /\ MayLose(p)
  /\ checks' = [checks EXCEPT ![p] = @ - 1]
  /\ lost' = [lost EXCEPT ![p] = TRUE]
  /\ UNCHANGED <<service, page, view, loads, sending, subscribed, told, opens, base, joined>>

\* The socket is dropped and connects again, as a new one in no room: nothing
\* makes the page send hub:join again.
Reconnects(p) ==
  /\ page[p] /\ subscribed[p] /\ MayLose(p)
  /\ subscribed' = [subscribed EXCEPT ![p] = FALSE]
  /\ told' = [told EXCEPT ![p] = {}]
  /\ lost' = [lost EXCEPT ![p] = TRUE]
  /\ UNCHANGED <<service, page, view, loads, sending, checks, opens, base, joined>>

-----------------------------------------------------------------------------
(* The pages                                                                *)

\* Mutant: hub:join is sent the first time only.
OpenHubJoinsOnce(p) ==
  /\ ~page[p] /\ opens < MaxOpens
  /\ page' = [page EXCEPT ![p] = TRUE]
  /\ opens' = opens + 1
  /\ checks' = [checks EXCEPT ![p] = IF opens = 0 THEN 1 ELSE @]
  /\ Load(p, Asks("list", None, 0))
  /\ lost' = [lost EXCEPT ![p] = FALSE]
  /\ UNCHANGED <<service, view, sending, subscribed, told, base, joined>>

\* The page shows the hub: it subscribes and loads the channels.
OpenHub(p) ==
  /\ ~page[p] /\ opens < MaxOpens
  /\ page' = [page EXCEPT ![p] = TRUE]
  /\ opens' = opens + 1
  /\ checks' = [checks EXCEPT ![p] = @ + 1]
  /\ Load(p, Asks("list", None, 0))
  /\ lost' = [lost EXCEPT ![p] = FALSE]
  /\ UNCHANGED <<service, view, sending, subscribed, told, base, joined>>

\* It leaves the hub: what it showed goes, and answers find nobody.  (Only the
\* events that follow some answers would still be sent, and none is relayed.)
CloseHub(p) ==
  /\ page[p]
  /\ page' = [page EXCEPT ![p] = FALSE]
  /\ subscribed' = [subscribed EXCEPT ![p] = FALSE]
  /\ known' = [known EXCEPT ![p] = {}] /\ open' = [open EXCEPT ![p] = None]
  /\ shown' = [shown EXCEPT ![p] = <<>>] /\ more' = [more EXCEPT ![p] = FALSE]
  /\ loads' = [loads EXCEPT ![p] = {}] /\ told' = [told EXCEPT ![p] = {}]
  /\ base' = [base EXCEPT ![p] = {}] /\ joined' = [joined EXCEPT ![p] = FALSE]
  /\ sending' = [sending EXCEPT ![p].here = FALSE]
  /\ UNCHANGED <<service, checks, opens, lost>>

\* A channel is opened; the list of the one before stays until the answer.
OpenChannel(p, c) ==
  /\ page[p] /\ c \in known[p] /\ open[p] # c
  /\ open' = [open EXCEPT ![p] = c]
  /\ Load(p, Asks("open", c, 0))
  /\ joined' = [joined EXCEPT ![p] = FALSE]
  /\ UNCHANGED <<service, page, known, shown, more, sending, socket, told, opens, base, lost>>

\* loadOlderMessages, before the oldest message that is shown.
LoadOlder(p) ==
  /\ page[p] /\ shown[p] # <<>> /\ more[p]
  /\ Load(p, Asks("older", open[p], shown[p][1].at))
  /\ UNCHANGED <<service, page, view, sending, socket, told, opens, notes>>

\* sendMessage: the message is encrypted, which may rotate the key, and posted.
Send(p) ==
  /\ page[p] /\ open[p] # None /\ sending[p] = NotSending
  /\ sent + Cardinality({o \in Pages : sending[o].stage = "posted"}) < MaxMessages
  /\ sending' = [sending EXCEPT ![p] = [NotSending EXCEPT !.stage = "posted", !.channel = open[p], !.here = TRUE]]
  /\ Tell(p, "rotated", open[p]) \/ UNCHANGED told
  /\ UNCHANGED <<service, page, view, loads, socket, opens, notes>>

\* A channel is created; the list is loaded and then the others are told.
OnCreateChannel(p, c) ==
  /\ page[p] /\ c \notin listed
  /\ listed' = listed \cup {c}
  /\ Load(p, Asks("created", c, 0))
  /\ UNCHANGED <<history, clock, sent, page, view, sending, socket, told, opens, notes>>

\* The requests of the page that were under way when an answer is put to use.
Others(p, q) == {[o EXCEPT !.fresh = FALSE] : o \in loads[p] \ {q}}

\* The list of channels arrives.
ShowsChannels(p, q) ==
  /\ q \in loads[p] /\ q.answer.there /\ OfChannels(q)
  /\ known' = [known EXCEPT ![p] = q.answer.names]
  /\ loads' = [loads EXCEPT ![p] = @ \ {q}]
  /\ IF q.kind = "created" THEN Tell(p, "created", q.channel) ELSE UNCHANGED told
  /\ UNCHANGED <<service, page, open, shown, more, sending, socket, opens, notes>>

\* A list of messages arrives that replaces the one shown.
ShowsMessages(p, q) ==
  /\ q \in loads[p] /\ q.answer.there /\ q.kind \in {"open", "again", "sent"}
  /\ shown' = [shown EXCEPT ![p] = q.answer.messages]
  /\ more' = [more EXCEPT ![p] = q.answer.more]
  /\ loads' = [loads EXCEPT ![p] = Others(p, q)]
  /\ IF q.kind = "sent" THEN Tell(p, "sent", q.channel) ELSE UNCHANGED told
  /\ base' = [base EXCEPT ![p] = q.answer.read]
  /\ joined' = [joined EXCEPT ![p] = q.channel = open[p]]
  /\ UNCHANGED <<service, page, known, open, sending, socket, opens, lost>>

\* An older page arrives and is put before the list, whatever that is by now.
ShowsOlder(p, q) ==
  /\ q \in loads[p] /\ q.answer.there /\ q.kind = "older"
  /\ shown' = [shown EXCEPT ![p] = q.answer.messages \o @]
  /\ more' = [more EXCEPT ![p] = q.answer.more]
  /\ loads' = [loads EXCEPT ![p] = Others(p, q)]
  /\ joined' = [joined EXCEPT ![p] = @ /\ q.fresh]
  /\ UNCHANGED <<service, page, known, open, sending, socket, told, opens, base, lost>>

\* A request fails; its list stays as it is, and nobody is told.
LoadFails(p, q) ==
  /\ q \in loads[p] /\ MayLose(p)
  /\ loads' = [loads EXCEPT ![p] = @ \ {q}]
  /\ lost' = [lost EXCEPT ![p] = TRUE]
  /\ UNCHANGED <<service, page, view, sending, socket, told, opens, base, joined>>

\* An event of the relay: a rotation or a message of the channel that is open
\* loads its messages again, a new channel the list of channels.
Hears(p, e) ==
  /\ page[p] /\ e \in told[p]
  /\ told' = [told EXCEPT ![p] = @ \ {e}]
  /\ IF e.type = "created" THEN Load(p, Asks("list", None, 0))
     ELSE IF e.channel = open[p] THEN Load(p, Asks("again", e.channel, 0)) ELSE UNCHANGED loads
  /\ UNCHANGED <<service, page, view, sending, socket, opens, notes>>

-----------------------------------------------------------------------------
ViewsInit ==
  /\ listed \in SUBSET Channels
  /\ history = [c \in Channels |-> {}] /\ clock = 0 /\ sent = 0
  /\ page = [p \in Pages |-> FALSE] /\ known = [p \in Pages |-> {}]
  /\ open = [p \in Pages |-> None] /\ shown = [p \in Pages |-> <<>>]
  /\ more = [p \in Pages |-> FALSE] /\ loads = [p \in Pages |-> {}]
  /\ sending = [p \in Pages |-> NotSending]
  /\ checks = [p \in Pages |-> 0]
  /\ subscribed = [p \in Pages |-> FALSE] /\ told = [p \in Pages |-> {}]
  /\ opens = 0 /\ base = [p \in Pages |-> {}]
  /\ joined = [p \in Pages |-> FALSE]
  /\ lost = [p \in Pages |-> FALSE]

Shows(p) == \E q \in loads[p] : Answers(p, q) \/ ShowsChannels(p, q) \/ ShowsMessages(p, q) \/ ShowsOlder(p, q)
Posts(p) == Stamps(p) \/ Stores(p)
Listens(p) == \E e \in told[p] : Hears(p, e)
Acts(p) ==
  \/ OpenHub(p) \/ CloseHub(p) \/ LoadOlder(p) \/ Send(p)
  \/ \E c \in Channels : OpenChannel(p, c) \/ OnCreateChannel(p, c)
Breaks(p) == CheckFails(p) \/ Reconnects(p) \/ \E q \in loads[p] : LoadFails(p, q)

ViewsNext == \E p \in Pages : CheckPasses(p) \/ Shows(p) \/ Posts(p) \/ Listens(p) \/ Acts(p) \/ Breaks(p)

ViewsSpec == ViewsInit /\ [][ViewsNext]_viewsVars

-----------------------------------------------------------------------------
\* No two messages of the channel carry one timestamp.
Distinct(c) == \A m, o \in history[c] : m.at = o.at => m = o

\* However many messages arrive meanwhile, and wherever one is stored late, the
\* pages of a list that was loaded piece by piece join: it is in order, shows
\* nothing twice, leaves out nothing between its first message and its end, and
\* goes back to the channel's first message when nothing older is offered.  Two
\* messages of one timestamp at a page's edge are the exception.
PagesJoin ==
  \A p \in Pages : joined[p] /\ Distinct(open[p]) =>
    /\ \A i, j \in DOMAIN shown[p] : i < j => shown[p][i].at < shown[p][j].at
    /\ \A m \in base[p] :
         ~more[p] \/ (shown[p] # <<>> /\ m.at >= shown[p][1].at) => m \in Elements(shown[p])

\* A page that shows the hub is subscribed to its events once the relay has checked
\* its memberships, although each hub:join waits for its check and the hub:leave
\* of an earlier visit does not.
OpenHubsListen ==
  \A p \in Pages : page[p] /\ ~lost[p] /\ checks[p] = 0 => subscribed[p]


=============================================================================
