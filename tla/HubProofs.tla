------------------------------ MODULE HubProofs ------------------------------
(***************************************************************************)
(* What HubMembership promises, for any number of users, requests, channels *)
(* and invites.  The inductive invariant says what is under way: nobody is  *)
(* a member, or about to be one, before the creation is answered; no        *)
(* removal is of the owner; only the bot's insertions may be late; and      *)
(* every channel that is owed a flag has a removal that will set it.        *)
(* Then what HubViews promises, for any number of pages, channels, messages *)
(* and requests and any size of a history page.                             *)
(***************************************************************************)
EXTENDS HubMembership, HubViews, FiniteSetTheorems, TLAPS

Ops == {"idle", "own", "delete", "insert", "remove", "mark", "flag",
        "issue", "redeem", "commit", "channel", "unchannel"}
Refs == Nat \cup Names \cup Invites
Req == [op : Ops, user : Users, row : Refs, chs : SUBSET (1 .. MaxChannels), late : BOOLEAN]

Typed == TypeOK /\ req \in [Requests -> Req]

Founding(r) == req[r].op = "own"

\* Before the creation is answered there is nothing but the request for it.
Unborn ==
  ~created => /\ \A u \in Users : members[u] = NoRow
              /\ \A i \in Invites : invites[i] = "none"
              /\ \A r \in Requests : req[r].op \in {"idle", "own"}

\* The request for it is one, and it is the owner's.
Founded ==
  /\ \A r \in Requests : Founding(r) => ~created /\ hub # "none" /\ req[r].user = Owner
  /\ \A r, s \in Requests : Founding(r) /\ Founding(s) => r = s
  /\ hub = "none" => ~created

\* The owner stays, and no removal is of the owner.
Owned ==
  /\ created => members[Owner].role = "owner"
  /\ \A r \in Requests : req[r].op = "remove" => req[r].user # Owner

\* A request that found the hub deleted can insert the bot only.
Late ==
  /\ \A r \in Requests : req[r].late =>
       hub = "deleted" /\ (req[r].op = "redeem" \/ (req[r].op = "insert" /\ req[r].user = Bot))
  /\ \A u \in Users \ {Bot} : ~members[u].late

\* A removal that will flag channel c.
Owes(r, c) == req[r].op = "mark" \/ (req[r].op = "flag" /\ c \in req[r].chs)

Owing ==
  /\ \A n \in Names : channels[n] <= chans
  /\ \A c \in owed : c <= chans
  /\ ~failed => \A c \in owed, n \in Names : channels[n] = c => \E r \in Requests : Owes(r, c)

IInv == Typed /\ Unborn /\ Founded /\ Owned /\ Late /\ Owing

-----------------------------------------------------------------------------
(* Requests                                                                 *)

\* What a request becomes, and that the others stay as they are.
LEMMA OneRequest ==
  ASSUME req \in [Requests -> Req], NEW r \in Requests, NEW q \in Req,
         req' = [req EXCEPT ![r] = q]
  PROVE  /\ req' \in [Requests -> Req]
         /\ req'[r] = q
         /\ \A s \in Requests : s # r => req'[s] = req[s]
<1> HIDE DEF Req
<1> QED OBVIOUS

LEMMA StepFields ==
  ASSUME NEW op \in Ops, NEW u \in Users, NEW x \in Refs,
         NEW chs \in SUBSET (1 .. MaxChannels), NEW late \in BOOLEAN
  PROVE  LET q == Step(op, u, x, chs, late)
         IN  q \in Req /\ q.op = op /\ q.user = u /\ q.row = x /\ q.chs = chs /\ q.late = late
BY DEF Step, Req

LEMMA IdleFields ==
  Idle \in Req /\ Idle.op = "idle" /\ Idle.late = FALSE
BY HubAssumption DEF Idle, Step, Req, Ops, Refs

\* A handler that passes its checks disturbs nothing.
LEMMA BeginKeeps ==
  ASSUME IInv, created, NEW r \in Requests,
         NEW op \in {"delete", "insert", "remove", "issue", "redeem", "channel", "unchannel"},
         NEW u \in Users, NEW x \in Refs, NEW late \in BOOLEAN,
         Begins(r, Step(op, u, x, {}, late)),
         UNCHANGED <<tables, created, owed, failed>>,
         op = "remove" => u # Owner,
         late => hub = "deleted" /\ (op = "redeem" \/ (op = "insert" /\ u = Bot))
  PROVE  IInv'
<1> DEFINE q == Step(op, u, x, {}, late)
<1>1. q \in Req /\ q.op = op /\ q.user = u /\ q.late = late
  BY StepFields, op \in Ops DEF Ops
<1>2. /\ req' \in [Requests -> Req] /\ req'[r] = q
      /\ \A s \in Requests : s # r => req'[s] = req[s]
  <2> HIDE DEF q
  <2>1. req' = [req EXCEPT ![r] = q] BY DEF Begins, q
  <2> QED BY <1>1, <2>1, OneRequest DEF IInv, Typed
<1>3. req[r].op = "idle"
  BY IdleFields DEF Begins
<1> HIDE DEF q
<1>4. Typed'
  BY <1>2 DEF IInv, Typed, TypeOK, tables
<1>5. Unborn' /\ Founded'
  BY <1>1, <1>2 DEF IInv, Unborn, Founded, Founding, tables
<1>6. Owned' /\ Late'
  BY <1>1, <1>2 DEF IInv, Owned, Late, tables
<1>7. Owing'
  BY <1>1, <1>2, <1>3 DEF IInv, Owing, Owes, tables
<1> QED BY <1>4, <1>5, <1>6, <1>7 DEF IInv

\* What is left when a request ends: the others, none of them new.
LEMMA Ended ==
  ASSUME IInv, NEW r \in Requests, Ends(r)
  PROVE  /\ req' \in [Requests -> Req]
         /\ req'[r].op = "idle" /\ ~req'[r].late
         /\ \A s \in Requests : s # r => req'[s] = req[s]
<1>1. /\ req' \in [Requests -> Req] /\ req'[r] = Idle
      /\ \A s \in Requests : s # r => req'[s] = req[s]
  BY OneRequest, IdleFields DEF IInv, Typed, Ends
<1> QED BY <1>1, IdleFields

\* Only the request for the creation runs before it is answered.
LEMMA Born ==
  ASSUME IInv, NEW r \in Requests, req[r].op \notin {"idle", "own"}
  PROVE  created
BY DEF IInv, Unborn

\* A request other than a removal's ends, and its statement keeps the tables in order.
LEMMA EndKeeps ==
  ASSUME IInv, NEW r \in Requests, Ends(r), req[r].op \notin {"mark", "flag"} \/ failed',
         failed' \in BOOLEAN, failed => failed',
         TypeOK', Unborn', hub = "deleted" => hub' = "deleted",
         hub # "none" => hub' # "none",
         created' = created \/ (created' /\ Founding(r)), hub' = "none" => ~created',
         created' => members'[Owner].role = "owner",
         \A u \in Users \ {Bot} : ~members'[u].late,
         UNCHANGED owed,
         \A n \in Names : channels'[n] <= chans',
         chans <= chans',
         \A n \in Names : channels'[n] \in owed => \E m \in Names : channels[m] = channels'[n]
  PROVE  IInv'
<1>1. /\ req' \in [Requests -> Req]
      /\ req'[r].op = "idle" /\ ~req'[r].late
      /\ \A s \in Requests : s # r => req'[s] = req[s]
  BY Ended
<1>2. Typed'
  BY <1>1 DEF Typed
<1>3. Founded'
  BY <1>1 DEF IInv, Founded, Founding
<1>4. Owned' /\ Late'
  BY <1>1 DEF IInv, Owned, Late
<1>5. Owing'
  <2>1. \A c \in owed : c <= chans'
    BY DEF IInv, Owing, Typed, TypeOK
  <2>2. ASSUME ~failed', NEW c \in owed, NEW n \in Names, channels'[n] = c
        PROVE  \E s \in Requests : Owes(s, c)'
    <3>1. PICK m \in Names : channels[m] = c BY <2>2
    <3>2. PICK s \in Requests : Owes(s, c) BY <2>2, <3>1 DEF IInv, Owing
    <3>3. s # r BY <2>2, <3>2 DEF Owes
    <3> QED BY <1>1, <3>2, <3>3 DEF Owes
  <2> QED BY <2>1, <2>2 DEF Owing
<1> QED BY <1>2, <1>3, <1>4, <1>5 DEF IInv

-----------------------------------------------------------------------------
(* The steps                                                                *)

LEMMA InitInv == Init => IInv
<1> SUFFICES ASSUME Init PROVE IInv OBVIOUS
<1>1. \A r \in Requests : req[r].op = "idle" /\ ~req[r].late
  BY IdleFields DEF Init
<1>2. Typed
  <2>1. req \in [Requests -> Req] BY IdleFields DEF Init
  <2>2. NoRow \in Rows BY HubAssumption DEF Rows, NoRow
  <2>3. members \in [Users -> Rows] BY <2>2 DEF Init
  <2>4. channels \in [Names -> 0 .. MaxChannels] BY HubAssumption DEF Init
  <2>5. invites \in [Invites -> {"none", "valid", "expired"}] BY DEF Init
  <2>6. hub \in {"none", "there", "deleted"} /\ flags = {} /\ owed = {} BY DEF Init
  <2>7. created \in BOOLEAN /\ failed \in BOOLEAN BY DEF Init
  <2>8. rows \in 0 .. MaxRows /\ chans \in 0 .. MaxChannels
    <3>1. rows = 0 /\ chans = 0 BY DEF Init
    <3> QED BY <3>1, HubAssumption
  <2>9. TypeOK BY <2>3, <2>4, <2>5, <2>6, <2>7, <2>8 DEF TypeOK
  <2> QED BY <2>1, <2>9 DEF Typed
<1>3. Unborn /\ Founded BY <1>1 DEF Init, Unborn, Founded, Founding
<1>4. Owned /\ Late BY <1>1 DEF Init, Owned, Late, NoRow
<1>5. Owing BY DEF Init, Owing
<1> QED BY <1>2, <1>3, <1>4, <1>5 DEF IInv

\* The hub is inserted: nothing else is known of it yet.
LEMMA CreateHubKeeps ==
  ASSUME IInv, NEW r \in Requests, CreateHub(r)
  PROVE  IInv'
<1> DEFINE q == Step("own", Owner, 0, {}, FALSE)
<1>1. q \in Req /\ q.op = "own" /\ q.user = Owner /\ q.late = FALSE
  BY HubAssumption DEF q, Step, Req, Ops, Refs
<1>2. /\ req' \in [Requests -> Req] /\ req'[r] = q
      /\ \A s \in Requests : s # r => req'[s] = req[s]
  <2> HIDE DEF q
  <2>1. req' = [req EXCEPT ![r] = q] BY DEF CreateHub, Begins, q
  <2> QED BY <1>1, <2>1, OneRequest DEF IInv, Typed
<1> HIDE DEF q
<1>3. hub = "none" /\ hub' = "there" /\ ~created /\ ~created'
  BY DEF IInv, Founded, CreateHub
<1>4. \A s \in Requests : req[s].op = "idle"
  BY <1>3 DEF IInv, Unborn, Founded, Founding
<1>5. Typed'
  BY <1>2 DEF IInv, Typed, TypeOK, CreateHub
<1>6. Unborn' /\ Founded'
  BY <1>1, <1>2, <1>3, <1>4 DEF IInv, Unborn, Founded, Founding, CreateHub
<1>7. Owned' /\ Late'
  BY <1>1, <1>2, <1>3, <1>4 DEF IInv, Owned, Late, CreateHub
<1>8. Owing'
  BY <1>1, <1>2, <1>4 DEF IInv, Owing, Owes, CreateHub
<1> QED BY <1>5, <1>6, <1>7, <1>8 DEF IInv

\* The row an insertion adds.
LEMMA NewRow ==
  ASSUME IInv, NEW role \in {"owner", "member", "bot"}, NEW late \in BOOLEAN, rows < MaxRows
  PROVE  /\ Row(role, late) \in Rows /\ Row(role, late).role = role
         /\ Row(role, late).late = late /\ Row(role, late) # NoRow
BY HubAssumption DEF IInv, Typed, TypeOK, Row, Rows, NoRow

\* What an insertion does to the memberships.
LEMMA InsertKeeps ==
  ASSUME IInv, NEW r \in Requests, NEW role \in {"owner", "member", "bot"}, Insert(r, role)
  PROVE  /\ members' \in [Users -> Rows] /\ rows' \in 0 .. MaxRows
         /\ \A u \in Users : members'[u] = members[u]
                             \/ /\ u = req[r].user /\ members[u] = NoRow
                                /\ members'[u].role = role /\ members'[u].late = req[r].late
         /\ members[req[r].user] = NoRow => members'[req[r].user].role = role
<1> DEFINE w == req[r].user
           late == req[r].late
<1>1. w \in Users /\ late \in BOOLEAN BY DEF IInv, Typed, Req
<1>2. CASE IsMember(w)
  BY <1>2 DEF Insert, IsMember, IInv, Typed, TypeOK
<1>3. CASE ~IsMember(w)
  <2> DEFINE row == Row(role, late)
  <2>1. rows < MaxRows /\ rows' = rows + 1 /\ members' = [members EXCEPT ![w] = row]
    BY <1>3 DEF Insert
  <2>2. row \in Rows /\ row.role = role /\ row.late = late
    BY <1>1, <2>1, NewRow
  <2>3. rows' \in 0 .. MaxRows BY <2>1, HubAssumption DEF IInv, Typed, TypeOK
  <2>4. members[w] = NoRow BY <1>3 DEF IsMember
  <2> HIDE DEF row, w, late
  <2>5. members' \in [Users -> Rows] /\ members'[w] = row
        /\ \A u \in Users : u # w => members'[u] = members[u]
    BY <1>1, <2>1, <2>2 DEF IInv, Typed, TypeOK
  <2>6. QED BY <2>2, <2>3, <2>4, <2>5 DEF w, late
<1> QED BY <1>2, <1>3

LEMMA OwnerJoinsKeeps ==
  ASSUME IInv, NEW r \in Requests, OwnerJoins(r)
  PROVE  IInv'
<1>1. /\ Founding(r) /\ Ends(r) /\ Insert(r, "owner") /\ created'
      /\ UNCHANGED <<hub, channels, chans, flags, owed, failed, invites>>
  BY DEF OwnerJoins, Goes, Founding
<1>2. ~created /\ hub # "none" /\ req[r].user = Owner /\ members[Owner] = NoRow /\ ~req[r].late
  BY <1>1, HubAssumption DEF IInv, Founded, Founding, Unborn, Late
<1>3. /\ members' \in [Users -> Rows] /\ rows' \in 0 .. MaxRows
      /\ \A u \in Users : members'[u] = members[u] \/ members'[u].late = req[r].late
      /\ members'[Owner].role = "owner"
  BY <1>1, <1>2, InsertKeeps
<1>4. TypeOK' BY <1>1, <1>3 DEF IInv, Typed, TypeOK
<1>5. \A u \in Users \ {Bot} : ~members'[u].late
  BY <1>2, <1>3 DEF IInv, Late
<1>6. Unborn' BY <1>1 DEF Unborn
<1>7. \A n \in Names : channels[n] <= chans BY DEF IInv, Owing
<1>8. chans <= chans BY DEF IInv, Typed, TypeOK
<1>9. failed \in BOOLEAN BY DEF IInv, Typed, TypeOK
<1> QED BY <1>1, <1>2, <1>3, <1>4, <1>5, <1>6, <1>7, <1>8, <1>9, EndKeeps DEF Founding

\* A member there is only after the creation was answered.
LEMMA Members ==
  ASSUME IInv, NEW u \in Users, IsMember(u)
  PROVE  created /\ members[u].id \in Nat /\ (members[u].role # "owner" => u # Owner)
<1>1. members[u] \in Rows BY DEF IInv, Typed, TypeOK
<1>2. members[u].id \in Nat BY <1>1, HubAssumption DEF Rows
<1>3. created BY DEF IInv, Unborn, IsMember
<1> QED BY <1>2, <1>3 DEF IInv, Owned

LEMMA Editors ==
  ASSUME IInv, NEW u \in Users, MayEdit(u)
  PROVE  created
BY Members DEF MayEdit, IsMember, NoRow

\* The handlers that pass their checks.
LEMMA BeginsKeep ==
  ASSUME IInv, NEW r \in Requests, NEW u \in Users
  PROVE  /\ DeleteHub(r) => IInv'
         /\ BotJoinHub(r) => IInv'
         /\ InviteMember(r, u) => IInv'
         /\ KickMember(r, u) => IInv'
         /\ LeaveHub(r, u) => IInv'
         /\ \A i \in Invites : (CreateInvite(r, u, i) => IInv') /\ (RedeemInvite(r, u, i) => IInv')
         /\ \A n \in Names : (CreateChannel(r, u, n) => IInv') /\ (DeleteChannel(r, u, n) => IInv')
<1>0. 0 \in Refs /\ Owner \in Users /\ Bot \in Users /\ Bot # Owner BY HubAssumption DEF Refs
<1>1. ASSUME DeleteHub(r) PROVE IInv'
  BY <1>0, <1>1, BeginKeeps DEF DeleteHub
<1>2. ASSUME BotJoinHub(r) PROVE IInv'
  BY <1>0, <1>2, BeginKeeps DEF BotJoinHub, Deleted
<1>3. ASSUME InviteMember(r, u) PROVE IInv'
  <2>1. ~Deleted /\ created BY <1>3 DEF InviteMember, Deleted
  <2>2. Begins(r, Step("insert", u, 0, {}, FALSE)) BY <1>3, <2>1 DEF InviteMember, Deleted
  <2> QED BY <1>0, <1>3, <2>1, <2>2, BeginKeeps DEF InviteMember
<1>4. ASSUME KickMember(r, u) PROVE IInv'
  <2>1. created /\ u # Owner /\ members[u].id \in Refs BY <1>4, Members DEF KickMember, Refs
  <2> QED BY <1>4, <2>1, BeginKeeps DEF KickMember
<1>5. ASSUME LeaveHub(r, u) PROVE IInv'
  <2>1. created /\ u # Owner /\ members[u].id \in Refs BY <1>5, Members DEF LeaveHub, Refs
  <2> QED BY <1>5, <2>1, BeginKeeps DEF LeaveHub
<1>6. ASSUME NEW i \in Invites, CreateInvite(r, u, i) PROVE IInv'
  <2>1. created /\ i \in Refs BY <1>6, Members DEF CreateInvite, Refs
  <2> QED BY <1>6, <2>1, BeginKeeps DEF CreateInvite
<1>7. ASSUME NEW i \in Invites, RedeemInvite(r, u, i) PROVE IInv'
  <2>1. created /\ i \in Refs BY <1>7 DEF RedeemInvite, Refs, IInv, Unborn
  <2> QED BY <1>7, <2>1, BeginKeeps DEF RedeemInvite, Deleted
<1>8. ASSUME NEW n \in Names, CreateChannel(r, u, n) PROVE IInv'
  <2>1. created /\ n \in Refs BY <1>8, Editors DEF CreateChannel, Refs
  <2> QED BY <1>8, <2>1, BeginKeeps DEF CreateChannel
<1>9. ASSUME NEW n \in Names, DeleteChannel(r, u, n) PROVE IInv'
  <2>1. created BY <1>9, Editors DEF DeleteChannel
  <2>2. channels[n] \in Refs BY <1>9, HubAssumption DEF IInv, Typed, TypeOK, Refs
  <2> QED BY <1>9, <2>1, <2>2, BeginKeeps DEF DeleteChannel
<1> QED BY <1>1, <1>2, <1>3, <1>4, <1>5, <1>6, <1>7, <1>8, <1>9

\* What holds of tables a statement leaves alone.
LEMMA Kept ==
  ASSUME IInv
  PROVE  /\ failed \in BOOLEAN /\ chans <= chans
         /\ hub = "none" => ~created
         /\ created => members[Owner].role = "owner" /\ members[Owner] # NoRow
         /\ \A u \in Users \ {Bot} : ~members[u].late
         /\ \A n \in Names : channels[n] <= chans
BY DEF IInv, Typed, TypeOK, Founded, Owned, Late, Owing, NoRow

LEMMA HubGoesKeeps ==
  ASSUME IInv, NEW r \in Requests, HubGoes(r)
  PROVE  IInv'
<1>1. /\ req[r].op = "delete" /\ Ends(r) /\ hub' = "deleted"
      /\ UNCHANGED <<created, members, rows, channels, chans, flags, owed, failed, invites>>
  BY DEF HubGoes, Goes
<1>2. TypeOK' BY <1>1 DEF IInv, Typed, TypeOK
<1>3. created BY <1>1, Born
<1> QED BY <1>1, <1>2, <1>3, Kept, EndKeeps DEF Unborn

\* A user joins who may: not the owner, and late only if it is the bot.
LEMMA JoinKeeps ==
  ASSUME IInv, NEW r \in Requests, NEW role \in {"member", "bot"}, Insert(r, role),
         req[r].op \in {"insert", "commit"}, Ends(r),
         UNCHANGED <<hub, created, channels, chans, flags, owed, failed, invites>>
  PROVE  IInv'
<1>1. created /\ members[Owner].role = "owner" /\ members[Owner] # NoRow
  BY Born, Kept
<1>2. /\ members' \in [Users -> Rows] /\ rows' \in 0 .. MaxRows
      /\ \A u \in Users : members'[u] = members[u]
                          \/ /\ u = req[r].user /\ members[u] = NoRow
                             /\ members'[u].role = role /\ members'[u].late = req[r].late
  BY InsertKeeps
<1>3. members'[Owner].role = "owner" BY <1>1, <1>2, HubAssumption
<1>4. req[r].late => req[r].user = Bot BY DEF IInv, Late
<1>5. \A u \in Users \ {Bot} : ~members'[u].late BY <1>2, <1>4, Kept
<1>6. TypeOK' BY <1>2 DEF IInv, Typed, TypeOK
<1> QED BY <1>1, <1>3, <1>5, <1>6, Kept, EndKeeps DEF Unborn

LEMMA IssuesKeeps ==
  ASSUME IInv, NEW r \in Requests, Issues(r)
  PROVE  IInv'
<1>1. /\ req[r].op = "issue" /\ Ends(r)
      /\ invites' = [invites EXCEPT ![req[r].row] = "valid"]
      /\ UNCHANGED <<hub, created, members, rows, channels, chans, flags, owed, failed>>
  BY DEF Issues, Goes
<1>2. TypeOK' BY <1>1 DEF IInv, Typed, TypeOK
<1>3. created BY <1>1, Born
<1> QED BY <1>1, <1>2, <1>3, Kept, EndKeeps DEF Unborn

\* A new channel has a new id, which no removal owes a flag.
LEMMA ChannelInsertsKeeps ==
  ASSUME IInv, NEW r \in Requests, ChannelInserts(r)
  PROVE  IInv'
<1> DEFINE n == req[r].row
<1>1. /\ req[r].op = "channel" /\ Ends(r)
      /\ \/ UNCHANGED <<channels, chans>>
         \/ /\ chans < MaxChannels /\ chans' = chans + 1
            /\ channels' = [channels EXCEPT ![n] = chans + 1]
      /\ UNCHANGED <<hub, created, members, rows, flags, owed, failed, invites>>
  BY DEF ChannelInserts, Goes
<1> HIDE DEF n
<1>2. /\ channels \in [Names -> 0 .. MaxChannels] /\ chans \in 0 .. MaxChannels
      /\ MaxChannels \in Nat /\ \A c \in owed : c <= chans
      /\ \A m \in Names : channels[m] <= chans
  BY HubAssumption DEF IInv, Typed, TypeOK, Owing
<1>3. /\ channels' \in [Names -> 0 .. MaxChannels] /\ chans' \in 0 .. MaxChannels
      /\ chans <= chans' /\ \A m \in Names : channels'[m] <= chans'
      /\ \A m \in Names : channels'[m] \in owed => \E o \in Names : channels[o] = channels'[m]
  <2>1. CASE UNCHANGED <<channels, chans>> BY <1>2, <2>1
  <2>2. CASE /\ chans < MaxChannels /\ chans' = chans + 1
             /\ channels' = [channels EXCEPT ![n] = chans + 1]
    <3>1. chans' \in 0 .. MaxChannels /\ chans <= chans' BY <1>2, <2>2
    <3>2. \A m \in Names : channels'[m] = IF m = n THEN chans + 1 ELSE channels[m]
      BY <1>2, <2>2
    <3>3. channels' \in [Names -> 0 .. MaxChannels]
      <4> DEFINE c == chans + 1
      <4>1. c \in 0 .. MaxChannels BY <1>2, <2>2
      <4>2. channels' = [channels EXCEPT ![n] = c] BY <2>2
      <4> HIDE DEF c
      <4> QED BY <1>2, <4>1, <4>2
    <3>4. chans + 1 \notin owed BY <1>2
    <3> QED BY <1>2, <2>2, <3>1, <3>2, <3>3, <3>4
  <2> QED BY <1>1, <2>1, <2>2
<1>4. TypeOK' BY <1>1, <1>3 DEF IInv, Typed, TypeOK
<1>5. created BY <1>1, Born
<1> QED BY <1>1, <1>3, <1>4, <1>5, Kept, EndKeeps DEF Unborn

LEMMA ChannelGoesKeeps ==
  ASSUME IInv, NEW r \in Requests, ChannelGoes(r)
  PROVE  IInv'
<1>1. /\ req[r].op = "unchannel" /\ Ends(r)
      /\ channels' = [n \in Names |-> IF channels[n] = req[r].row THEN 0 ELSE channels[n]]
      /\ UNCHANGED <<hub, created, members, rows, chans, flags, owed, failed, invites>>
  BY DEF ChannelGoes, Goes
<1>2. /\ channels \in [Names -> 0 .. MaxChannels] /\ chans \in 0 .. MaxChannels
      /\ MaxChannels \in Nat /\ 0 \notin owed
  BY HubAssumption DEF IInv, Typed, TypeOK
<1>3. \A n \in Names : channels'[n] = 0 \/ channels'[n] = channels[n]
  BY <1>1
<1>4. channels' \in [Names -> 0 .. MaxChannels] BY <1>1, <1>2
<1>5. \A n \in Names : channels'[n] <= chans BY <1>2, <1>3, Kept
<1>6. \A n \in Names : channels'[n] \in owed => \E m \in Names : channels[m] = channels'[n]
  BY <1>2, <1>3
<1>7. TypeOK' BY <1>1, <1>4 DEF IInv, Typed, TypeOK
<1>8. created BY <1>1, Born
<1> QED BY <1>1, <1>5, <1>6, <1>7, <1>8, Kept, EndKeeps DEF Unborn

\* A removal that fails owes what it has not flagged for good.
LEMMA FailsKeeps ==
  ASSUME IInv, NEW r \in Requests, Fails(r)
  PROVE  IInv'
<1>1. /\ Ends(r) /\ failed' = (failed \/ req[r].op \in {"mark", "flag"})
      /\ UNCHANGED <<hub, members, rows, channels, chans, flags, invites, created, owed>>
  BY DEF Fails, tables
<1>2. failed' \in BOOLEAN /\ (failed => failed') /\ (req[r].op \notin {"mark", "flag"} \/ failed')
  BY <1>1
<1>3. TypeOK' BY <1>1, <1>2 DEF IInv, Typed, TypeOK
<1>4. Unborn'
  BY <1>1, Ended DEF IInv, Unborn
<1> HIDE DEF TypeOK
<1> QED BY <1>1, <1>2, <1>3, <1>4, Kept, EndKeeps

\* A removal that has flagged all it listed owes nothing to the channels there are.
LEMMA RemovalEndsKeeps ==
  ASSUME IInv, NEW r \in Requests, RemovalEnds(r)
  PROVE  IInv'
<1>1. /\ req[r].op = "flag" /\ req[r].chs = {} /\ Ends(r)
      /\ UNCHANGED <<hub, members, rows, channels, chans, flags, invites, created, owed, failed>>
  BY DEF RemovalEnds, Goes, tables
<1>2. /\ req' \in [Requests -> Req]
      /\ req'[r].op = "idle" /\ ~req'[r].late
      /\ \A s \in Requests : s # r => req'[s] = req[s]
  BY <1>1, Ended
<1>3. Typed' BY <1>1, <1>2 DEF IInv, Typed, TypeOK
<1>4. Unborn' /\ Founded' BY <1>1, <1>2 DEF IInv, Unborn, Founded, Founding
<1>5. Owned' /\ Late' BY <1>1, <1>2 DEF IInv, Owned, Late
<1>7. Owing'
  <2>1. ASSUME ~failed, NEW c \in owed, NEW n \in Names, channels[n] = c
        PROVE  \E s \in Requests : Owes(s, c)'
    <3>1. PICK s \in Requests : Owes(s, c) BY <2>1 DEF IInv, Owing
    <3>2. s # r BY <1>1, <3>1 DEF Owes
    <3> QED BY <1>2, <3>1, <3>2 DEF Owes
  <2> QED BY <1>1, <2>1 DEF IInv, Owing
<1> QED BY <1>3, <1>4, <1>5, <1>7 DEF IInv

\* One request goes on to its next statement.
LEMMA NextStatement ==
  ASSUME IInv, NEW r \in Requests, NEW op \in Ops, NEW chs \in SUBSET (1 .. MaxChannels),
         req' = [req EXCEPT ![r] = [req[r] EXCEPT !.op = op, !.chs = chs]]
  PROVE  /\ req' \in [Requests -> Req]
         /\ req'[r].op = op /\ req'[r].chs = chs
         /\ req'[r].user = req[r].user /\ req'[r].late = req[r].late
         /\ \A s \in Requests : s # r => req'[s] = req[s]
<1> DEFINE q == [req[r] EXCEPT !.op = op, !.chs = chs]
<1>1. req[r] \in Req BY DEF IInv, Typed
<1>2. q \in Req /\ q.op = op /\ q.chs = chs /\ q.user = req[r].user /\ q.late = req[r].late
  BY <1>1 DEF Req
<1> HIDE DEF q
<1>3. req' = [req EXCEPT ![r] = q] BY DEF q
<1>4. req' \in [Requests -> Req] /\ req'[r] = q /\ \A s \in Requests : s # r => req'[s] = req[s]
  BY <1>2, <1>3, OneRequest DEF IInv, Typed
<1> QED BY <1>2, <1>4

\* The membership goes, and the request that removed it owes all channels a flag.
LEMMA RemovesKeeps ==
  ASSUME IInv, NEW r \in Requests, Removes(r)
  PROVE  IInv'
<1> DEFINE w == req[r].user
<1>1. /\ req[r].op = "remove"
      /\ members' = members \/ members' = [members EXCEPT ![w] = NoRow]
      /\ owed' = owed \cup Existing
      /\ UNCHANGED <<hub, created, rows, channels, chans, flags, failed, invites>>
  BY DEF Removes, Goes
<1>2. w \in Users /\ w # Owner BY <1>1 DEF IInv, Typed, Req, Owned
<1> DEFINE chs == req[r].chs
<1>3. req' = [req EXCEPT ![r] = [req[r] EXCEPT !.op = "mark", !.chs = chs]]
  <2>1. req[r] \in Req BY DEF IInv, Typed
  <2>2. [req[r] EXCEPT !.op = "mark"] = [req[r] EXCEPT !.op = "mark", !.chs = chs]
    BY <2>1 DEF Req
  <2> QED BY <2>2 DEF Removes
<1>4. chs \in SUBSET (1 .. MaxChannels) /\ "mark" \in Ops BY DEF IInv, Typed, Req, Ops
<1>5. /\ req' \in [Requests -> Req]
      /\ req'[r].op = "mark"
      /\ req'[r].user = w /\ req'[r].late = req[r].late
      /\ \A s \in Requests : s # r => req'[s] = req[s]
  <2> HIDE DEF chs
  <2> QED BY <1>3, <1>4, NextStatement
<1> HIDE DEF w
<1>6. NoRow \in Rows /\ ~NoRow.late BY HubAssumption DEF Rows, NoRow
<1>7. /\ members' \in [Users -> Rows]
      /\ \A u \in Users : members'[u] = members[u] \/ (u = w /\ members'[u] = NoRow)
  BY <1>1, <1>2, <1>6 DEF IInv, Typed, TypeOK
<1>8. Existing \subseteq 1 .. MaxChannels /\ \A c \in Existing : c <= chans
  BY HubAssumption DEF Existing, IInv, Typed, TypeOK, Owing
<1>9. Typed'
  BY <1>1, <1>5, <1>7, <1>8 DEF IInv, Typed, TypeOK
<1>10. Unborn' /\ Founded'
  BY <1>1, <1>5, Born DEF IInv, Unborn, Founded, Founding
<1>11. Owned'
  BY <1>1, <1>2, <1>5, <1>7, HubAssumption DEF IInv, Owned
<1>12. Late'
  BY <1>1, <1>5, <1>6, <1>7 DEF IInv, Late
<1>13. Owing'
  <2>1. \A c : Owes(r, c)' BY <1>5 DEF Owes
  <2> QED BY <1>1, <1>8, <2>1 DEF IInv, Owing
<1> QED BY <1>9, <1>10, <1>11, <1>12, <1>13 DEF IInv

\* The channels are listed: every one that is there and is owed a flag is in the list.
LEMMA MarksKeeps ==
  ASSUME IInv, NEW r \in Requests, Marks(r)
  PROVE  IInv'
<1>1. /\ req[r].op = "mark"
      /\ UNCHANGED <<hub, members, rows, channels, chans, flags, invites, created, owed, failed>>
  BY DEF Marks, Goes, tables
<1>2. Existing \in SUBSET (1 .. MaxChannels)
  BY HubAssumption DEF Existing, IInv, Typed, TypeOK
<1>3. /\ req' \in [Requests -> Req]
      /\ req'[r].op = "flag" /\ req'[r].chs = Existing
      /\ req'[r].user = req[r].user /\ req'[r].late = req[r].late
      /\ \A s \in Requests : s # r => req'[s] = req[s]
  <2>1. req' = [req EXCEPT ![r] = [req[r] EXCEPT !.op = "flag", !.chs = Existing]]
    <3>1. [req EXCEPT ![r].op = "flag", ![r].chs = Existing]
            = [req EXCEPT ![r] = [req[r] EXCEPT !.op = "flag", !.chs = Existing]]
      BY DEF IInv, Typed, Req
    <3> QED BY <3>1 DEF Marks
  <2>2. "flag" \in Ops BY DEF Ops
  <2> HIDE DEF Existing
  <2> QED BY <1>2, <2>1, <2>2, NextStatement
<1>4. Typed' BY <1>1, <1>3 DEF IInv, Typed, TypeOK
<1>5. Unborn' /\ Founded' BY <1>1, <1>3, Born DEF IInv, Unborn, Founded, Founding
<1>6. Owned' /\ Late' BY <1>1, <1>3 DEF IInv, Owned, Late
<1>7. Owing'
  <2>1. ASSUME NEW c \in owed, NEW n \in Names, channels[n] = c
        PROVE  \E s \in Requests : Owes(s, c)'
    <3>1. c \in Existing BY <2>1, HubAssumption DEF Existing, IInv, Typed, TypeOK
    <3> QED BY <1>3, <3>1 DEF Owes
  <2> QED BY <1>1, <2>1 DEF IInv, Owing
<1> QED BY <1>4, <1>5, <1>6, <1>7 DEF IInv

LEMMA FlagsKeeps ==
  ASSUME IInv, NEW r \in Requests, NEW c \in 1 .. MaxChannels, Flags(r, c)
  PROVE  IInv'
<1> DEFINE left == req[r].chs \ {c}
<1>1. /\ req[r].op = "flag" /\ flags' = flags \cup {c} /\ owed' = owed \ {c}
      /\ UNCHANGED <<hub, created, members, rows, channels, chans, failed, invites>>
  BY DEF Flags, Goes
<1>2. left \in SUBSET (1 .. MaxChannels) BY DEF IInv, Typed, Req
<1>3. req' = [req EXCEPT ![r] = [req[r] EXCEPT !.op = "flag", !.chs = left]]
  <2>1. req[r] \in Req BY DEF IInv, Typed
  <2>2. [req[r] EXCEPT !.chs = left] = [req[r] EXCEPT !.op = "flag", !.chs = left]
    BY <1>1, <2>1 DEF Req
  <2> QED BY <2>2 DEF Flags
<1>4. /\ req' \in [Requests -> Req]
      /\ req'[r].op = "flag" /\ req'[r].chs = left
      /\ req'[r].user = req[r].user /\ req'[r].late = req[r].late
      /\ \A s \in Requests : s # r => req'[s] = req[s]
  <2> HIDE DEF left
  <2> QED BY <1>2, <1>3, NextStatement DEF Ops
<1>5. Typed' BY <1>1, <1>4 DEF IInv, Typed, TypeOK
<1>6. Unborn' /\ Founded' BY <1>1, <1>4, Born DEF IInv, Unborn, Founded, Founding
<1>7. Owned' /\ Late' BY <1>1, <1>4 DEF IInv, Owned, Late
<1>8. Owing'
  <2>1. ASSUME ~failed, NEW d \in owed, d # c, NEW n \in Names, channels[n] = d
        PROVE  \E s \in Requests : Owes(s, d)'
    <3>1. PICK s \in Requests : Owes(s, d) BY <2>1 DEF IInv, Owing
    <3> QED BY <1>1, <1>4, <2>1, <3>1 DEF Owes
  <2> QED BY <1>1, <2>1 DEF IInv, Owing
<1> QED BY <1>5, <1>6, <1>7, <1>8 DEF IInv

\* The transaction goes on only with a hub.
LEMMA RedeemFindsKeeps ==
  ASSUME IInv, NEW r \in Requests, RedeemFinds(r)
  PROVE  IInv'
<1> DEFINE q == IF hub = "there" THEN [req[r] EXCEPT !.op = "commit"] ELSE Idle
<1>1. /\ req[r].op = "redeem" /\ req' = [req EXCEPT ![r] = q]
      /\ UNCHANGED <<hub, members, rows, channels, chans, flags, invites, created, owed, failed>>
  BY DEF RedeemFinds, Goes, tables
<1>2. req[r] \in Req /\ ~(req[r].late /\ hub = "there") BY DEF IInv, Typed, Late
<1>3. q \in Req /\ q.op \in {"commit", "idle"} /\ ~q.late
  BY <1>2, IdleFields DEF Req, Ops
<1> HIDE DEF q
<1>4. /\ req' \in [Requests -> Req] /\ req'[r] = q
      /\ \A s \in Requests : s # r => req'[s] = req[s]
  BY <1>1, <1>3, OneRequest DEF IInv, Typed
<1>5. Typed' BY <1>1, <1>4 DEF IInv, Typed, TypeOK
<1>6. Unborn' /\ Founded' BY <1>1, <1>3, <1>4, Born DEF IInv, Unborn, Founded, Founding
<1>7. Owned' /\ Late' BY <1>1, <1>3, <1>4 DEF IInv, Owned, Late
<1>8. Owing'
  <2>1. ASSUME ~failed, NEW c \in owed, NEW n \in Names, channels[n] = c
        PROVE  \E s \in Requests : Owes(s, c)'
    <3>1. PICK s \in Requests : Owes(s, c) BY <2>1 DEF IInv, Owing
    <3>2. s # r BY <1>1, <3>1 DEF Owes
    <3> QED BY <1>4, <3>1, <3>2 DEF Owes
  <2> QED BY <1>1, <2>1 DEF IInv, Owing
<1> QED BY <1>5, <1>6, <1>7, <1>8 DEF IInv

\* Steps that no request in progress takes.
LEMMA OthersKeep ==
  ASSUME IInv, NEW u \in Users, NEW c \in 1 .. MaxChannels
  PROVE  /\ SetRotationNeeded(u, c) => IInv'
         /\ ClearRotationNeeded(u, c) => IInv'
<1>1. ASSUME SetRotationNeeded(u, c) PROVE IInv'
  <2>1. /\ flags' = flags \cup {c} /\ owed' = owed \ {c}
        /\ UNCHANGED <<hub, created, members, rows, channels, chans, failed, invites, req>>
    BY <1>1 DEF SetRotationNeeded
  <2>2. Typed' BY <2>1 DEF IInv, Typed, TypeOK
  <2>3. Unborn' /\ Founded' BY <2>1 DEF IInv, Unborn, Founded, Founding
  <2>4. Owned' /\ Late' BY <2>1 DEF IInv, Owned, Late
  <2>5. Owing' BY <2>1 DEF IInv, Owing, Owes
  <2> QED BY <2>2, <2>3, <2>4, <2>5 DEF IInv
<1>2. ASSUME ClearRotationNeeded(u, c) PROVE IInv'
  <2>1. /\ flags' = flags \ {c}
        /\ UNCHANGED <<hub, created, members, rows, channels, chans, owed, failed, invites, req>>
    BY <1>2 DEF ClearRotationNeeded
  <2>2. Typed' BY <2>1 DEF IInv, Typed, TypeOK
  <2>3. Unborn' /\ Founded' BY <2>1 DEF IInv, Unborn, Founded, Founding
  <2>4. Owned' /\ Late' BY <2>1 DEF IInv, Owned, Late
  <2>5. Owing' BY <2>1 DEF IInv, Owing, Owes
  <2> QED BY <2>2, <2>3, <2>4, <2>5 DEF IInv
<1> QED BY <1>1, <1>2

LEMMA InviteExpiresKeeps ==
  ASSUME IInv, NEW i \in Invites, InviteExpires(i)
  PROVE  IInv'
<1>1. /\ invites[i] = "valid" /\ invites' = [invites EXCEPT ![i] = "expired"]
      /\ UNCHANGED <<hub, created, members, rows, channels, chans, flags, owed, failed, req>>
  BY DEF InviteExpires
<1>2. Typed' BY <1>1 DEF IInv, Typed, TypeOK
<1>3. Unborn' /\ Founded' BY <1>1 DEF IInv, Unborn, Founded, Founding
<1>4. Owned' /\ Late' BY <1>1 DEF IInv, Owned, Late
<1>5. Owing' BY <1>1 DEF IInv, Owing, Owes
<1> QED BY <1>2, <1>3, <1>4, <1>5 DEF IInv

LEMMA StutterKeeps == ASSUME IInv, UNCHANGED vars PROVE IInv'
<1>1. UNCHANGED <<hub, members, rows, channels, chans, flags, invites, created, owed, failed, req>>
  BY DEF vars, tables
<1>2. Typed' BY <1>1 DEF IInv, Typed, TypeOK
<1>3. Unborn' /\ Founded' BY <1>1 DEF IInv, Unborn, Founded, Founding
<1>4. Owned' /\ Late' BY <1>1 DEF IInv, Owned, Late
<1>5. Owing' BY <1>1 DEF IInv, Owing, Owes
<1> QED BY <1>2, <1>3, <1>4, <1>5 DEF IInv

LEMMA InductiveInv == IInv /\ [Next]_vars => IInv'
<1> SUFFICES ASSUME IInv, [Next]_vars PROVE IInv' OBVIOUS
<1>1. ASSUME NEW r \in Requests, CreateHub(r) PROVE IInv' BY <1>1, CreateHubKeeps
<1>2. ASSUME NEW r \in Requests, OwnerJoins(r) PROVE IInv' BY <1>2, OwnerJoinsKeeps
<1>3. ASSUME NEW r \in Requests, DeleteHub(r) \/ BotJoinHub(r) PROVE IInv'
  BY <1>3, HubAssumption, BeginsKeep
<1>4. ASSUME NEW r \in Requests, HubGoes(r) PROVE IInv' BY <1>4, HubGoesKeeps
<1>5. ASSUME NEW r \in Requests, Inserts(r) PROVE IInv'
  BY <1>5, JoinKeeps DEF Inserts, Goes
<1>6. ASSUME NEW r \in Requests, RedeemCommits(r) PROVE IInv'
  BY <1>6, JoinKeeps DEF RedeemCommits, Goes
<1>7. ASSUME NEW r \in Requests, Removes(r) \/ Marks(r) \/ RemovalEnds(r) PROVE IInv'
  BY <1>7, RemovesKeeps, MarksKeeps, RemovalEndsKeeps
<1>8. ASSUME NEW r \in Requests, Issues(r) \/ RedeemFinds(r) \/ Fails(r) PROVE IInv'
  BY <1>8, IssuesKeeps, RedeemFindsKeeps, FailsKeeps
<1>9. ASSUME NEW r \in Requests, ChannelInserts(r) \/ ChannelGoes(r) PROVE IInv'
  BY <1>9, ChannelInsertsKeeps, ChannelGoesKeeps
<1>10. ASSUME NEW r \in Requests, NEW c \in 1 .. MaxChannels, Flags(r, c) PROVE IInv'
  BY <1>10, FlagsKeeps
<1>11. ASSUME NEW r \in Requests, NEW u \in Users,
              InviteMember(r, u) \/ KickMember(r, u) \/ LeaveHub(r, u)
       PROVE  IInv'
  BY <1>11, BeginsKeep
<1>12. ASSUME NEW r \in Requests, NEW u \in Users, NEW i \in Invites,
              CreateInvite(r, u, i) \/ RedeemInvite(r, u, i)
       PROVE  IInv'
  BY <1>12, BeginsKeep
<1>13. ASSUME NEW r \in Requests, NEW u \in Users, NEW n \in Names,
              CreateChannel(r, u, n) \/ DeleteChannel(r, u, n)
       PROVE  IInv'
  BY <1>13, BeginsKeep
<1>14. ASSUME NEW i \in Invites, InviteExpires(i) PROVE IInv' BY <1>14, InviteExpiresKeeps
<1>15. ASSUME NEW u \in Users, NEW c \in 1 .. MaxChannels,
              SetRotationNeeded(u, c) \/ ClearRotationNeeded(u, c)
       PROVE  IInv'
  BY <1>15, OthersKeep
<1>16. CASE UNCHANGED vars BY <1>16, StutterKeeps
<1> QED
  BY <1>1, <1>2, <1>3, <1>4, <1>5, <1>6, <1>7, <1>8, <1>9, <1>10, <1>11, <1>12, <1>13,
     <1>14, <1>15, <1>16
  DEF Next

-----------------------------------------------------------------------------
\* The invariant, in every state the service can be in.
THEOREM Invariant == Spec => []IInv
BY InitInv, InductiveInv, PTL DEF Spec

\* The variables have their types.
THEOREM TypeCorrect == Spec => []TypeOK
<1>1. IInv => TypeOK BY DEF IInv, Typed
<1> QED BY <1>1, Invariant, PTL

\* A hub whose creation was answered has its owner among its members, however many
\* removals and joins are under way: none of them is of the owner.
THEOREM OwnersStay == Spec => []CreatedHubsAreOwned
<1>1. IInv => CreatedHubsAreOwned BY DEF IInv, Owned, CreatedHubsAreOwned
<1> QED BY <1>1, Invariant, PTL

\* When no removal is under way and none has failed, every channel that was there when
\* a membership went has been flagged since.
THEOREM RemovalsFlag == Spec => []RemovalsFlagAll
<1>1. IInv => RemovalsFlagAll
  <2> SUFFICES ASSUME IInv, \A r \in Requests : ~Removing(r), ~failed,
                      NEW n \in Names, channels[n] \in owed
               PROVE  FALSE
    BY DEF RemovalsFlagAll, Existing
  <2>1. PICK r \in Requests : Owes(r, channels[n]) BY DEF IInv, Owing
  <2> QED BY <2>1 DEF Owes, Removing
<1> QED BY <1>1, Invariant, PTL

\* Nobody but the bot joins by a request that began after the hub was deleted.
THEOREM NobodyJoinsDeleted == Spec => []DeletedHubsTakeNobody
<1>1. IInv => DeletedHubsTakeNobody BY DEF IInv, Late, DeletedHubsTakeNobody
<1> QED BY <1>1, Invariant, PTL

-----------------------------------------------------------------------------
(* What the pages show.  The inductive invariant says what an answer holds, *)
(* namely the end, in order, of what was stored when it was read, and what  *)
(* a list that was put together from such answers lacks: only what precedes *)
(* its oldest message.                                                      *)

InOrder(s) == \A i, j \in DOMAIN s : i < j => s[i] # s[j] /\ s[i].at <= s[j].at

OfMessages(q) == q.kind \notin {"list", "created"}
Asked(q, m) == q.before = 0 \/ m.at < q.before

\* What is under way has a channel, and the pages it is for have one open.
Targets ==
  \A p \in Pages :
    /\ \A q \in loads[p] : /\ q.kind # "list" => q.channel \in Channels
                           /\ q.kind \in {"open", "again", "sent"} => q.before = 0
                           /\ OfMessages(q) => open[p] \in Channels
    /\ shown[p] # <<>> => open[p] \in Channels

\* And so has a message that is being sent.
Writing ==
  \A p \in Pages :
    /\ sending[p].here => open[p] \in Channels
    /\ sending[p].stage # "no" => sending[p].channel \in Channels
    /\ sending[p].stage = "stamped" => sending[p].at > 0

\* An answer holds the end, in order, of what was asked for and there.
Excerpt(q) ==
  LET a == q.answer IN
  /\ a.read \subseteq history[q.channel]
  /\ InOrder(a.messages)
  /\ \A m \in Elements(a.messages) : m \in a.read /\ Asked(q, m)
  /\ \A m \in a.read : Asked(q, m) =>
       m \in Elements(a.messages) \/ (a.more /\ a.messages # <<>> /\ m.at <= a.messages[1].at)
Excerpts == \A p \in Pages : \A q \in loads[p] : OfMessages(q) /\ q.answer.there => Excerpt(q)

\* A list that was put together from what it was loaded for.
Whole(p) ==
  /\ open[p] \in Channels
  /\ base[p] \cup Elements(shown[p]) \subseteq history[open[p]]
  /\ InOrder(shown[p])
  /\ Distinct(open[p]) => \A m \in base[p] :
       m \in Elements(shown[p]) \/ (more[p] /\ shown[p] # <<>> /\ m.at <= shown[p][1].at)

\* A request for what precedes the list as it is.
Continues(p, q) ==
  /\ q.channel = open[p] /\ shown[p] # <<>> /\ q.before = shown[p][1].at
  /\ q.answer.there => base[p] \subseteq q.answer.read

Joining == \A p \in Pages : joined[p] =>
  Whole(p) /\ \A q \in loads[p] : q.kind = "older" /\ q.fresh => Continues(p, q)

Listening == \A p \in Pages : page[p] /\ ~lost[p] => subscribed[p] \/ checks[p] > 0

ViewsInv == ViewsTypeOK /\ Targets /\ Writing /\ Excerpts /\ Joining /\ Listening

-----------------------------------------------------------------------------
LEMMA ViewsInitInv == ViewsInit => ViewsInv
<1> SUFFICES ASSUME ViewsInit PROVE ViewsInv OBVIOUS
<1>1. ViewsTypeOK
  <2>1. \A c \in Channels : IsFiniteSet(history[c]) BY FS_EmptySet DEF ViewsInit
  <2>2. NotSending \in Sending BY DEF NotSending, Sending
  <2> QED BY <2>1, <2>2 DEF ViewsInit, ViewsTypeOK
<1>2. Targets /\ Writing BY DEF ViewsInit, Targets, Writing, NotSending
<1>3. Excerpts BY DEF ViewsInit, Excerpts
<1>4. Joining BY DEF ViewsInit, Joining
<1>5. Listening BY DEF ViewsInit, Listening
<1> QED BY <1>1, <1>2, <1>3, <1>4, <1>5 DEF ViewsInv

-----------------------------------------------------------------------------
(* Requests and answers                                                     *)

LEMMA Asking ==
  ASSUME NEW kind \in Kinds, NEW c \in Channels \cup {None}, NEW before \in Nat
  PROVE  /\ Asks(kind, c, before) \in Request
         /\ Asks(kind, c, before).kind = kind /\ Asks(kind, c, before).channel = c
         /\ Asks(kind, c, before).before = before /\ Asks(kind, c, before).fresh
         /\ ~Asks(kind, c, before).answer.there
  BY DEF Asks, NoAnswer, Request, Answer

\* What a step does to the requests of one page.
LEMMA Loading ==
  ASSUME ViewsTypeOK, NEW p \in Pages, NEW q \in Request, Load(p, q)
  PROVE  /\ loads' \in [Pages -> SUBSET Request]
         /\ loads'[p] = loads[p] \cup {q}
         /\ \A o \in Pages \ {p} : loads'[o] = loads[o]
  BY DEF Load, ViewsTypeOK

LEMMA Telling ==
  ASSUME ViewsTypeOK, NEW p \in Pages, NEW type \in {"sent", "created", "rotated"}, NEW c \in Channels,
         Tell(p, type, c)
  PROVE  told' \in [Pages -> SUBSET [type : {"sent", "created", "rotated"}, channel : Channels]]
<1> DEFINE e == [type |-> type, channel |-> c]
           Event == [type : {"sent", "created", "rotated"}, channel : Channels]
<1>1. e \in Event OBVIOUS
<1>2. told \in [Pages -> SUBSET Event] BY DEF ViewsTypeOK
<1>3. told' = [o \in Pages |-> IF o # p /\ subscribed[p] /\ subscribed[o] /\ Relayed(type)
                               THEN told[o] \cup {e} ELSE told[o]]
  BY DEF Tell
<1> HIDE DEF e, Event
<1>4. told' \in [Pages -> SUBSET Event] BY <1>1, <1>2, <1>3
<1> QED BY <1>4 DEF Event

-----------------------------------------------------------------------------
(* Lists of messages                                                        *)

\* The end of a list of at most Limit messages.
LEMMA Newer ==
  ASSUME NEW S, NEW s \in Seq(S)
  PROVE  /\ Newest(s) \in Seq(S)
         /\ \E k \in Nat :
              /\ Len(Newest(s)) + k = Len(s)
              /\ \A i \in 1 .. Len(Newest(s)) : Newest(s)[i] = s[i + k]
              /\ k > 0 => Len(s) > Limit /\ Len(Newest(s)) > 0
<1>1. CASE Len(s) <= Limit BY <1>1 DEF Newest
<1>2. CASE Len(s) > Limit
  <2> DEFINE k == Len(s) - Limit
  <2>1. k \in Nat /\ k > 0 /\ Limit \in Nat /\ Limit > 0 BY <1>2, LimitAssumption
  <2>2. Newest(s) = SubSeq(s, k + 1, Len(s)) BY <1>2, <2>1 DEF Newest
  <2>3. /\ Newest(s) \in Seq(S) /\ Len(Newest(s)) = Limit
        /\ \A i \in 1 .. Len(Newest(s)) : Newest(s)[i] = s[i + k]
    BY <2>1, <2>2
  <2>4. Len(Newest(s)) + k = Len(s) BY <2>1, <2>3
  <2> HIDE DEF k
  <2> QED BY <2>1, <2>3, <2>4, <1>2
<1>3. Len(s) <= Limit \/ Len(s) > Limit
  <2>1. Limit \in Nat /\ Len(s) \in Nat BY LimitAssumption
  <2> QED BY <2>1
<1> QED BY <1>1, <1>2, <1>3

LEMMA Paging ==
  ASSUME ViewsTypeOK, NEW q \in Request, q.channel \in Channels,
         NEW a \in Page(q.channel, q.before)
  PROVE  /\ a \in Answer /\ a.there /\ a.read = history[q.channel]
         /\ Excerpt([q EXCEPT !.answer = a])
<1> DEFINE c == q.channel
           found == {m \in history[c] : q.before = 0 \/ m.at < q.before}
<1>1. PICK s \in ByTime(found) :
        a = [NoAnswer EXCEPT !.there = TRUE, !.messages = Newest(s),
                             !.more = Len(s) > Limit, !.read = history[c]]
  BY DEF Page
<1>2. history[c] \in SUBSET Messages /\ IsFiniteSet(history[c]) BY DEF ViewsTypeOK
<1>3. IsFiniteSet(found) /\ found \subseteq Messages BY <1>2, FS_Subset
<1>4. Cardinality(found) \in Nat BY <1>3, FS_CardinalityType
<1>5. /\ s \in [1 .. Cardinality(found) -> found] /\ Elements(s) = found /\ InOrder(s)
  BY <1>1 DEF ByTime, InOrder
<1>6. s \in Seq(found) /\ s \in Seq(Messages) /\ DOMAIN s = 1 .. Len(s)
  <2> DEFINE n == Cardinality(found)
  <2>1. n \in Nat /\ s \in [1 .. n -> found] BY <1>4, <1>5
  <2> HIDE DEF n, found
  <2>2. s \in [1 .. n -> Messages] BY <1>3, <2>1
  <2>3. s \in Seq(found) /\ s \in Seq(Messages) BY <2>1, <2>2
  <2> QED BY <2>3
<1>7. Newest(s) \in Seq(Messages) /\ Newest(s) \in Seq(found) BY <1>6, Newer
<1>8. PICK k \in Nat :
        /\ Len(Newest(s)) + k = Len(s)
        /\ \A i \in 1 .. Len(Newest(s)) : Newest(s)[i] = s[i + k]
        /\ k > 0 => Len(s) > Limit /\ Len(Newest(s)) > 0
  BY <1>6, Newer
<1> DEFINE w == Newest(s)
<1>9. a = [there |-> TRUE, messages |-> w, more |-> Len(s) > Limit, read |-> history[c], names |-> {}]
  BY <1>1 DEF NoAnswer
<1>10. a \in Answer BY <1>2, <1>7, <1>9 DEF Answer
<1>11. DOMAIN w = 1 .. Len(w) /\ Len(w) \in Nat /\ Len(s) \in Nat BY <1>6, <1>7
<1> HIDE DEF w, found
<1>12. ASSUME NEW i \in 1 .. Len(w) PROVE i + k \in 1 .. Len(s) /\ w[i] = s[i + k]
  BY <1>8, <1>11, <1>12 DEF w
<1>13. InOrder(w)
  <2> SUFFICES ASSUME NEW i \in 1 .. Len(w), NEW j \in 1 .. Len(w), i < j
               PROVE  w[i] # w[j] /\ w[i].at <= w[j].at
    BY <1>11 DEF InOrder
  <2>1. i + k \in DOMAIN s /\ j + k \in DOMAIN s /\ i + k < j + k BY <1>12, <1>6, <1>8
  <2> QED BY <2>1, <1>5, <1>12 DEF InOrder
<1>14. Elements(w) \subseteq found
  <2> SUFFICES ASSUME NEW i \in 1 .. Len(w) PROVE w[i] \in found BY <1>11 DEF Elements
  <2> QED BY <1>12, <1>5, <1>6
<1>15. ASSUME NEW m \in found, m \notin Elements(w)
       PROVE  Len(s) > Limit /\ w # <<>> /\ m.at <= w[1].at
  <2>1. PICK i \in 1 .. Len(s) : m = s[i] BY <1>5, <1>6 DEF Elements
  <2>2. i <= k
    <3> SUFFICES ASSUME i > k PROVE FALSE BY <1>8, <1>11
    <3>1. i - k \in 1 .. Len(w) BY <1>8, <1>11 DEF w
    <3>2. w[i - k] = s[i] BY <3>1, <1>12, <1>8
    <3> QED BY <3>1, <3>2, <2>1, <1>11, <1>15 DEF Elements
  <2>3. k > 0 BY <2>2, <1>8
  <2>4. Len(w) > 0 /\ Len(s) > Limit BY <2>3, <1>8 DEF w
  <2>5. 1 \in 1 .. Len(w) BY <2>4, <1>11
  <2>6. w[1] = s[1 + k] /\ 1 + k \in 1 .. Len(s) /\ i < 1 + k BY <2>5, <1>12, <2>2, <1>8
  <2>7. s[i].at <= s[1 + k].at BY <2>6, <1>5, <1>6 DEF InOrder
  <2>8. w # <<>> BY <2>5
  <2> QED BY <2>1, <2>4, <2>6, <2>7, <2>8
<1> DEFINE z == [q EXCEPT !.answer = a]
<1>16. z.answer = a /\ z.channel = c /\ z.before = q.before BY DEF Request
<1>17. a.messages = w /\ a.more = (Len(s) > Limit) /\ a.read = history[c] /\ a.there BY <1>9
<1>18. \A m : m \in found <=> m \in history[c] /\ Asked(z, m) BY <1>16 DEF Asked, found
<1> HIDE DEF z, c
<1>19. Excerpt(z) BY <1>13, <1>14, <1>15, <1>16, <1>17, <1>18 DEF Excerpt
<1> QED BY <1>10, <1>17, <1>19 DEF c, z

-----------------------------------------------------------------------------
(* Steps that leave the lists alone                                         *)

\* A request that a page may make as it is.
Due(p, q) ==
  /\ ~q.answer.there
  /\ q.kind # "list" => q.channel \in Channels
  /\ q.kind \in {"open", "again", "sent"} => q.before = 0
  /\ OfMessages(q) => open[p] \in Channels
  /\ q.kind = "older" => q.channel = open[p] /\ shown[p] # <<>> /\ q.before = shown[p][1].at

LEMMA ListsStay ==
  ASSUME Targets, Excerpts, Joining, UNCHANGED <<history, view, base, joined>>,
         \A p \in Pages : \A q \in loads'[p] : q \in loads[p] \/ Due(p, q)
  PROVE  Targets' /\ Excerpts' /\ Joining'
<1>1. UNCHANGED <<history, open, shown, more, base, joined>> BY DEF view
<1>2. Targets' BY <1>1 DEF Targets, Due
<1>3. Excerpts' BY <1>1 DEF Excerpts, Excerpt, Due
<1>4. Joining'
  <2> SUFFICES ASSUME NEW p \in Pages, joined[p]
               PROVE  Whole(p)' /\ \A q \in loads'[p] : q.kind = "older" /\ q.fresh => Continues(p, q)'
    BY <1>1 DEF Joining
  <2>1. Whole(p) /\ \A q \in loads[p] : q.kind = "older" /\ q.fresh => Continues(p, q) BY DEF Joining
  <2>2. Whole(p)' BY <1>1, <2>1 DEF Whole, Distinct
  <2>3. ASSUME NEW q \in loads'[p], q.kind = "older", q.fresh PROVE Continues(p, q)'
    <3>1. Continues(p, q) BY <2>1, <2>3 DEF Continues, Due
    <3> QED BY <1>1, <3>1 DEF Continues
  <2> QED BY <2>2, <2>3
<1> QED BY <1>2, <1>3, <1>4

\* A page makes one request more.
LEMMA Requested ==
  ASSUME ViewsInv, UNCHANGED <<history, view, base, joined>>,
         NEW p \in Pages, NEW q \in Request, Load(p, q), Due(p, q)
  PROVE  Targets' /\ Excerpts' /\ Joining'
<1>1. loads'[p] = loads[p] \cup {q} /\ \A o \in Pages \ {p} : loads'[o] = loads[o]
  BY Loading DEF ViewsInv
<1>2. \A o \in Pages : \A r \in loads'[o] : r \in loads[o] \/ Due(o, r) BY <1>1
<1> QED BY <1>2, ListsStay DEF ViewsInv

LEMMA SocketKeeps ==
  ASSUME ViewsInv, NEW p \in Pages, CheckPasses(p) \/ CheckFails(p) \/ Reconnects(p)
  PROVE  ViewsInv'
<1>1. UNCHANGED <<service, page, view, loads, sending, opens, base, joined>>
  BY DEF CheckPasses, CheckFails, Reconnects, notes
<1>2. ViewsTypeOK'
  <2>1. checks' \in [Pages -> Nat]
    <3>1. checks \in [Pages -> Nat] BY DEF ViewsInv, ViewsTypeOK
    <3>2. \/ checks[p] > 0 /\ checks' = [checks EXCEPT ![p] = @ - 1]
          \/ checks' = checks
      BY DEF CheckPasses, CheckFails, Reconnects
    <3> QED BY <3>1, <3>2
  <2>2. subscribed' \in [Pages -> BOOLEAN] /\ lost' \in [Pages -> BOOLEAN]
    BY DEF ViewsInv, ViewsTypeOK, CheckPasses, CheckFails, Reconnects, notes
  <2>3. told' \in [Pages -> SUBSET [type : {"sent", "created", "rotated"}, channel : Channels]]
    BY DEF ViewsInv, ViewsTypeOK, CheckPasses, CheckFails, Reconnects
  <2> QED BY <1>1, <2>1, <2>2, <2>3 DEF ViewsInv, ViewsTypeOK, service, view
<1>3. Targets' /\ Excerpts' /\ Joining' BY <1>1, ListsStay DEF ViewsInv, service
<1>4. Writing' BY <1>1 DEF ViewsInv, Writing, view
<1>5. Listening' BY <1>1 DEF ViewsInv, ViewsTypeOK, Listening, CheckPasses, CheckFails, Reconnects, notes
<1> QED BY <1>2, <1>3, <1>4, <1>5 DEF ViewsInv

LEMMA OpenHubKeeps ==
  ASSUME ViewsInv, NEW p \in Pages, OpenHub(p)
  PROVE  ViewsInv'
<1> DEFINE q == Asks("list", None, 0)
<1>1. q \in Request /\ q.kind = "list" /\ ~q.answer.there BY Asking DEF Kinds
<1>2. Load(p, q) BY DEF OpenHub
<1>3. Due(p, q) BY <1>1 DEF Due, OfMessages
<1> HIDE DEF q
<1>4. Targets' /\ Excerpts' /\ Joining' BY <1>1, <1>2, <1>3, Requested DEF OpenHub, service
<1>5. ViewsTypeOK'
  <2>1. loads' \in [Pages -> SUBSET Request] BY <1>1, <1>2, Loading DEF ViewsInv
  <2>2. checks' \in [Pages -> Nat] /\ opens' \in Nat BY DEF ViewsInv, ViewsTypeOK, OpenHub
  <2>3. page' \in [Pages -> BOOLEAN] /\ lost' \in [Pages -> BOOLEAN] BY DEF ViewsInv, ViewsTypeOK, OpenHub
  <2>4. UNCHANGED <<service, view, sending, subscribed, told, base, joined>> BY DEF OpenHub
  <2> QED BY <2>1, <2>2, <2>3, <2>4 DEF ViewsInv, ViewsTypeOK, service, view
<1>6. Writing' BY DEF ViewsInv, Writing, OpenHub, view
<1>7. Listening' BY DEF ViewsInv, ViewsTypeOK, Listening, OpenHub
<1> QED BY <1>4, <1>5, <1>6, <1>7 DEF ViewsInv

LEMMA LoadOlderKeeps ==
  ASSUME ViewsInv, NEW p \in Pages, LoadOlder(p)
  PROVE  ViewsInv'
<1> DEFINE q == Asks("older", open[p], shown[p][1].at)
<1>1. open[p] \in Channels BY DEF ViewsInv, Targets, LoadOlder
<1>2. shown[p][1] \in Messages
  <2>1. shown[p] \in Seq(Messages) /\ shown[p] # <<>> BY DEF ViewsInv, ViewsTypeOK, LoadOlder
  <2> QED BY <2>1
<1>3. shown[p][1].at \in Nat BY <1>2 DEF Messages
<1>4. /\ q \in Request /\ q.kind = "older" /\ q.channel = open[p]
      /\ q.before = shown[p][1].at /\ ~q.answer.there
  BY <1>1, <1>3, Asking DEF Kinds
<1>5. Load(p, q) BY DEF LoadOlder
<1> HIDE DEF q
<1>6. Due(p, q) BY <1>1, <1>4 DEF Due, LoadOlder
<1>7. Targets' /\ Excerpts' /\ Joining' BY <1>4, <1>5, <1>6, Requested DEF LoadOlder, service, notes
<1>8. loads' \in [Pages -> SUBSET Request] BY <1>4, <1>5, Loading DEF ViewsInv
<1>9. ViewsTypeOK' BY <1>8 DEF ViewsInv, ViewsTypeOK, LoadOlder, service, view, socket, notes
<1>10. Writing' /\ Listening' BY DEF ViewsInv, Writing, Listening, LoadOlder, view, socket, notes
<1> QED BY <1>7, <1>9, <1>10 DEF ViewsInv

LEMMA OnCreateChannelKeeps ==
  ASSUME ViewsInv, NEW p \in Pages, NEW c \in Channels, OnCreateChannel(p, c)
  PROVE  ViewsInv'
<1> DEFINE q == Asks("created", c, 0)
<1>1. q \in Request /\ q.kind = "created" /\ q.channel = c /\ ~q.answer.there BY Asking DEF Kinds
<1>2. Load(p, q) BY DEF OnCreateChannel
<1>3. Due(p, q) BY <1>1 DEF Due, OfMessages
<1> HIDE DEF q
<1>4. Targets' /\ Excerpts' /\ Joining' BY <1>1, <1>2, <1>3, Requested DEF OnCreateChannel, notes
<1>5. loads' \in [Pages -> SUBSET Request] BY <1>1, <1>2, Loading DEF ViewsInv
<1>6. ViewsTypeOK' BY <1>5 DEF ViewsInv, ViewsTypeOK, OnCreateChannel, view, socket, notes
<1>7. Writing' /\ Listening' BY DEF ViewsInv, Writing, Listening, OnCreateChannel, view, socket, notes
<1> QED BY <1>4, <1>6, <1>7 DEF ViewsInv

LEMMA HearsKeeps ==
  ASSUME ViewsInv, NEW p \in Pages, NEW e \in told[p], Hears(p, e)
  PROVE  ViewsInv'
<1>1. e.channel \in Channels
  <2>1. told[p] \subseteq [type : {"sent", "created", "rotated"}, channel : Channels]
    BY DEF ViewsInv, ViewsTypeOK
  <2> QED BY <2>1
<1>2. loads' \in [Pages -> SUBSET Request] /\ Targets' /\ Excerpts' /\ Joining'
  <2> DEFINE q == Asks("list", None, 0)
             r == Asks("again", e.channel, 0)
  <2>0. UNCHANGED <<history, view, base, joined>> BY DEF Hears, service, notes
  <2>1. CASE Load(p, q)
    <3>1. q \in Request /\ q.kind = "list" /\ ~q.answer.there BY Asking DEF Kinds
    <3>2. Due(p, q) BY <3>1 DEF Due, OfMessages
    <3> HIDE DEF q
    <3> QED BY <2>0, <2>1, <3>1, <3>2, Requested, Loading DEF ViewsInv
  <2>2. CASE Load(p, r) /\ e.channel = open[p]
    <3>1. /\ r \in Request /\ r.kind = "again" /\ r.channel = e.channel /\ r.before = 0
          /\ ~r.answer.there
      BY <1>1, Asking DEF Kinds
    <3>2. Due(p, r) BY <1>1, <2>2, <3>1 DEF Due, OfMessages
    <3> HIDE DEF r
    <3> QED BY <2>0, <2>2, <3>1, <3>2, Requested, Loading DEF ViewsInv
  <2>3. CASE UNCHANGED loads BY <2>0, <2>3, ListsStay DEF ViewsInv, ViewsTypeOK
  <2> QED BY <2>1, <2>2, <2>3 DEF Hears
<1>3. told' \in [Pages -> SUBSET [type : {"sent", "created", "rotated"}, channel : Channels]]
  BY DEF ViewsInv, ViewsTypeOK, Hears
<1>4. ViewsTypeOK' BY <1>2, <1>3 DEF ViewsInv, ViewsTypeOK, Hears, service, view, socket, notes
<1>5. Writing' /\ Listening' BY DEF ViewsInv, Writing, Listening, Hears, view, socket, notes
<1> QED BY <1>2, <1>4, <1>5 DEF ViewsInv

LEMMA LoadFailsKeeps ==
  ASSUME ViewsInv, NEW p \in Pages, NEW q \in loads[p], LoadFails(p, q)
  PROVE  ViewsInv'
<1>1. UNCHANGED <<service, page, view, sending, socket, told, opens, base, joined>>
      /\ loads' = [loads EXCEPT ![p] = @ \ {q}] /\ lost' = [lost EXCEPT ![p] = TRUE]
  BY DEF LoadFails
<1>2. ViewsTypeOK' BY <1>1 DEF ViewsInv, ViewsTypeOK, service, view, socket
<1>3. \A o \in Pages : loads'[o] \subseteq loads[o] BY <1>1 DEF ViewsInv, ViewsTypeOK
<1>4. Targets' /\ Excerpts' /\ Joining' BY <1>1, <1>3, ListsStay DEF ViewsInv, service
<1>5. Writing' /\ Listening' BY <1>1 DEF ViewsInv, ViewsTypeOK, Writing, Listening, view, socket
<1> QED BY <1>2, <1>4, <1>5 DEF ViewsInv

LEMMA StampsKeeps ==
  ASSUME ViewsInv, NEW p \in Pages, Stamps(p)
  PROVE  ViewsInv'
<1> DEFINE m == [sending[p] EXCEPT !.stage = "stamped", !.at = clock', !.n = sent']
<1>1. sending[p] \in Sending BY DEF ViewsInv, ViewsTypeOK
<1>2. clock' \in Nat /\ clock' > 0 /\ sent' \in Nat BY DEF ViewsInv, ViewsTypeOK, Stamps
<1>3. sending[p].stage = "posted" /\ sending' = [sending EXCEPT ![p] = m] BY DEF Stamps
<1>4. /\ m \in Sending /\ m.stage = "stamped" /\ m.at > 0
      /\ m.channel = sending[p].channel /\ m.here = sending[p].here
  BY <1>1, <1>2 DEF Sending
<1> HIDE DEF m
<1>5. sending' \in [Pages -> Sending] BY <1>3, <1>4 DEF ViewsInv, ViewsTypeOK
<1>6. UNCHANGED <<listed, history, page, view, loads, socket, told, opens, base, joined, lost>>
  BY DEF Stamps, notes
<1>7. ViewsTypeOK' BY <1>2, <1>5, <1>6 DEF ViewsInv, ViewsTypeOK, view, socket
<1>8. Targets' /\ Excerpts' /\ Joining' BY <1>6, ListsStay DEF ViewsInv
<1>9. Writing' BY <1>3, <1>4, <1>6 DEF ViewsInv, ViewsTypeOK, Writing, view
<1>10. Listening' BY <1>6 DEF ViewsInv, Listening, socket
<1> QED BY <1>7, <1>8, <1>9, <1>10 DEF ViewsInv

LEMMA SendKeeps ==
  ASSUME ViewsInv, NEW p \in Pages, Send(p)
  PROVE  ViewsInv'
<1> DEFINE m == [NotSending EXCEPT !.stage = "posted", !.channel = open[p], !.here = TRUE]
<1>1. open[p] \in Channels BY DEF ViewsInv, ViewsTypeOK, Send
<1>2. sending' = [sending EXCEPT ![p] = m] BY DEF Send
<1>3. NotSending \in Sending BY DEF NotSending, Sending
<1>4. m \in Sending /\ m.stage = "posted" /\ m.channel = open[p] BY <1>1, <1>3 DEF Sending
<1> HIDE DEF m
<1>5. sending' \in [Pages -> Sending] BY <1>2, <1>4 DEF ViewsInv, ViewsTypeOK
<1>6. UNCHANGED <<service, page, view, loads, socket, opens, base, joined, lost>> BY DEF Send, notes
<1>7. told' \in [Pages -> SUBSET [type : {"sent", "created", "rotated"}, channel : Channels]]
  <2>1. CASE Tell(p, "rotated", open[p]) BY <1>1, <2>1, Telling DEF ViewsInv
  <2>2. CASE UNCHANGED told BY <2>2 DEF ViewsInv, ViewsTypeOK
  <2> QED BY <2>1, <2>2 DEF Send
<1>8. ViewsTypeOK' BY <1>5, <1>6, <1>7 DEF ViewsInv, ViewsTypeOK, service, view, socket
<1>9. Targets' /\ Excerpts' /\ Joining' BY <1>6, ListsStay DEF ViewsInv, service
<1>10. Writing' BY <1>1, <1>2, <1>4, <1>6 DEF ViewsInv, ViewsTypeOK, Writing, view
<1>11. Listening' BY <1>6 DEF ViewsInv, Listening, socket
<1> QED BY <1>8, <1>9, <1>10, <1>11 DEF ViewsInv

LEMMA ShowsChannelsKeeps ==
  ASSUME ViewsInv, NEW p \in Pages, NEW q \in loads[p], ShowsChannels(p, q)
  PROVE  ViewsInv'
<1>1. q \in Request /\ (q.kind # "list" => q.channel \in Channels) BY DEF ViewsInv, ViewsTypeOK, Targets
<1>2. q.answer.names \in SUBSET Channels BY <1>1 DEF Request, Answer
<1>3. /\ known' = [known EXCEPT ![p] = q.answer.names] /\ loads' = [loads EXCEPT ![p] = @ \ {q}]
      /\ UNCHANGED <<service, page, open, shown, more, sending, socket, opens, base, joined, lost>>
  BY DEF ShowsChannels, notes
<1>4. told' \in [Pages -> SUBSET [type : {"sent", "created", "rotated"}, channel : Channels]]
  <2>1. CASE q.kind = "created" /\ Tell(p, "created", q.channel) BY <1>1, <2>1, Telling DEF ViewsInv
  <2>2. CASE UNCHANGED told BY <2>2 DEF ViewsInv, ViewsTypeOK
  <2> QED BY <2>1, <2>2 DEF ShowsChannels
<1>5. ViewsTypeOK' BY <1>2, <1>3, <1>4 DEF ViewsInv, ViewsTypeOK, service, socket
<1>6. \A o \in Pages : loads'[o] \subseteq loads[o] BY <1>3 DEF ViewsInv, ViewsTypeOK
<1>7. Targets' BY <1>3, <1>6 DEF ViewsInv, Targets
<1>8. Excerpts' BY <1>3, <1>6 DEF ViewsInv, Excerpts, Excerpt, service
<1>9. Joining' BY <1>3, <1>6 DEF ViewsInv, Joining, Whole, Continues, Distinct, service
<1>10. Writing' /\ Listening' BY <1>3 DEF ViewsInv, Writing, Listening, socket
<1> QED BY <1>5, <1>7, <1>8, <1>9, <1>10 DEF ViewsInv

-----------------------------------------------------------------------------
(* The service                                                              *)

\* An answered request is what it was, with its answer.
LEMMA AnswersKeeps ==
  ASSUME ViewsInv, NEW p \in Pages, NEW q \in loads[p], Answers(p, q)
  PROVE  ViewsInv'
<1>1. q \in Request /\ (q.kind # "list" => q.channel \in Channels) BY DEF ViewsInv, ViewsTypeOK, Targets
<1>2. PICK a \in IF OfChannels(q) THEN {List} ELSE Page(q.channel, q.before) :
        loads' = [loads EXCEPT ![p] = (@ \ {q}) \cup {[q EXCEPT !.answer = a]}]
  BY DEF Answers
<1>3. UNCHANGED <<service, page, view, sending, socket, told, opens, base, joined, lost>>
  BY DEF Answers, notes
<1> DEFINE z == [q EXCEPT !.answer = a]
<1>4. /\ a \in Answer
      /\ OfMessages(q) => Excerpt(z) /\ a.read = history[q.channel]
  <2>1. CASE OfChannels(q)
    <3>1. a = [there |-> TRUE, messages |-> <<>>, more |-> FALSE, read |-> {}, names |-> listed]
      BY <1>2, <2>1 DEF List, NoAnswer
    <3> QED BY <2>1, <3>1 DEF ViewsInv, ViewsTypeOK, Answer, OfChannels, OfMessages
  <2>2. CASE ~OfChannels(q)
    <3>1. q.channel \in Channels /\ a \in Page(q.channel, q.before) BY <1>1, <1>2, <2>2 DEF OfChannels
    <3> QED BY <1>1, <3>1, Paging DEF ViewsInv
  <2> QED BY <2>1, <2>2
<1>5. /\ z \in Request /\ z.answer = a /\ z.kind = q.kind /\ z.channel = q.channel
      /\ z.before = q.before /\ z.fresh = q.fresh
  BY <1>1, <1>4 DEF Request
<1> HIDE DEF z
<1>6. loads' = [loads EXCEPT ![p] = (@ \ {q}) \cup {z}] BY <1>2 DEF z
<1>7. \A o \in Pages : \A r \in loads'[o] : r \in loads[o] \/ (o = p /\ r = z)
  BY <1>6 DEF ViewsInv, ViewsTypeOK
<1>8. loads' \in [Pages -> SUBSET Request] BY <1>5, <1>6 DEF ViewsInv, ViewsTypeOK
<1>9. ViewsTypeOK' BY <1>3, <1>8 DEF ViewsInv, ViewsTypeOK, service, view, socket
<1>10. Targets' BY <1>3, <1>5, <1>7 DEF ViewsInv, Targets, OfMessages, view
<1>11. Excerpts'
  <2> SUFFICES ASSUME NEW o \in Pages, NEW r \in loads'[o], OfMessages(r), r.answer.there
               PROVE  Excerpt(r)'
    BY DEF Excerpts
  <2>1. Excerpt(r)
    <3>1. CASE r \in loads[o] BY <3>1 DEF ViewsInv, Excerpts
    <3>2. CASE r = z BY <3>2, <1>4, <1>5 DEF OfMessages
    <3> QED BY <3>1, <3>2, <1>7
  <2> QED BY <1>3, <2>1 DEF Excerpt, service
<1>12. Joining'
  <2> SUFFICES ASSUME NEW o \in Pages, joined[o]
               PROVE  Whole(o)' /\ \A r \in loads'[o] : r.kind = "older" /\ r.fresh => Continues(o, r)'
    BY <1>3 DEF Joining
  <2>1. Whole(o) /\ \A r \in loads[o] : r.kind = "older" /\ r.fresh => Continues(o, r)
    BY DEF ViewsInv, Joining
  <2>2. Whole(o)' BY <1>3, <2>1 DEF Whole, Distinct, service, view
  <2>3. ASSUME NEW r \in loads'[o], r.kind = "older", r.fresh PROVE Continues(o, r)
    <3>1. CASE r \in loads[o] BY <2>1, <2>3, <3>1
    <3>2. CASE o = p /\ r = z
      <4>1. Continues(p, q) BY <2>1, <2>3, <3>2, <1>5
      <4>2. base[p] \subseteq a.read BY <2>1, <2>3, <3>2, <4>1, <1>4, <1>5 DEF Whole, Continues, OfMessages
      <4> QED BY <3>2, <4>1, <4>2, <1>5 DEF Continues
    <3> QED BY <2>3, <3>1, <3>2, <1>7
  <2>4. ASSUME NEW r \in loads'[o], r.kind = "older", r.fresh PROVE Continues(o, r)'
    BY <1>3, <2>3, <2>4 DEF Continues, view
  <2> QED BY <2>2, <2>4
<1>13. Writing' /\ Listening' BY <1>3 DEF ViewsInv, Writing, Listening, view, socket
<1> QED BY <1>9, <1>10, <1>11, <1>12, <1>13 DEF ViewsInv

\* More messages make nothing true of a timestamp that was not.
LEMMA StoresKeeps ==
  ASSUME ViewsInv, NEW p \in Pages, Stores(p)
  PROVE  ViewsInv'
<1> DEFINE s == sending[p]
           m == Message(s)
           q == Asks("sent", s.channel, 0)
<1>1. s \in Sending /\ s.channel \in Channels /\ s.at > 0 BY DEF ViewsInv, ViewsTypeOK, Writing, Stores
<1>2. m \in Messages BY <1>1 DEF Sending, Messages, Message
<1>3. /\ history' = [history EXCEPT ![s.channel] = @ \cup {m}]
      /\ sending' = [sending EXCEPT ![p] = NotSending]
      /\ UNCHANGED <<listed, clock, sent, page, view, socket, told, opens, base, joined, lost>>
  BY DEF Stores, notes
<1>4. /\ q \in Request /\ q.kind = "sent" /\ q.channel = s.channel /\ q.before = 0 /\ ~q.answer.there
  BY <1>1, Asking DEF Kinds
<1>5. s.here => open[p] \in Channels BY DEF ViewsInv, Writing
<1>6. (s.here /\ Load(p, q)) \/ UNCHANGED loads BY DEF Stores
<1> HIDE DEF m, q
<1>7. \A c \in Channels : history[c] \subseteq history'[c] BY <1>1, <1>3 DEF ViewsInv, ViewsTypeOK
<1>8. history' \in [Channels -> SUBSET Messages] BY <1>1, <1>2, <1>3 DEF ViewsInv, ViewsTypeOK
<1>9. ASSUME NEW c \in Channels PROVE IsFiniteSet(history'[c])
  <2>1. IsFiniteSet(history[c]) BY DEF ViewsInv, ViewsTypeOK
  <2>2. history'[c] = history[c] \/ history'[c] = history[c] \cup {m} BY <1>1, <1>3 DEF ViewsInv, ViewsTypeOK
  <2> QED BY <2>1, <2>2, FS_AddElement
<1>10. /\ loads' \in [Pages -> SUBSET Request]
       /\ \A o \in Pages : \A r \in loads'[o] : r \in loads[o] \/ (o = p /\ r = q /\ open[p] \in Channels)
  <2>1. CASE s.here /\ Load(p, q) BY <1>4, <1>5, <2>1, Loading DEF ViewsInv
  <2>2. CASE UNCHANGED loads BY <2>2 DEF ViewsInv, ViewsTypeOK
  <2> QED BY <1>6, <2>1, <2>2
<1>11. NotSending \in Sending /\ NotSending.stage = "no" /\ ~NotSending.here BY DEF NotSending, Sending
<1>12. ViewsTypeOK' BY <1>3, <1>8, <1>9, <1>10, <1>11 DEF ViewsInv, ViewsTypeOK, view, socket
<1>13. Targets' BY <1>1, <1>3, <1>4, <1>10 DEF ViewsInv, Targets, OfMessages, view
<1>14. Excerpts'
  <2> SUFFICES ASSUME NEW o \in Pages, NEW r \in loads'[o], OfMessages(r), r.answer.there
               PROVE  Excerpt(r)'
    BY DEF Excerpts
  <2>1. r \in loads[o] BY <1>4, <1>10
  <2>2. Excerpt(r) /\ r.channel \in Channels BY <2>1 DEF ViewsInv, Excerpts, Targets, OfMessages
  <2> QED BY <1>7, <2>2 DEF Excerpt
<1>15. Joining'
  <2> SUFFICES ASSUME NEW o \in Pages, joined[o]
               PROVE  Whole(o)' /\ \A r \in loads'[o] : r.kind = "older" /\ r.fresh => Continues(o, r)'
    BY <1>3 DEF Joining
  <2>1. Whole(o) /\ \A r \in loads[o] : r.kind = "older" /\ r.fresh => Continues(o, r)
    BY DEF ViewsInv, Joining
  <2>2. open[o] \in Channels BY <2>1 DEF Whole
  <2>3. history[open[o]] \subseteq history'[open[o]] BY <1>7, <2>2
  <2>4. Distinct(open[o])' => Distinct(open[o]) BY <1>3, <2>3 DEF Distinct, view
  <2>5. Whole(o)' BY <1>3, <2>1, <2>3, <2>4 DEF Whole, view
  <2>6. ASSUME NEW r \in loads'[o], r.kind = "older", r.fresh PROVE Continues(o, r)'
    <3>1. Continues(o, r) BY <2>1, <2>6, <1>4, <1>10
    <3> QED BY <1>3, <3>1 DEF Continues, view
  <2> QED BY <2>5, <2>6
<1>16. Writing' BY <1>3, <1>11 DEF ViewsInv, ViewsTypeOK, Writing, view
<1>17. Listening' BY <1>3 DEF ViewsInv, Listening, socket
<1> QED BY <1>12, <1>13, <1>14, <1>15, <1>16, <1>17 DEF ViewsInv

-----------------------------------------------------------------------------
(* The lists of a page                                                      *)

LEMMA CloseHubKeeps ==
  ASSUME ViewsInv, NEW p \in Pages, CloseHub(p)
  PROVE  ViewsInv'
<1> DEFINE m == [sending[p] EXCEPT !.here = FALSE]
<1>1. sending[p] \in Sending BY DEF ViewsInv, ViewsTypeOK
<1>2. m \in Sending /\ ~m.here /\ m.stage = sending[p].stage /\ m.channel = sending[p].channel
      /\ m.at = sending[p].at
  BY <1>1 DEF Sending
<1>3. sending' = [sending EXCEPT ![p] = m] BY DEF CloseHub
<1> HIDE DEF m
<1>4. /\ page' = [page EXCEPT ![p] = FALSE] /\ subscribed' = [subscribed EXCEPT ![p] = FALSE]
      /\ known' = [known EXCEPT ![p] = {}] /\ open' = [open EXCEPT ![p] = None]
      /\ shown' = [shown EXCEPT ![p] = <<>>] /\ more' = [more EXCEPT ![p] = FALSE]
      /\ loads' = [loads EXCEPT ![p] = {}] /\ told' = [told EXCEPT ![p] = {}]
      /\ base' = [base EXCEPT ![p] = {}] /\ joined' = [joined EXCEPT ![p] = FALSE]
      /\ UNCHANGED <<listed, history, clock, sent, checks, opens, lost>>
  BY DEF CloseHub, service
<1>5. sending' \in [Pages -> Sending] BY <1>2, <1>3 DEF ViewsInv, ViewsTypeOK
<1>6. ViewsTypeOK'
  <2>1. /\ page' \in [Pages -> BOOLEAN] /\ subscribed' \in [Pages -> BOOLEAN]
        /\ known' \in [Pages -> SUBSET Channels] /\ open' \in [Pages -> Channels \cup {None}]
        /\ shown' \in [Pages -> Seq(Messages)] /\ more' \in [Pages -> BOOLEAN]
    BY <1>4 DEF ViewsInv, ViewsTypeOK
  <2>2. /\ loads' \in [Pages -> SUBSET Request] /\ base' \in [Pages -> SUBSET Messages]
        /\ told' \in [Pages -> SUBSET [type : {"sent", "created", "rotated"}, channel : Channels]]
        /\ joined' \in [Pages -> BOOLEAN]
    BY <1>4 DEF ViewsInv, ViewsTypeOK
  <2> QED BY <1>4, <1>5, <2>1, <2>2 DEF ViewsInv, ViewsTypeOK
<1>7. Targets' BY <1>4 DEF ViewsInv, ViewsTypeOK, Targets
<1>8. Writing' BY <1>2, <1>3, <1>4 DEF ViewsInv, ViewsTypeOK, Writing
<1>9. Excerpts' BY <1>4 DEF ViewsInv, ViewsTypeOK, Excerpts, Excerpt
<1>10. ASSUME NEW o \in Pages, joined'[o] PROVE o # p BY <1>4, <1>10 DEF ViewsInv, ViewsTypeOK
<1>11. Joining'
  <2> SUFFICES ASSUME NEW o \in Pages, joined'[o]
               PROVE  Whole(o)' /\ \A r \in loads'[o] : r.kind = "older" /\ r.fresh => Continues(o, r)'
    BY DEF Joining
  <2>1. o # p BY <1>10
  <2>2. /\ open'[o] = open[o] /\ shown'[o] = shown[o] /\ more'[o] = more[o] /\ loads'[o] = loads[o]
        /\ base'[o] = base[o] /\ joined[o] /\ history' = history
    BY <1>4, <2>1 DEF ViewsInv, ViewsTypeOK
  <2>3. Whole(o) /\ \A r \in loads[o] : r.kind = "older" /\ r.fresh => Continues(o, r)
    BY <2>2 DEF ViewsInv, Joining
  <2> QED BY <2>2, <2>3 DEF Whole, Continues, Distinct
<1>12. Listening' BY <1>4 DEF ViewsInv, ViewsTypeOK, Listening
<1> QED BY <1>6, <1>7, <1>8, <1>9, <1>11, <1>12 DEF ViewsInv

LEMMA OpenChannelKeeps ==
  ASSUME ViewsInv, NEW p \in Pages, NEW c \in Channels, OpenChannel(p, c)
  PROVE  ViewsInv'
<1> DEFINE q == Asks("open", c, 0)
<1>1. q \in Request /\ q.kind = "open" /\ q.channel = c /\ q.before = 0 /\ ~q.answer.there
  BY Asking DEF Kinds
<1>2. Load(p, q) BY DEF OpenChannel
<1> HIDE DEF q
<1>3. /\ loads' \in [Pages -> SUBSET Request] /\ loads'[p] = loads[p] \cup {q}
      /\ \A o \in Pages \ {p} : loads'[o] = loads[o]
  BY <1>1, <1>2, Loading DEF ViewsInv
<1>4. /\ open' = [open EXCEPT ![p] = c] /\ joined' = [joined EXCEPT ![p] = FALSE]
      /\ UNCHANGED <<service, page, known, shown, more, sending, socket, told, opens, base, lost>>
  BY DEF OpenChannel
<1>5. ViewsTypeOK' BY <1>3, <1>4 DEF ViewsInv, ViewsTypeOK, service, socket
<1>6. Targets' BY <1>1, <1>3, <1>4 DEF ViewsInv, ViewsTypeOK, Targets
<1>7. Writing' BY <1>4 DEF ViewsInv, ViewsTypeOK, Writing
<1>8. Excerpts' BY <1>1, <1>3, <1>4 DEF ViewsInv, Excerpts, Excerpt, service
<1>9. Joining'
  <2> SUFFICES ASSUME NEW o \in Pages, joined'[o]
               PROVE  Whole(o)' /\ \A r \in loads'[o] : r.kind = "older" /\ r.fresh => Continues(o, r)'
    BY DEF Joining
  <2>1. o # p BY <1>4 DEF ViewsInv, ViewsTypeOK
  <2>2. /\ open'[o] = open[o] /\ shown'[o] = shown[o] /\ more'[o] = more[o] /\ loads'[o] = loads[o]
        /\ base'[o] = base[o] /\ joined[o] /\ history' = history
    BY <1>3, <1>4, <2>1 DEF ViewsInv, ViewsTypeOK, service
  <2>3. Whole(o) /\ \A r \in loads[o] : r.kind = "older" /\ r.fresh => Continues(o, r)
    BY <2>2 DEF ViewsInv, Joining
  <2> QED BY <2>2, <2>3 DEF Whole, Continues, Distinct
<1>10. Listening' BY <1>4 DEF ViewsInv, Listening, socket
<1> QED BY <1>5, <1>6, <1>7, <1>8, <1>9, <1>10 DEF ViewsInv

\* When a list is put to use, the requests that were under way for it are not fresh.
LEMMA Staling ==
  ASSUME ViewsInv, NEW p \in Pages, NEW q \in loads[p], loads' = [loads EXCEPT ![p] = Others(p, q)]
  PROVE  /\ loads' \in [Pages -> SUBSET Request]
         /\ \A o \in Pages \ {p} : loads'[o] = loads[o]
         /\ \A r \in loads'[p] : ~r.fresh
         /\ \A r \in loads'[p] : \E s \in loads[p] :
              /\ r.kind = s.kind /\ r.channel = s.channel /\ r.before = s.before /\ r.answer = s.answer
<1>1. loads[p] \in SUBSET Request BY DEF ViewsInv, ViewsTypeOK
<1>2. ASSUME NEW s \in loads[p]
      PROVE  LET r == [s EXCEPT !.fresh = FALSE]
             IN  /\ r \in Request /\ ~r.fresh
                 /\ r.kind = s.kind /\ r.channel = s.channel /\ r.before = s.before /\ r.answer = s.answer
  BY <1>1 DEF Request
<1>3. loads'[p] = {[s EXCEPT !.fresh = FALSE] : s \in loads[p] \ {q}}
  BY DEF Others, ViewsInv, ViewsTypeOK
<1>4. \A r \in loads'[p] : \E s \in loads[p] : r = [s EXCEPT !.fresh = FALSE] BY <1>3
<1>5. ASSUME NEW r \in loads'[p] PROVE r \in Request /\ ~r.fresh
  <2>1. PICK s \in loads[p] : r = [s EXCEPT !.fresh = FALSE] BY <1>4
  <2> QED BY <1>2, <2>1
<1>6. \A o \in Pages \ {p} : loads'[o] = loads[o] BY DEF ViewsInv, ViewsTypeOK
<1>7. loads' \in [Pages -> SUBSET Request] BY <1>5, <1>6 DEF ViewsInv, ViewsTypeOK
<1>8. ASSUME NEW r \in loads'[p]
      PROVE  \E s \in loads[p] :
               r.kind = s.kind /\ r.channel = s.channel /\ r.before = s.before /\ r.answer = s.answer
  <2>1. PICK s \in loads[p] : r = [s EXCEPT !.fresh = FALSE] BY <1>4
  <2>2. s \in Request BY <1>1
  <2>3. r.kind = s.kind /\ r.channel = s.channel /\ r.before = s.before /\ r.answer = s.answer
    BY <2>1, <2>2 DEF Request
  <2> QED BY <2>3
<1> QED BY <1>5, <1>6, <1>7, <1>8

\* What a list that is put to use leaves as it was, whichever it is.
LEMMA Putting ==
  ASSUME ViewsInv, NEW p \in Pages, NEW q \in loads[p], OfMessages(q),
         loads' = [loads EXCEPT ![p] = Others(p, q)],
         UNCHANGED <<service, page, known, open, sending, socket, opens, lost>>,
         \A o \in Pages \ {p} :
           shown'[o] = shown[o] /\ more'[o] = more[o] /\ base'[o] = base[o] /\ joined'[o] = joined[o],
         joined'[p] => Whole(p)'
  PROVE  Targets' /\ Writing' /\ Excerpts' /\ Joining' /\ Listening'
<1>1. open[p] \in Channels BY DEF ViewsInv, Targets
<1>2. /\ \A o \in Pages \ {p} : loads'[o] = loads[o]
      /\ \A r \in loads'[p] : ~r.fresh
      /\ \A r \in loads'[p] : \E s \in loads[p] :
           /\ r.kind = s.kind /\ r.channel = s.channel /\ r.before = s.before /\ r.answer = s.answer
  BY Staling
<1>3. ASSUME NEW o \in Pages, NEW r \in loads'[o]
      PROVE  \E s \in loads[o] :
               r.kind = s.kind /\ r.channel = s.channel /\ r.before = s.before /\ r.answer = s.answer
  <2>1. CASE o = p BY <1>2, <1>3, <2>1
  <2>2. CASE o # p BY <1>2, <1>3, <2>2
  <2> QED BY <2>1, <2>2
<1>4. Targets'
  <2> SUFFICES ASSUME NEW o \in Pages
               PROVE  /\ \A r \in loads'[o] : /\ r.kind # "list" => r.channel \in Channels
                                              /\ r.kind \in {"open", "again", "sent"} => r.before = 0
                                              /\ OfMessages(r) => open[o] \in Channels
                      /\ shown'[o] # <<>> => open[o] \in Channels
    BY DEF Targets
  <2>1. ASSUME NEW r \in loads'[o]
        PROVE  /\ r.kind # "list" => r.channel \in Channels
               /\ r.kind \in {"open", "again", "sent"} => r.before = 0
               /\ OfMessages(r) => open[o] \in Channels
    <3>1. PICK s \in loads[o] : r.kind = s.kind /\ r.channel = s.channel /\ r.before = s.before
      BY <1>3
    <3> QED BY <3>1 DEF ViewsInv, Targets, OfMessages
  <2>2. shown'[o] # <<>> => open[o] \in Channels
    <3>1. CASE o = p BY <1>1, <3>1
    <3>2. CASE o # p BY <3>2 DEF ViewsInv, Targets
    <3> QED BY <3>1, <3>2
  <2> QED BY <2>1, <2>2
<1>5. Excerpts'
  <2> SUFFICES ASSUME NEW o \in Pages, NEW r \in loads'[o], OfMessages(r), r.answer.there
               PROVE  Excerpt(r)'
    BY DEF Excerpts
  <2>1. PICK s \in loads[o] :
          r.kind = s.kind /\ r.channel = s.channel /\ r.before = s.before /\ r.answer = s.answer
    BY <1>3
  <2>2. Excerpt(s) BY <2>1 DEF ViewsInv, Excerpts, OfMessages
  <2> QED BY <2>1, <2>2 DEF Excerpt, Asked, service
<1>6. Joining'
  <2> SUFFICES ASSUME NEW o \in Pages, joined'[o]
               PROVE  Whole(o)' /\ \A r \in loads'[o] : r.kind = "older" /\ r.fresh => Continues(o, r)'
    BY DEF Joining
  <2>1. CASE o = p BY <1>2, <2>1
  <2>2. CASE o # p
    <3>1. /\ shown'[o] = shown[o] /\ more'[o] = more[o] /\ base'[o] = base[o] /\ joined[o]
          /\ loads'[o] = loads[o] /\ history' = history
      BY <1>2, <2>2 DEF service
    <3>2. Whole(o) /\ \A r \in loads[o] : r.kind = "older" /\ r.fresh => Continues(o, r)
      BY <3>1 DEF ViewsInv, Joining
    <3> QED BY <3>1, <3>2 DEF Whole, Continues, Distinct
  <2> QED BY <2>1, <2>2
<1>7. Writing' /\ Listening' BY DEF ViewsInv, Writing, Listening, socket
<1> QED BY <1>4, <1>5, <1>6, <1>7

LEMMA ShowsMessagesKeeps ==
  ASSUME ViewsInv, NEW p \in Pages, NEW q \in loads[p], ShowsMessages(p, q)
  PROVE  ViewsInv'
<1>1. q \in Request /\ q.channel \in Channels /\ q.before = 0 /\ OfMessages(q) /\ Excerpt(q)
  BY DEF ViewsInv, ViewsTypeOK, Targets, Excerpts, ShowsMessages, OfMessages
<1>2. q.answer \in Answer BY <1>1 DEF Request
<1>3. /\ shown' = [shown EXCEPT ![p] = q.answer.messages] /\ more' = [more EXCEPT ![p] = q.answer.more]
      /\ loads' = [loads EXCEPT ![p] = Others(p, q)] /\ base' = [base EXCEPT ![p] = q.answer.read]
      /\ joined' = [joined EXCEPT ![p] = q.channel = open[p]]
      /\ UNCHANGED <<service, page, known, open, sending, socket, opens, lost>>
  BY DEF ShowsMessages
<1>4. told' \in [Pages -> SUBSET [type : {"sent", "created", "rotated"}, channel : Channels]]
  <2>1. CASE Tell(p, "sent", q.channel) BY <1>1, <2>1, Telling DEF ViewsInv
  <2>2. CASE UNCHANGED told BY <2>2 DEF ViewsInv, ViewsTypeOK
  <2> QED BY <2>1, <2>2 DEF ShowsMessages
<1>5. /\ shown'[p] = q.answer.messages /\ more'[p] = q.answer.more /\ base'[p] = q.answer.read
      /\ joined'[p] = (q.channel = open[p])
      /\ \A o \in Pages \ {p} :
           shown'[o] = shown[o] /\ more'[o] = more[o] /\ base'[o] = base[o] /\ joined'[o] = joined[o]
  BY <1>3 DEF ViewsInv, ViewsTypeOK
<1>6. ViewsTypeOK'
  <2>1. shown' \in [Pages -> Seq(Messages)] /\ more' \in [Pages -> BOOLEAN]
        /\ base' \in [Pages -> SUBSET Messages] /\ joined' \in [Pages -> BOOLEAN]
    BY <1>2, <1>3 DEF ViewsInv, ViewsTypeOK, Answer
  <2>2. loads' \in [Pages -> SUBSET Request] BY <1>3, Staling
  <2> QED BY <1>3, <1>4, <2>1, <2>2 DEF ViewsInv, ViewsTypeOK, service, socket
<1>7. ASSUME joined'[p] PROVE Whole(p)'
  <2>1. q.channel = open[p] /\ open' = open /\ history' = history BY <1>3, <1>5, <1>7 DEF service
  <2>2. base'[p] \cup Elements(shown'[p]) \subseteq history[open[p]] BY <1>1, <1>5, <2>1 DEF Excerpt
  <2>3. InOrder(shown'[p]) BY <1>1, <1>5 DEF Excerpt
  <2>4. \A m \in base'[p] :
          \/ m \in Elements(shown'[p])
          \/ more'[p] /\ shown'[p] # <<>> /\ m.at <= shown'[p][1].at
    BY <1>1, <1>5 DEF Excerpt, Asked
  <2> QED BY <1>1, <2>1, <2>2, <2>3, <2>4 DEF Whole
<1>8. Targets' /\ Writing' /\ Excerpts' /\ Joining' /\ Listening' BY <1>1, <1>3, <1>5, <1>7, Putting
<1> QED BY <1>6, <1>8 DEF ViewsInv

\* Two lists in order, the first all before the second, are one.
LEMMA Joined ==
  ASSUME NEW S, NEW s \in Seq(S), NEW t \in Seq(S), InOrder(s), InOrder(t),
         \A m \in S : m.at \in Nat,
         \A m \in Elements(s), o \in Elements(t) : m.at < o.at
  PROVE  /\ InOrder(s \o t) /\ Elements(s \o t) = Elements(s) \cup Elements(t)
         /\ s # <<>> => s \o t # <<>> /\ (s \o t)[1] = s[1]
         /\ s = <<>> => s \o t = t
<1> DEFINE w == s \o t
<1>1. /\ w \in Seq(S) /\ Len(w) = Len(s) + Len(t) /\ Len(s) \in Nat /\ Len(t) \in Nat
      /\ DOMAIN s = 1 .. Len(s) /\ DOMAIN t = 1 .. Len(t) /\ DOMAIN w = 1 .. Len(w)
  OBVIOUS
<1>2. /\ \A i \in 1 .. Len(s) : w[i] = s[i]
      /\ \A i \in 1 .. Len(w) : i > Len(s) => i - Len(s) \in 1 .. Len(t) /\ w[i] = t[i - Len(s)]
      /\ \A i \in 1 .. Len(t) : i + Len(s) \in 1 .. Len(w) /\ w[i + Len(s)] = t[i]
  BY <1>1
<1>3. s = <<>> => w = t OBVIOUS
<1> HIDE DEF w
<1>4. Elements(w) = Elements(s) \cup Elements(t)
  <2>1. ASSUME NEW i \in 1 .. Len(w) PROVE w[i] \in Elements(s) \cup Elements(t)
    <3>1. CASE i <= Len(s) BY <1>1, <1>2, <2>1, <3>1 DEF Elements
    <3>2. CASE i > Len(s) BY <1>1, <1>2, <2>1, <3>2 DEF Elements
    <3> QED BY <1>1, <3>1, <3>2
  <2>2. ASSUME NEW i \in 1 .. Len(s) PROVE s[i] \in Elements(w)
    <3>1. i \in 1 .. Len(w) /\ w[i] = s[i] BY <1>1, <1>2
    <3> QED BY <1>1, <3>1 DEF Elements
  <2>3. ASSUME NEW i \in 1 .. Len(t) PROVE t[i] \in Elements(w) BY <1>1, <1>2 DEF Elements
  <2> QED BY <1>1, <2>1, <2>2, <2>3 DEF Elements
<1>5. InOrder(w)
  <2> SUFFICES ASSUME NEW i \in 1 .. Len(w), NEW j \in 1 .. Len(w), i < j
               PROVE  w[i] # w[j] /\ w[i].at <= w[j].at
    BY <1>1 DEF InOrder
  <2>1. CASE j <= Len(s)
    <3>1. i \in DOMAIN s /\ j \in DOMAIN s /\ w[i] = s[i] /\ w[j] = s[j] BY <1>1, <1>2, <2>1
    <3> QED BY <3>1 DEF InOrder
  <2>2. CASE i > Len(s)
    <3>1. i - Len(s) \in DOMAIN t /\ j - Len(s) \in DOMAIN t /\ i - Len(s) < j - Len(s)
      BY <1>1, <1>2, <2>2
    <3>2. w[i] = t[i - Len(s)] /\ w[j] = t[j - Len(s)] BY <1>1, <1>2, <2>2
    <3> QED BY <3>1, <3>2 DEF InOrder
  <2>3. CASE i <= Len(s) /\ j > Len(s)
    <3>1. i \in 1 .. Len(s) /\ w[i] = s[i] BY <1>1, <1>2, <2>3
    <3>2. j - Len(s) \in 1 .. Len(t) /\ w[j] = t[j - Len(s)] BY <1>1, <1>2, <2>3
    <3>3. w[i] \in Elements(s) /\ w[j] \in Elements(t) BY <1>1, <3>1, <3>2 DEF Elements
    <3>4. w[i] \in S /\ w[j] \in S BY <1>1
    <3>5. w[i].at < w[j].at /\ w[i].at \in Nat /\ w[j].at \in Nat BY <3>3, <3>4
    <3> QED BY <3>5
  <2> QED BY <1>1, <2>1, <2>2, <2>3
<1>6. s # <<>> => w # <<>> /\ w[1] = s[1]
  <2> SUFFICES ASSUME s # <<>> PROVE w # <<>> /\ w[1] = s[1] OBVIOUS
  <2>1. 1 \in 1 .. Len(s) BY <1>1
  <2>2. Len(w) > 0 BY <1>1, <2>1
  <2> QED BY <1>1, <1>2, <2>1, <2>2
<1> QED BY <1>3, <1>4, <1>5, <1>6 DEF w

\* An older page joins the list that it was asked for before.
LEMMA Prepending ==
  ASSUME ViewsInv, NEW p \in Pages, NEW q \in loads[p], Excerpt(q), Whole(p), Continues(p, q),
         q.answer.there, UNCHANGED <<history, open, base>>,
         shown'[p] = q.answer.messages \o shown[p], more'[p] = q.answer.more
  PROVE  Whole(p)'
<1> DEFINE s == q.answer.messages
           t == shown[p]
           c == open[p]
<1>1. q \in Request /\ q.answer \in Answer BY DEF ViewsInv, ViewsTypeOK, Request
<1>2. s \in Seq(Messages) /\ t \in Seq(Messages) /\ t # <<>> BY <1>1 DEF ViewsInv, ViewsTypeOK, Answer, Continues
<1>3. 1 \in DOMAIN t /\ t[1] \in Messages BY <1>2
<1>4. InOrder(s) /\ InOrder(t) BY DEF Excerpt, Whole
<1>5. q.before = t[1].at /\ q.before \in Nat \ {0} BY <1>3 DEF Continues, Messages
<1>6. /\ q.channel = c /\ c \in Channels /\ q.answer.read \subseteq history[c] /\ base[p] \subseteq q.answer.read
      /\ history[c] \subseteq Messages
  BY DEF Excerpt, Whole, Continues, ViewsInv, ViewsTypeOK
<1>7. \A m \in Elements(s) : m \in history[c] /\ m.at < t[1].at BY <1>5, <1>6 DEF Excerpt, Asked
<1>8. Elements(t) \subseteq history[c] /\ t[1] \in Elements(t) BY <1>3 DEF Whole, Elements
<1>9. \A m \in Messages : m.at \in Nat BY DEF Messages
<1> HIDE DEF s, t
<1>10. ASSUME NEW m \in Elements(s), NEW o \in Elements(t) PROVE m.at < o.at
  <2>1. PICK i \in DOMAIN t : o = t[i] BY <1>10 DEF Elements
  <2>2. i \in Nat /\ i >= 1 BY <1>2, <2>1
  <2>3. t[1].at <= o.at
    <3>1. CASE i = 1 BY <1>3, <1>9, <2>1, <3>1
    <3>2. CASE i > 1 BY <1>3, <1>4, <2>1, <2>2, <3>2 DEF InOrder
    <3> QED BY <2>2, <3>1, <3>2
  <2>4. m \in Messages /\ o \in Messages /\ t[1] \in Messages BY <1>3, <1>6, <1>7, <1>8
  <2>5. m.at < t[1].at BY <1>7
  <2> QED BY <1>9, <2>3, <2>4, <2>5
<1>11. /\ InOrder(s \o t) /\ Elements(s \o t) = Elements(s) \cup Elements(t)
       /\ s # <<>> => s \o t # <<>> /\ (s \o t)[1] = s[1]
       /\ s = <<>> => s \o t = t
  BY <1>2, <1>4, <1>9, <1>10, Joined
<1> DEFINE w == s \o t
<1>12. shown'[p] = w BY DEF s, t
<1>13. base[p] \cup Elements(w) \subseteq history[c] BY <1>6, <1>7, <1>8, <1>11
<1>14. ASSUME Distinct(c), NEW m \in base[p], m \notin Elements(w)
       PROVE  q.answer.more /\ w # <<>> /\ m.at <= w[1].at
  <2>1. m \notin Elements(s) /\ m \notin Elements(t) BY <1>11, <1>14
  <2>2. m.at <= t[1].at BY <1>14, <2>1 DEF Whole, t
  <2>3. m \in history[c] /\ t[1] \in history[c] /\ m # t[1] BY <1>6, <1>8, <1>14, <2>1
  <2>4. m.at # t[1].at BY <1>14, <2>3 DEF Distinct
  <2>5. m.at < t[1].at BY <1>3, <1>6, <1>9, <2>2, <2>3, <2>4
  <2>6. m \in q.answer.read /\ Asked(q, m) BY <1>5, <1>6, <1>14, <2>5 DEF Asked
  <2>7. q.answer.more /\ s # <<>> /\ m.at <= s[1].at BY <2>1, <2>6 DEF Excerpt, s
  <2> QED BY <1>11, <2>7
<1> HIDE DEF w
<1>15. \A m \in base'[p] : Distinct(c) =>
         m \in Elements(w) \/ (more'[p] /\ w # <<>> /\ m.at <= w[1].at)
  BY <1>14
<1>16. InOrder(w) BY <1>11 DEF w
<1> QED BY <1>6, <1>12, <1>13, <1>15, <1>16 DEF Whole, Distinct

LEMMA ShowsOlderKeeps ==
  ASSUME ViewsInv, NEW p \in Pages, NEW q \in loads[p], ShowsOlder(p, q)
  PROVE  ViewsInv'
<1>1. q \in Request /\ OfMessages(q) /\ Excerpt(q) /\ q.answer.there /\ q.kind = "older"
  BY DEF ViewsInv, ViewsTypeOK, Excerpts, ShowsOlder, OfMessages
<1>2. q.answer \in Answer BY <1>1 DEF Request
<1>3. /\ shown' = [shown EXCEPT ![p] = q.answer.messages \o @] /\ more' = [more EXCEPT ![p] = q.answer.more]
      /\ loads' = [loads EXCEPT ![p] = Others(p, q)] /\ joined' = [joined EXCEPT ![p] = @ /\ q.fresh]
      /\ UNCHANGED <<service, page, known, open, sending, socket, told, opens, base, lost>>
  BY DEF ShowsOlder
<1>4. q.answer.messages \o shown[p] \in Seq(Messages) BY <1>2 DEF ViewsInv, ViewsTypeOK, Answer
<1>5. /\ shown'[p] = q.answer.messages \o shown[p] /\ more'[p] = q.answer.more /\ base' = base
      /\ joined'[p] = (joined[p] /\ q.fresh)
      /\ \A o \in Pages \ {p} : shown'[o] = shown[o] /\ more'[o] = more[o] /\ joined'[o] = joined[o]
  BY <1>3 DEF ViewsInv, ViewsTypeOK
<1>6. ViewsTypeOK'
  <2>1. shown' \in [Pages -> Seq(Messages)] BY <1>3, <1>4 DEF ViewsInv, ViewsTypeOK
  <2>2. more' \in [Pages -> BOOLEAN] /\ joined' \in [Pages -> BOOLEAN]
    BY <1>1, <1>2, <1>3 DEF ViewsInv, ViewsTypeOK, Answer, Request
  <2>3. loads' \in [Pages -> SUBSET Request] BY <1>3, Staling
  <2> QED BY <1>3, <2>1, <2>2, <2>3 DEF ViewsInv, ViewsTypeOK, service, socket
<1>7. ASSUME joined'[p] PROVE Whole(p)'
  <2>1. joined[p] /\ q.fresh BY <1>5, <1>7
  <2>2. Whole(p) /\ Continues(p, q) BY <1>1, <2>1 DEF ViewsInv, Joining
  <2>3. UNCHANGED <<history, open, base>> BY <1>3 DEF service
  <2> QED BY <1>1, <1>5, <2>2, <2>3, Prepending
<1>8. Targets' /\ Writing' /\ Excerpts' /\ Joining' /\ Listening' BY <1>1, <1>3, <1>5, <1>7, Putting
<1> QED BY <1>6, <1>8 DEF ViewsInv

-----------------------------------------------------------------------------
LEMMA ViewsStutterKeeps == ASSUME ViewsInv, UNCHANGED viewsVars PROVE ViewsInv'
<1>1. UNCHANGED <<service, page, view, loads, sending, socket, told, opens, base, joined, lost>>
  BY DEF viewsVars, notes
<1>2. ViewsTypeOK' BY <1>1 DEF ViewsInv, ViewsTypeOK, service, view, socket
<1>3. Targets' /\ Excerpts' /\ Joining' BY <1>1, ListsStay DEF ViewsInv, service
<1>4. Writing' /\ Listening' BY <1>1 DEF ViewsInv, Writing, Listening, view, socket
<1> QED BY <1>2, <1>3, <1>4 DEF ViewsInv

LEMMA ViewsInductive == ViewsInv /\ [ViewsNext]_viewsVars => ViewsInv'
<1> SUFFICES ASSUME ViewsInv, [ViewsNext]_viewsVars PROVE ViewsInv' OBVIOUS
<1>1. CASE UNCHANGED viewsVars BY <1>1, ViewsStutterKeeps
<1>2. ASSUME NEW p \in Pages, CheckPasses(p) \/ Breaks(p) PROVE ViewsInv'
  BY <1>2, SocketKeeps, LoadFailsKeeps DEF Breaks
<1>3. ASSUME NEW p \in Pages, Shows(p) PROVE ViewsInv'
  BY <1>3, AnswersKeeps, ShowsChannelsKeeps, ShowsMessagesKeeps, ShowsOlderKeeps DEF Shows
<1>4. ASSUME NEW p \in Pages, Posts(p) \/ Listens(p) PROVE ViewsInv'
  BY <1>4, StampsKeeps, StoresKeeps, HearsKeeps DEF Posts, Listens
<1>5. ASSUME NEW p \in Pages, Acts(p) PROVE ViewsInv'
  BY <1>5, OpenHubKeeps, CloseHubKeeps, LoadOlderKeeps, SendKeeps, OpenChannelKeeps,
     OnCreateChannelKeeps
  DEF Acts
<1> QED BY <1>1, <1>2, <1>3, <1>4, <1>5 DEF ViewsNext

THEOREM ViewsInvariant == ViewsSpec => []ViewsInv
BY ViewsInitInv, ViewsInductive, PTL DEF ViewsSpec

\* The variables have their types.
THEOREM ViewsTypeCorrect == ViewsSpec => []ViewsTypeOK
<1>1. ViewsInv => ViewsTypeOK BY DEF ViewsInv
<1> QED BY <1>1, ViewsInvariant, PTL

\* A page that shows the hub has its socket in the hub's room, or a check that will bring it
\* there: a hub:leave of an earlier visit is never handled after the hub:join of a later one.
THEOREM OpenPagesListen == ViewsSpec => []OpenHubsListen
<1>1. ViewsInv => OpenHubsListen BY DEF ViewsInv, ViewsTypeOK, Listening, OpenHubsListen
<1> QED BY <1>1, ViewsInvariant, PTL

\* The pieces of a list join, for pages of any size and however many messages are stored
\* meanwhile, in whatever order.
THEOREM ListsJoin == ViewsSpec => []PagesJoin
<1>1. ASSUME ViewsInv, NEW p \in Pages, joined[p], Distinct(open[p])
      PROVE  /\ \A i, j \in DOMAIN shown[p] : i < j => shown[p][i].at < shown[p][j].at
             /\ \A m \in base[p] :
                  ~more[p] \/ (shown[p] # <<>> /\ m.at >= shown[p][1].at) => m \in Elements(shown[p])
  <2>1. Whole(p) BY <1>1 DEF ViewsInv, Joining
  <2>2. history[open[p]] \subseteq Messages /\ shown[p] \in Seq(Messages)
    BY <1>1, <2>1 DEF ViewsInv, ViewsTypeOK, Whole
  <2>3. \A m \in Messages : m.at \in Nat BY DEF Messages
  <2>4. ASSUME NEW i \in DOMAIN shown[p], NEW j \in DOMAIN shown[p], i < j
        PROVE  shown[p][i].at < shown[p][j].at
    <3>1. shown[p][i] \in history[open[p]] /\ shown[p][j] \in history[open[p]]
      BY <2>1 DEF Whole, Elements
    <3>2. shown[p][i] # shown[p][j] /\ shown[p][i].at <= shown[p][j].at
      BY <2>1, <2>4 DEF Whole, InOrder
    <3>3. shown[p][i].at # shown[p][j].at BY <1>1, <3>1, <3>2 DEF Distinct
    <3> QED BY <2>2, <2>3, <3>1, <3>2, <3>3
  <2>5. ASSUME NEW m \in base[p], m \notin Elements(shown[p])
        PROVE  more[p] /\ (shown[p] # <<>> => ~(m.at >= shown[p][1].at))
    <3>1. more[p] /\ shown[p] # <<>> /\ m.at <= shown[p][1].at BY <1>1, <2>1, <2>5 DEF Whole
    <3>2. 1 \in DOMAIN shown[p] BY <2>2, <3>1
    <3>3. shown[p][1] \in Elements(shown[p]) BY <3>2 DEF Elements
    <3>4. m \in history[open[p]] /\ shown[p][1] \in history[open[p]] /\ m # shown[p][1]
      BY <2>1, <2>5, <3>3 DEF Whole
    <3>5. m.at # shown[p][1].at BY <1>1, <3>4 DEF Distinct
    <3> QED BY <2>2, <2>3, <3>1, <3>4, <3>5
  <2> QED BY <2>4, <2>5
<1>2. ViewsInv => PagesJoin BY <1>1 DEF PagesJoin
<1> QED BY <1>2, ViewsInvariant, PTL

=============================================================================
