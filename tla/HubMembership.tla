--------------------------- MODULE HubMembership ---------------------------
(***************************************************************************)
(* The tables of the hub service for one hub: the hub, its members, its     *)
(* channels with their rotation flags, and its invites.  A handler checks   *)
(* what it reads and then writes, one statement after the other and only in *)
(* RedeemInvite inside a transaction, while other handlers do the same; a   *)
(* statement may fail after earlier ones have been applied.  Rows of the    *)
(* other tables outlive the hub's: no foreign key ties them to it.          *)
(***************************************************************************)
EXTENDS Naturals, FiniteSets

CONSTANTS Users, Owner, Bot,  \* accounts; the one who creates the hub; MusicMan's
          Names,              \* names of channels
          Invites,            \* invite codes
          Requests,           \* bound: requests that are handled at a time
          MaxRows,            \* bound: memberships ever inserted
          MaxChannels         \* bound: channels ever inserted

ASSUME HubAssumption ==
  /\ Owner \in Users /\ Bot \in Users /\ Owner # Bot
  /\ MaxRows \in Nat /\ MaxChannels \in Nat

VARIABLES
  hub,       \* "none", "there" or "deleted"
  created,   \* whether the hub's creation was answered with 201
  members,   \* the membership of each user
  rows,      \* memberships inserted so far; the last one's id
  channels,  \* the id of the channel of each name, 0 if there is none
  chans,     \* channels inserted so far; the last one's id
  flags,     \* channels whose key has to be rotated
  owed,      \* channels not flagged since a membership was removed
  failed,    \* whether a removal failed before it had flagged all channels
  invites,   \* "none", "valid" or "expired"
  req        \* what each request in progress does next

tables == <<hub, members, rows, channels, chans, flags, invites>>
vars == <<tables, created, owed, failed, req>>

NoRow == [id |-> 0, role |-> "none", late |-> FALSE]
Row(role, late) == [id |-> rows + 1, role |-> role, late |-> late]

Step(op, user, row, chs, late) ==
  [op |-> op, user |-> user, row |-> row, chs |-> chs, late |-> late]
Idle == Step("idle", Owner, 0, {}, FALSE)

Existing == {channels[n] : n \in Names} \ {0}
IsMember(u) == members[u] # NoRow
Deleted == hub = "deleted"

\* A handler passes its checks and has "q" to do.
Begins(r, q) == req[r] = Idle /\ req' = [req EXCEPT ![r] = q]
Goes(r, op) == req[r].op = op
Ends(r) == req' = [req EXCEPT ![r] = Idle]

\* A membership is inserted; the unique index on user and hub refuses a second.
Insert(r, role) ==
  LET u == req[r].user IN
  IF IsMember(u)
  THEN UNCHANGED <<members, rows>>
  ELSE /\ rows < MaxRows /\ rows' = rows + 1
       /\ members' = [members EXCEPT ![u] = Row(role, req[r].late)]

-----------------------------------------------------------------------------
(* Hubs                                                                     *)

\* CreateHub inserts the hub,
CreateHub(r) ==
  /\ hub = "none" /\ hub' = "there"
  /\ Begins(r, Step("own", Owner, 0, {}, FALSE))
  /\ UNCHANGED <<created, members, rows, channels, chans, flags, owed, failed, invites>>

\* and then the membership of its owner.
OwnerJoins(r) ==
  /\ Goes(r, "own") /\ Ends(r)
  /\ Insert(r, "owner")
  /\ created' = TRUE
  /\ UNCHANGED <<hub, channels, chans, flags, owed, failed, invites>>

\* DeleteHub: the owner's request, and the hub's row goes.  Nobody knows the id
\* of a hub whose creation was not answered.
DeleteHub(r) ==
  /\ created /\ hub = "there"
  /\ Begins(r, Step("delete", Owner, 0, {}, FALSE))
  /\ UNCHANGED <<tables, created, owed, failed>>

HubGoes(r) ==
  /\ Goes(r, "delete") /\ Ends(r)
  /\ hub' = "deleted"
  /\ UNCHANGED <<created, members, rows, channels, chans, flags, owed, failed, invites>>

\* BotJoinHub does not look at the hub.
BotJoinHub(r) ==
  /\ created /\ ~IsMember(Bot)
  /\ Begins(r, Step("insert", Bot, 0, {}, Deleted))
  /\ UNCHANGED <<tables, created, owed, failed>>

-----------------------------------------------------------------------------
(* Members                                                                  *)

\* InviteMember: the owner, who need not be a member, adds a user.
InviteMember(r, u) ==
  /\ created /\ hub = "there" /\ ~IsMember(u)
  /\ Begins(r, Step("insert", u, 0, {}, Deleted))
  /\ UNCHANGED <<tables, created, owed, failed>>

\* The insertion at the end of InviteMember and BotJoinHub.
Inserts(r) ==
  /\ Goes(r, "insert") /\ Ends(r)
  /\ Insert(r, IF req[r].user = Bot THEN "bot" ELSE "member")
  /\ UNCHANGED <<hub, created, channels, chans, flags, owed, failed, invites>>

\* KickMember: the owner removes anyone but the one with the owner's role.
KickMember(r, u) ==
  /\ hub = "there"
  /\ IsMember(u) /\ members[u].role # "owner"
  /\ Begins(r, Step("remove", u, members[u].id, {}, FALSE))
  /\ UNCHANGED <<tables, created, owed, failed>>

\* Mutant: anyone may leave.
LeaveHubAnyone(r, u) ==
  /\ IsMember(u)
  /\ Begins(r, Step("remove", u, members[u].id, {}, FALSE))
  /\ UNCHANGED <<tables, created, owed, failed>>

\* LeaveHub.
LeaveHub(r, u) ==
  /\ IsMember(u) /\ members[u].role # "owner"
  /\ Begins(r, Step("remove", u, members[u].id, {}, FALSE))
  /\ UNCHANGED <<tables, created, owed, failed>>

\* The row that was read is deleted by its id, if it is still there.
Removes(r) ==
  LET u == req[r].user IN
  /\ Goes(r, "remove")
  /\ members' = IF members[u].id = req[r].row THEN [members EXCEPT ![u] = NoRow] ELSE members
  /\ owed' = owed \cup Existing
  /\ req' = [req EXCEPT ![r].op = "mark"]
  /\ UNCHANGED <<hub, created, rows, channels, chans, flags, failed, invites>>

\* markHubChannelsForRotation lists the hub's channels,
Marks(r) ==
  /\ Goes(r, "mark")
  /\ req' = [req EXCEPT ![r].op = "flag", ![r].chs = Existing]
  /\ UNCHANGED <<tables, created, owed, failed>>

\* sets or refreshes the flag of one after the other,
Flags(r, c) ==
  /\ Goes(r, "flag") /\ c \in req[r].chs
  /\ flags' = flags \cup {c}
  /\ owed' = owed \ {c}
  /\ req' = [req EXCEPT ![r].chs = @ \ {c}]
  /\ UNCHANGED <<hub, created, members, rows, channels, chans, failed, invites>>

\* Mutant: the loop ends with its first channel.
RemovalEndsEarly(r) ==
  /\ Goes(r, "flag") /\ Ends(r)
  /\ UNCHANGED <<tables, created, owed, failed>>

\* and the removal is answered.
RemovalEnds(r) ==
  /\ Goes(r, "flag") /\ req[r].chs = {} /\ Ends(r)
  /\ UNCHANGED <<tables, created, owed, failed>>

-----------------------------------------------------------------------------
(* Invites                                                                  *)

\* CreateInvite, of any member.
CreateInvite(r, u, i) ==
  /\ IsMember(u) /\ invites[i] = "none"
  /\ Begins(r, Step("issue", u, i, {}, FALSE))
  /\ UNCHANGED <<tables, created, owed, failed>>

Issues(r) ==
  /\ Goes(r, "issue") /\ Ends(r)
  /\ invites' = [invites EXCEPT ![req[r].row] = "valid"]
  /\ UNCHANGED <<hub, created, members, rows, channels, chans, flags, owed, failed>>

InviteExpires(i) ==
  /\ invites[i] = "valid" /\ invites' = [invites EXCEPT ![i] = "expired"]
  /\ UNCHANGED <<hub, created, members, rows, channels, chans, flags, owed, failed, req>>

\* RedeemInvite begins its transaction: it locks the invite, which is valid, and
\* finds that the user is no member.
RedeemInvite(r, u, i) ==
  /\ invites[i] = "valid" /\ ~IsMember(u)
  /\ \A s \in Requests : req[s].op \in {"redeem", "commit"} => req[s].row # i
  /\ Begins(r, Step("redeem", u, i, {}, Deleted))
  /\ UNCHANGED <<tables, created, owed, failed>>

\* The membership was inserted and the hub is read; without a hub all is undone.
RedeemFinds(r) ==
  /\ Goes(r, "redeem")
  /\ req' = [req EXCEPT ![r] = IF hub = "there" THEN [@ EXCEPT !.op = "commit"] ELSE Idle]
  /\ UNCHANGED <<tables, created, owed, failed>>

\* The transaction is committed: others see the membership, if none of them has
\* inserted one of the user.
RedeemCommits(r) ==
  /\ Goes(r, "commit") /\ Ends(r)
  /\ Insert(r, "member")
  /\ UNCHANGED <<hub, created, channels, chans, flags, owed, failed, invites>>

-----------------------------------------------------------------------------
(* Channels                                                                 *)

MayEdit(u) == members[u].role \in {"owner", "admin"}

\* CreateChannel, of a name that is free; the unique index refuses a second.
CreateChannel(r, u, n) ==
  /\ MayEdit(u) /\ channels[n] = 0
  /\ Begins(r, Step("channel", u, n, {}, FALSE))
  /\ UNCHANGED <<tables, created, owed, failed>>

ChannelInserts(r) ==
  LET n == req[r].row IN
  /\ Goes(r, "channel") /\ Ends(r)
  /\ IF channels[n] # 0
     THEN UNCHANGED <<channels, chans>>
     ELSE /\ chans < MaxChannels /\ chans' = chans + 1
          /\ channels' = [channels EXCEPT ![n] = chans + 1]
  /\ UNCHANGED <<hub, created, members, rows, flags, owed, failed, invites>>

\* DeleteChannel.
DeleteChannel(r, u, n) ==
  /\ MayEdit(u) /\ channels[n] # 0
  /\ Begins(r, Step("unchannel", u, channels[n], {}, FALSE))
  /\ UNCHANGED <<tables, created, owed, failed>>

ChannelGoes(r) ==
  /\ Goes(r, "unchannel") /\ Ends(r)
  /\ channels' = [n \in Names |-> IF channels[n] = req[r].row THEN 0 ELSE channels[n]]
  /\ UNCHANGED <<hub, created, members, rows, chans, flags, owed, failed, invites>>

\* SetRotationNeeded, of any member.
SetRotationNeeded(u, c) ==
  /\ IsMember(u) /\ c \in Existing
  /\ flags' = flags \cup {c} /\ owed' = owed \ {c}
  /\ UNCHANGED <<hub, created, members, rows, channels, chans, failed, invites, req>>

\* ClearRotationNeeded: a rotation was distributed and its flag is deleted (see ChannelKeys).
ClearRotationNeeded(u, c) ==
  /\ IsMember(u) /\ c \in flags /\ flags' = flags \ {c}
  /\ UNCHANGED <<hub, created, members, rows, channels, chans, owed, failed, invites, req>>

\* The next statement of a request fails: it is answered with 500, and what the
\* statements before it did stays, but for a transaction.
Fails(r) ==
  /\ req[r] # Idle /\ Ends(r)
  /\ failed' = (failed \/ req[r].op \in {"mark", "flag"})
  /\ UNCHANGED <<tables, created, owed>>

-----------------------------------------------------------------------------
Init ==
  /\ hub = "none" /\ created = FALSE
  /\ members = [u \in Users |-> NoRow] /\ rows = 0
  /\ channels = [n \in Names |-> 0] /\ chans = 0
  /\ flags = {} /\ owed = {} /\ failed = FALSE
  /\ invites = [i \in Invites |-> "none"]
  /\ req = [r \in Requests |-> Idle]

Next ==
  \/ \E r \in Requests :
       \/ CreateHub(r) \/ OwnerJoins(r) \/ DeleteHub(r) \/ HubGoes(r) \/ BotJoinHub(r)
       \/ Inserts(r) \/ Removes(r) \/ Marks(r) \/ RemovalEnds(r)
       \/ Issues(r) \/ RedeemFinds(r) \/ RedeemCommits(r)
       \/ ChannelInserts(r) \/ ChannelGoes(r) \/ Fails(r)
       \/ \E c \in 1 .. MaxChannels : Flags(r, c)
       \/ \E u \in Users :
            \/ InviteMember(r, u) \/ KickMember(r, u) \/ LeaveHub(r, u)
            \/ \E i \in Invites : CreateInvite(r, u, i) \/ RedeemInvite(r, u, i)
            \/ \E n \in Names : CreateChannel(r, u, n) \/ DeleteChannel(r, u, n)
  \/ \E i \in Invites : InviteExpires(i)
  \/ \E u \in Users, c \in 1 .. MaxChannels : SetRotationNeeded(u, c) \/ ClearRotationNeeded(u, c)

Spec == Init /\ [][Next]_vars

-----------------------------------------------------------------------------
Rows == [id : 0 .. MaxRows, role : {"none", "owner", "member", "bot"}, late : BOOLEAN]

\* Types of the variables.
TypeOK ==
  /\ hub \in {"none", "there", "deleted"} /\ created \in BOOLEAN /\ failed \in BOOLEAN
  /\ members \in [Users -> Rows] /\ rows \in 0 .. MaxRows
  /\ channels \in [Names -> 0 .. MaxChannels] /\ chans \in 0 .. MaxChannels
  /\ flags \subseteq 1 .. MaxChannels /\ owed \subseteq 1 .. MaxChannels
  /\ invites \in [Invites -> {"none", "valid", "expired"}]

\* A hub whose creation was answered has its owner among its members for as long
\* as it exists, whatever removals, joins and invitations cross each other.
CreatedHubsAreOwned ==
  created /\ hub = "there" => members[Owner].role = "owner"

Removing(r) == req[r].op \in {"mark", "flag"}

\* A removal that ends well leaves no channel behind that existed when the
\* membership went and was not flagged after that, although channels come and
\* go, others are removed and flags are cleared while it lists and flags them.
RemovalsFlagAll ==
  (\A r \in Requests : ~Removing(r)) /\ ~failed => owed \cap Existing = {}

\* Nobody joins a hub that was deleted before the request began: the insertion
\* of a redeemed invite is undone with its transaction, and an invitation looks
\* at the hub first.  The bot alone joins a hub that is no more.
DeletedHubsTakeNobody == \A u \in Users \ {Bot} : ~members[u].late
=============================================================================
