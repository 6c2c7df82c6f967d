--------------------------- MODULE RoomKeysProofs ---------------------------
(***************************************************************************)
(* Proofs about RoomKeys, for every set of pages and voice channels and    *)
(* every choice of the bounds.                                             *)
(***************************************************************************)
EXTENDS RoomKeys, SequenceTheorems, TLAPS

-----------------------------------------------------------------------------
(* Lists of users                                                           *)

\* Whoever is taken from a list that has nobody twice is in it no more, and nobody
\* else leaves it.
LEMMA LackingOne ==
  ASSUME NEW S, NEW s \in Seq(S), IsInjective(s), NEW p
  PROVE  /\ Lacking(s, p) \in Seq(S)
         /\ IsInjective(Lacking(s, p))
         /\ ToSet(Lacking(s, p)) = ToSet(s) \ {p}
<1>1. CASE p \notin ToSet(s)
  BY <1>1 DEF Lacking
<1>2. CASE p \in ToSet(s)
  <2> DEFINE n == CHOOSE i \in DOMAIN s : s[i] = p
             t == Lacking(s, p)
  <2>1. n \in DOMAIN s /\ s[n] = p /\ DOMAIN s = 1..Len(s) /\ Len(s) \in Nat
    BY <1>2, LenProperties DEF ToSet
  <2>2. t = SubSeq(s, 1, n - 1) \o SubSeq(s, n + 1, Len(s))
    BY <1>2 DEF Lacking, RemoveAt
  <2> HIDE DEF n, t
  <2> DEFINE a == SubSeq(s, 1, n - 1)
             b == SubSeq(s, n + 1, Len(s))
  <2>3. a \in Seq(S) /\ Len(a) = n - 1 /\ \A i \in 1..(n - 1) : a[i] = s[i]
    BY <2>1
  <2>4. b \in Seq(S) /\ Len(b) = Len(s) - n /\ \A i \in 1..(Len(s) - n) : b[i] = s[n + i]
    BY <2>1
  <2>5. t = a \o b
    BY <2>2
  <2> HIDE DEF a, b
  <2>6. /\ t \in Seq(S) /\ DOMAIN t = 1..(Len(s) - 1)
        /\ \A i \in 1..(n - 1) : t[i] = s[i]
        /\ \A i \in n..(Len(s) - 1) : t[i] = s[i + 1]
    <3>1. t \in Seq(S) /\ Len(t) = Len(s) - 1
      <4>1. a \o b \in Seq(S) /\ Len(a \o b) = Len(a) + Len(b)
        BY <2>3, <2>4, ConcatProperties
      <4>2. QED
        BY <2>1, <2>3, <2>4, <2>5, <4>1
    <3>2. \A i \in 1..(n - 1) : t[i] = s[i]
      BY <2>1, <2>3, <2>4, <2>5, ConcatProperties
    <3>3. ASSUME NEW i \in n..(Len(s) - 1) PROVE t[i] = s[i + 1]
      <4>1. i \in 1..(Len(a) + Len(b)) /\ i > Len(a) /\ i - Len(a) \in 1..(Len(s) - n)
            /\ n + (i - Len(a)) = i + 1
        BY <2>1, <2>3, <2>4
      <4>2. t[i] = b[i - Len(a)]
        BY <2>3, <2>4, <2>5, <4>1, ConcatProperties
      <4>3. QED
        BY <2>4, <4>1, <4>2
    <3>4. QED
      BY <3>1, <3>2, <3>3, LenProperties
  <2> DEFINE Was(i) == IF i < n THEN i ELSE i + 1
  <2>7. \A i \in DOMAIN t : Was(i) \in DOMAIN s /\ Was(i) # n /\ t[i] = s[Was(i)]
    BY <2>1, <2>6
  <2>8. IsInjective(t)
    <3>1. \A i, j \in DOMAIN t : Was(i) = Was(j) => i = j
      BY <2>1, <2>6
    <3> HIDE DEF Was
    <3>2. QED
      BY <2>7, <3>1 DEF IsInjective
  <2>9. ToSet(t) \subseteq ToSet(s) \ {p}
    BY <2>1, <2>7 DEF IsInjective, ToSet
  <2>10. ASSUME NEW i \in DOMAIN s, s[i] # p PROVE s[i] \in ToSet(t)
    <3>1. CASE i < n
      BY <2>1, <2>6, <3>1 DEF ToSet
    <3>2. CASE i > n
      <4>1. i - 1 \in DOMAIN t /\ t[i - 1] = s[i]
        BY <2>1, <2>6, <3>2
      <4>2. QED
        BY <4>1 DEF ToSet
    <3>3. QED
      BY <2>1, <2>10, <3>1, <3>2
  <2>11. ToSet(t) = ToSet(s) \ {p}
    BY <2>9, <2>10 DEF ToSet
  <2>12. QED
    BY <2>6, <2>8, <2>11 DEF t
<1>3. QED
  BY <1>1, <1>2

\* Who joins a list that lacks it is the last of it.
LEMMA Appended ==
  ASSUME NEW S, NEW s \in Seq(S), IsInjective(s), NEW p \in S, p \notin ToSet(s)
  PROVE  /\ Append(s, p) \in Seq(S)
         /\ IsInjective(Append(s, p))
         /\ ToSet(Append(s, p)) = ToSet(s) \cup {p}
<1>1. /\ Append(s, p) \in Seq(S) /\ DOMAIN Append(s, p) = 1..(Len(s) + 1)
      /\ DOMAIN s = 1..Len(s) /\ Len(s) \in Nat
      /\ \A i \in 1..Len(s) : Append(s, p)[i] = s[i]
      /\ Append(s, p)[Len(s) + 1] = p
  BY AppendProperties, LenProperties
<1>2. IsInjective(Append(s, p))
  BY <1>1 DEF IsInjective, ToSet
<1>3. ToSet(Append(s, p)) \subseteq ToSet(s) \cup {p}
  BY <1>1 DEF ToSet
<1>4. ToSet(s) \cup {p} \subseteq ToSet(Append(s, p))
  <2>1. \A i \in DOMAIN s : s[i] \in ToSet(Append(s, p))
    BY <1>1 DEF ToSet
  <2>2. p \in ToSet(Append(s, p))
    BY <1>1 DEF ToSet
  <2>3. QED
    BY <2>1, <2>2 DEF ToSet
<1>5. QED
  BY <1>1, <1>2, <1>3, <1>4

-----------------------------------------------------------------------------
(* Inboxes                                                                  *)

\* The first message of an inbox is taken out: the others move up.
LEMMA TookFirst ==
  ASSUME NEW box \in [Pages -> Seq(Message)], NEW p \in Pages, box[p] # <<>>,
         NEW new, new = [box EXCEPT ![p] = Tail(@)]
  PROVE  /\ new \in [Pages -> Seq(Message)]
         /\ 1 \in DOMAIN box[p] /\ box[p][1] = Head(box[p]) /\ Head(box[p]) \in Message
         /\ \A q \in Pages : q # p => new[q] = box[q]
         /\ \A i \in DOMAIN new[p] : i \in Nat /\ i >= 1 /\ i + 1 \in DOMAIN box[p] /\ new[p][i] = box[p][i + 1]
         /\ \A i \in DOMAIN box[p] : i # 1 => i - 1 \in DOMAIN new[p] /\ new[p][i - 1] = box[p][i]
<1> DEFINE s == box[p]
<1>1. s \in Seq(Message) /\ s # <<>>
  OBVIOUS
<1>2. /\ Head(s) \in Message /\ Tail(s) \in Seq(Message)
      /\ DOMAIN s = 1..Len(s) /\ DOMAIN Tail(s) = 1..(Len(s) - 1) /\ Len(s) \in Nat \ {0}
      /\ Head(s) = s[1] /\ \A i \in 1..(Len(s) - 1) : Tail(s)[i] = s[i + 1]
  BY <1>1, HeadTailProperties, LenProperties, EmptySeq
<1>3. new[p] = Tail(s) /\ new \in [Pages -> Seq(Message)] /\ \A q \in Pages : q # p => new[q] = box[q]
  BY <1>2
<1> HIDE DEF s
<1>4. /\ \A i \in DOMAIN new[p] : i \in Nat /\ i >= 1 /\ i + 1 \in DOMAIN s /\ new[p][i] = s[i + 1]
      /\ \A i \in DOMAIN s : i # 1 => i - 1 \in DOMAIN new[p] /\ new[p][i - 1] = s[i]
  BY <1>2, <1>3
<1>5. QED
  BY <1>2, <1>3, <1>4 DEF s

\* A message is put into an inbox, after what is there.
LEMMA PutLast ==
  ASSUME NEW box \in [Pages -> Seq(Message)], NEW p \in Pages, NEW e \in Message,
         NEW new, new = [box EXCEPT ![p] = Append(@, e)]
  PROVE  /\ new \in [Pages -> Seq(Message)]
         /\ \A q \in Pages : q # p => new[q] = box[q]
         /\ \A i \in DOMAIN new[p] : \/ i \in DOMAIN box[p] /\ new[p][i] = box[p][i]
                                     \/ i = Len(box[p]) + 1 /\ new[p][i] = e
         /\ \A i \in DOMAIN box[p] : i \in DOMAIN new[p] /\ new[p][i] = box[p][i]
         /\ Len(box[p]) + 1 \in DOMAIN new[p] /\ new[p][Len(box[p]) + 1] = e
         /\ Len(box[p]) + 1 \notin DOMAIN box[p]
<1> DEFINE s == box[p]
<1>1. /\ Append(s, e) \in Seq(Message) /\ DOMAIN Append(s, e) = 1..(Len(s) + 1)
      /\ DOMAIN s = 1..Len(s) /\ Len(s) \in Nat
      /\ \A i \in 1..Len(s) : Append(s, e)[i] = s[i]
      /\ Append(s, e)[Len(s) + 1] = e
  BY AppendProperties, LenProperties
<1>2. new[p] = Append(s, e) /\ new \in [Pages -> Seq(Message)] /\ \A q \in Pages : q # p => new[q] = box[q]
  BY <1>1
<1> HIDE DEF s
<1>3. QED
  <2>1. DOMAIN new[p] = 1..(Len(s) + 1)
    BY <1>1, <1>2
  <2>2. /\ \A i \in DOMAIN new[p] : \/ i \in DOMAIN s /\ new[p][i] = s[i]
                                    \/ i = Len(s) + 1 /\ new[p][i] = e
        /\ \A i \in DOMAIN s : i \in DOMAIN new[p] /\ new[p][i] = s[i]
        /\ Len(s) + 1 \in DOMAIN new[p] /\ new[p][Len(s) + 1] = e
        /\ Len(s) + 1 \notin DOMAIN s
    BY <1>1, <1>2, <2>1
  <2>3. QED
    BY <1>2, <2>2 DEF s

-----------------------------------------------------------------------------
(* Types and books                                                          *)

\* What the relay and the pages keep, however pages join: the relay knows the RSA
\* key of every page, no key is older than it says, a closed page has nothing and is
\* nowhere, nobody is twice in a room.
Distinct == \A r \in Rooms : IsInjective(members[r])

Sealed(p) ==
  \A i \in DOMAIN inbox[p] :
    LET e == inbox[p][i] IN
    /\ e.wrapped <= opens
    /\ e.kind \in {"request", "response"} => e.wrapped # 0
    /\ e.kind = "response" => e.key # 0

Closed(p) ==
  /\ checking[p] = None /\ inbox[p] = <<>> /\ calls[p] = {}
  /\ \A r \in Rooms : ~In(p, r)

Books ==
  /\ rsa = gen
  /\ Distinct
  /\ \A p \in Pages : gen[p] <= opens /\ Sealed(p) /\ (gen[p] = 0 => Closed(p))

\* Leaving, one room may be stayed in.
LEMMA LeavesRooms ==
  ASSUME TypeOK, Distinct, NEW p \in Pages, NEW kept, members' = Without(p, kept)
  PROVE  /\ members' \in [Rooms -> Seq(Pages)]
         /\ Distinct'
         /\ \A q \in Pages, r \in Rooms : In(q, r)' <=> In(q, r) /\ (q # p \/ r = kept)
<1>1. ASSUME NEW r \in Rooms
      PROVE  /\ members'[r] \in Seq(Pages) /\ IsInjective(members'[r])
             /\ \A q \in Pages : q \in ToSet(members'[r]) <=> q \in ToSet(members[r]) /\ (q # p \/ r = kept)
  <2>1. members[r] \in Seq(Pages) /\ IsInjective(members[r])
    BY DEF TypeOK, Distinct
  <2>2. members'[r] = IF r = kept THEN members[r] ELSE Lacking(members[r], p)
    BY DEF Without
  <2>3. QED
    BY <2>1, <2>2, LackingOne
<1>2. members' = [r \in Rooms |-> members'[r]]
  BY DEF Without
<1>3. QED
  BY <1>1, <1>2 DEF Distinct, In

\* Being let in.
LEMMA EntersRoom ==
  ASSUME TypeOK, Distinct, NEW p \in Pages, Granted(p)
  PROVE  /\ members' \in [Rooms -> Seq(Pages)]
         /\ Distinct'
         /\ \A q \in Pages, r \in Rooms : In(q, r)' <=> In(q, r) \/ (q = p /\ r = checking[p])
<1> DEFINE n == checking[p]
           new == IF In(p, n) THEN members[n] ELSE Append(members[n], p)
<1>1. n \in Rooms /\ members' = [members EXCEPT ![n] = new]
  BY DEF Granted, TypeOK
<1>2. members[n] \in Seq(Pages) /\ IsInjective(members[n])
  BY <1>1 DEF TypeOK, Distinct
<1>3. new \in Seq(Pages) /\ IsInjective(new) /\ ToSet(new) = ToSet(members[n]) \cup {p}
  <2>1. CASE In(p, n)
    BY <1>2, <2>1 DEF In
  <2>2. CASE ~In(p, n)
    BY <1>1, <1>2, <2>2, Appended DEF In
  <2>3. QED
    BY <2>1, <2>2
<1> HIDE DEF n, new
<1>4. members' \in [Rooms -> Seq(Pages)]
  BY <1>1, <1>3 DEF TypeOK
<1>5. \A r \in Rooms : members'[r] = IF r = n THEN new ELSE members[r]
  BY <1>1 DEF TypeOK
<1>6. Distinct'
  BY <1>3, <1>5 DEF Distinct
<1>7. \A q \in Pages, r \in Rooms : In(q, r)' <=> In(q, r) \/ (q = p /\ r = n)
  BY <1>3, <1>5 DEF In
<1>8. QED
  BY <1>4, <1>6, <1>7 DEF n

LEMMA MessagesAre ==
  /\ \A e \in Message : /\ e.kind \in {"all-users", "request", "response"}
                        /\ e.key \in Nat /\ e.wrapped \in Nat
                        /\ e.kind = "all-users" => e.users \in Seq(Pages)
                        /\ e.kind = "request" => e.room \in Rooms /\ e.page \in Pages
  /\ \A users \in Seq(Pages) : AllUsers(users) \in Message
  /\ \A r \in Rooms, p \in Pages, k \in Nat : Request(r, p, k) \in Message
  /\ \A k, w \in Nat : Response(k, w) \in Message
BY DEF Message, AllUsers, Request, Response, Event

LEMMA CallsAre ==
  /\ \A c \in Call : /\ c.room \in Rooms /\ c.stage \in {"generating", "seeking", "asked"}
                     /\ c.stage \in {"seeking", "asked"} => c.from \in Pages
                     /\ c.stage = "seeking" => [c EXCEPT !.stage = "asked"] \in Call
  /\ \A p \in Pages, r \in Rooms, users \in Seq(Pages) : Joins(p, r, users) \in SUBSET Call
<1>1. \A c \in Call : /\ c.room \in Rooms /\ c.stage \in {"generating", "seeking", "asked"}
                      /\ c.stage \in {"seeking", "asked"} => c.from \in Pages
                      /\ c.stage = "seeking" => [c EXCEPT !.stage = "asked"] \in Call
  BY DEF Call
<1>2. ASSUME NEW p \in Pages, NEW r \in Rooms, NEW users \in Seq(Pages)
      PROVE  Joins(p, r, users) \in SUBSET Call
  <2>1. users # <<>> => Head(users) \in Pages
    BY HeadTailProperties
  <2>2. QED
    BY <2>1 DEF Joins, Call
<1>3. QED
  BY <1>1, <1>2

LEMMA TypeInit == Init => TypeOK /\ Books
<1> SUFFICES ASSUME Init PROVE TypeOK /\ Books
  OBVIOUS
<1>1. \A S : <<>> \in Seq(S) /\ IsInjective(<<>>) /\ ToSet(<<>>) = {}
  BY DEF IsInjective, ToSet
<1>2. TypeOK
  BY <1>1 DEF Init, TypeOK
<1>3. Books
  BY <1>1 DEF Init, Books, Distinct, Sealed, Closed, In
<1>4. QED
  BY <1>2, <1>3

\* The parts that several actions share.
LEMMA FilesType ==
  ASSUME TypeOK, NEW p \in Pages, NEW ended, NEW k \in Nat, Files(p, ended, k)
  PROVE  /\ keys' \in [Pages -> [Rooms -> Nat]]
         /\ calls' \in [Pages -> SUBSET Call]
         /\ joined' \in [Pages -> BOOLEAN]
<1>1. [r \in Rooms |-> IF \E c \in ended : c.room = r THEN k ELSE keys[p][r]] \in [Rooms -> Nat]
  BY DEF TypeOK
<1>2. (joined[p] \/ \E c \in ended : c.room = Ephemeral) \in BOOLEAN
  OBVIOUS
<1>3. joined' \in [Pages -> BOOLEAN]
  BY <1>2 DEF TypeOK, Files
<1>4. QED
  BY <1>1, <1>3 DEF TypeOK, Files

LEMMA ForgetsType ==
  ASSUME TypeOK, NEW p \in Pages, Forgets(p)
  PROVE  keys' \in [Pages -> [Rooms -> Nat]] /\ cur' \in [Pages -> Rooms \cup {None}]
<1>1. [r \in Rooms |-> IF r = cur[p] THEN 0 ELSE keys[p][r]] \in [Rooms -> Nat]
  BY DEF TypeOK
<1>2. QED
  BY <1>1 DEF TypeOK, Forgets

LEMMA JoinType ==
  ASSUME TypeOK, Distinct, NEW p \in Pages, NEW r \in Rooms, Join(p, r)
  PROVE  /\ members' \in [Rooms -> Seq(Pages)]
         /\ checking' \in [Pages -> Rooms \cup {None}]
         /\ pub' \in [Pages -> [Pages -> Nat]]
         /\ joins' \in Nat
<1>1. members' \in [Rooms -> Seq(Pages)]
  BY LeavesRooms DEF Join
<1>2. pub' \in [Pages -> [Pages -> Nat]]
  BY DEF Join, Introduced, TypeOK
<1>3. checking' \in [Pages -> Rooms \cup {None}]
  BY DEF Join, TypeOK
<1>4. joins' \in Nat
  BY DEF Join, TypeOK
<1>5. QED
  BY <1>1, <1>2, <1>3, <1>4

LEMMA TypeNext == TypeOK /\ Books /\ [Next]_vars => TypeOK'
<1> SUFFICES ASSUME TypeOK, Books, [Next]_vars PROVE TypeOK'
  OBVIOUS
<1> USE DEF relay, crypto, shown, counts, notes
<1>0. Distinct
  BY DEF Books
<1>1. ASSUME NEW p \in Pages, HearsUsers(p) PROVE TypeOK'
  <2>1. inbox[p] # <<>> /\ inbox' = [inbox EXCEPT ![p] = Tail(@)] /\ inbox \in [Pages -> Seq(Message)]
    BY <1>1 DEF HearsUsers, TypeOK
  <2>2. inbox' \in [Pages -> Seq(Message)] /\ Head(inbox[p]) \in Message
    BY <2>1, TookFirst
  <2>3. Head(inbox[p]).users \in Seq(Pages)
    BY <1>1, <2>2, MessagesAre DEF HearsUsers
  <2>4. TakenFor(p) \subseteq Rooms
    BY DEF TakenFor, TypeOK, Rooms
  <2>5. UNION {Joins(p, r, Head(inbox[p]).users) : r \in TakenFor(p)} \in SUBSET Call
    BY <2>3, <2>4, CallsAre
  <2>6. calls' \in [Pages -> SUBSET Call]
    BY <1>1, <2>5 DEF HearsUsers, TypeOK
  <2>7. cur' \in [Pages -> Rooms \cup {None}] /\ waiting' \in [Pages -> BOOLEAN]
    BY <1>1 DEF HearsUsers, TypeOK, Rooms
  <2>8. QED
    BY <1>1, <2>2, <2>6, <2>7 DEF HearsUsers, TypeOK
<1>2. ASSUME NEW p \in Pages, HearsRequest(p) PROVE TypeOK'
  <2> DEFINE e == Head(inbox[p])
             k == keys[p][e.room]
             rest == [inbox EXCEPT ![p] = Tail(@)]
  <2>1. inbox[p] # <<>> /\ inbox \in [Pages -> Seq(Message)] /\ e.kind = "request"
    BY <1>2 DEF HearsRequest, TypeOK
  <2>2. rest \in [Pages -> Seq(Message)] /\ e \in Message
    BY <2>1, TookFirst
  <2>3. e.room \in Rooms /\ e.page \in Pages /\ e.wrapped \in Nat
    BY <2>1, <2>2, MessagesAre
  <2>4. k \in Nat
    BY <2>3 DEF TypeOK
  <2>5. Response(k, e.wrapped) \in Message
    BY <2>3, <2>4, MessagesAre
  <2>6. /\ pub' = [pub EXCEPT ![p][e.page] = e.wrapped]
        /\ inbox' = IF k # 0 /\ gen[e.page] # 0
                    THEN [rest EXCEPT ![e.page] = Append(@, Response(k, e.wrapped))] ELSE rest
        /\ ignored' = [ignored EXCEPT ![e.page] = @ \/ (k = 0 /\ Current(e))]
    BY <1>2 DEF HearsRequest
  <2> HIDE DEF e, k, rest
  <2>7. inbox' \in [Pages -> Seq(Message)]
    BY <2>2, <2>3, <2>5, <2>6, PutLast
  <2>8. pub' \in [Pages -> [Pages -> Nat]]
    BY <2>3, <2>6 DEF TypeOK
  <2>9. ignored' \in [Pages -> BOOLEAN]
    <3>1. (ignored[e.page] \/ (k = 0 /\ Current(e))) \in BOOLEAN
      OBVIOUS
    <3>2. QED
      BY <2>6, <3>1 DEF TypeOK
  <2>10. QED
    BY <1>2, <2>7, <2>8, <2>9 DEF HearsRequest, TypeOK
<1>3. ASSUME NEW p \in Pages, HearsResponse(p) PROVE TypeOK'
  <2> DEFINE e == Head(inbox[p])
             asked == {c \in calls[p] : c.stage = "asked"}
  <2>1. inbox[p] # <<>> /\ inbox \in [Pages -> Seq(Message)] /\ inbox' = [inbox EXCEPT ![p] = Tail(@)]
    BY <1>3 DEF HearsResponse, TypeOK
  <2>2. inbox' \in [Pages -> Seq(Message)] /\ e \in Message
    BY <2>1, TookFirst
  <2>3. e.key \in Nat
    BY <2>2, MessagesAre
  <2>4. IF e.wrapped = gen[p] THEN Files(p, asked, e.key) /\ UNCHANGED disturbed
        ELSE /\ calls' = [calls EXCEPT ![p] = @ \ asked]
             /\ disturbed' = (disturbed \/ asked # {})
             /\ UNCHANGED <<keys, joined>>
    BY <1>3 DEF HearsResponse
  <2> HIDE DEF e, asked
  <2>5. CASE e.wrapped = gen[p]
    BY <1>3, <2>2, <2>3, <2>4, <2>5, FilesType DEF HearsResponse, TypeOK
  <2>6. CASE e.wrapped # gen[p]
    <3>1. disturbed' \in BOOLEAN
      BY <2>4, <2>6
    <3>2. calls' \in [Pages -> SUBSET Call]
      <4>1. calls[p] \ asked \in SUBSET Call /\ calls \in [Pages -> SUBSET Call]
        BY DEF TypeOK
      <4>2. QED
        BY <2>4, <2>6, <4>1
    <3>3. QED
      BY <1>3, <2>2, <2>4, <2>6, <3>1, <3>2 DEF HearsResponse, TypeOK
  <2>7. QED
    BY <2>5, <2>6
<1>4. ASSUME NEW p \in Pages, NEW c \in calls[p], Generates(p, c) PROVE TypeOK'
  <2>1. made' \in Nat /\ Files(p, {c}, made')
    BY <1>4 DEF Generates, TypeOK
  <2>2. QED
    BY <1>4, <2>1, FilesType DEF Generates, TypeOK
<1>5. ASSUME NEW p \in Pages, NEW c \in calls[p], Asks(p, c) PROVE TypeOK'
  <2> DEFINE relayed == In(p, c.room) /\ In(c.from, c.room)
  <2>1. c \in Call /\ c.stage = "seeking"
    BY <1>5 DEF Asks, TypeOK
  <2>2. c.room \in Rooms /\ c.from \in Pages /\ [c EXCEPT !.stage = "asked"] \in Call
    BY <2>1, CallsAre
  <2>3. Request(c.room, p, rsa[p]) \in Message
    BY <2>2, MessagesAre DEF TypeOK
  <2>4. /\ inbox' = IF relayed THEN [inbox EXCEPT ![c.from] = Append(@, Request(c.room, p, rsa[p]))] ELSE inbox
        /\ ignored' = [ignored EXCEPT ![p] = ~relayed]
        /\ calls' = [calls EXCEPT ![p] = (@ \ {c}) \cup {[c EXCEPT !.stage = "asked"]}]
    BY <1>5 DEF Asks
  <2>5. calls' \in [Pages -> SUBSET Call]
    BY <2>2, <2>4 DEF TypeOK
  <2> HIDE DEF relayed
  <2>6. inbox' \in [Pages -> Seq(Message)]
    <3>1. inbox \in [Pages -> Seq(Message)]
      BY DEF TypeOK
    <3>2. QED
      BY <2>2, <2>3, <2>4, <3>1, PutLast
  <2>7. ignored' \in [Pages -> BOOLEAN]
    <3>1. (~relayed) \in BOOLEAN
      BY DEF relayed
    <3>2. QED
      BY <2>4, <3>1 DEF TypeOK
  <2>8. QED
    BY <1>5, <2>5, <2>6, <2>7 DEF Asks, TypeOK
<1>6. ASSUME NEW p \in Pages, NEW c \in calls[p], GivesUp(p, c) PROVE TypeOK'
  BY <1>6 DEF GivesUp, TypeOK
<1>7. ASSUME NEW p \in Pages, Granted(p) PROVE TypeOK'
  <2> DEFINE u == Lacking(members[checking[p]], p)
  <2>1. members' \in [Rooms -> Seq(Pages)]
    BY <1>0, <1>7, EntersRoom
  <2>2. u \in Seq(Pages)
    <3>1. checking[p] \in Rooms
      BY <1>7 DEF Granted, TypeOK
    <3>2. members[checking[p]] \in Seq(Pages) /\ IsInjective(members[checking[p]])
      BY <1>0, <3>1 DEF TypeOK, Distinct
    <3>3. QED
      BY <3>2, LackingOne
  <2>3. inbox' = [inbox EXCEPT ![p] = Append(@, AllUsers(u))]
    BY <1>7 DEF Granted
  <2> HIDE DEF u
  <2>4. inbox' \in [Pages -> Seq(Message)]
    <3>1. inbox \in [Pages -> Seq(Message)] /\ AllUsers(u) \in Message
      BY <2>2, MessagesAre DEF TypeOK
    <3>2. QED
      BY <2>3, <3>1, PutLast
  <2>5. QED
    BY <1>7, <2>1, <2>4 DEF Granted, TypeOK
<1>8. ASSUME NEW p \in Pages, Refused(p) PROVE TypeOK'
  BY <1>8 DEF Refused, TypeOK
<1>9. ASSUME NEW p \in Pages, Polls(p) PROVE TypeOK'
  <2>1. joined' \in [Pages -> BOOLEAN]
    <3>1. (joined[p] /\ active) \in BOOLEAN
      OBVIOUS
    <3>2. QED
      BY <1>9, <3>1 DEF Polls, TypeOK
  <2>2. QED
    BY <1>9, <2>1 DEF Polls, TypeOK
<1>10. ASSUME NEW p \in Pages, Open(p) PROVE TypeOK'
  BY <1>10 DEF Open, TypeOK
<1>11. ASSUME NEW p \in Pages, Close(p) PROVE TypeOK'
  <2>1. members' \in [Rooms -> Seq(Pages)]
    BY <1>0, <1>11, LeavesRooms DEF Close
  <2>2. ignored' \in [Pages -> BOOLEAN]
    BY <1>11 DEF Close
  <2>3. inbox' \in [Pages -> Seq(Message)]
    BY <1>11 DEF Close, TypeOK
  <2>4. QED
    BY <1>11, <2>1, <2>2, <2>3 DEF Close, TypeOK
<1>12. ASSUME NEW p \in Pages, Leaves(p)
       PROVE  /\ members' \in [Rooms -> Seq(Pages)] /\ keys' \in [Pages -> [Rooms -> Nat]]
              /\ cur' \in [Pages -> Rooms \cup {None}] /\ disturbed' \in BOOLEAN
  BY <1>0, <1>12, LeavesRooms, ForgetsType DEF Leaves, Joining
<1>13. ASSUME NEW p \in Pages, LeaveVoice(p) \/ LeaveEphemeral(p) \/ EndEphemeral(p) PROVE TypeOK'
  <2>1. Leaves(p)
    BY <1>13 DEF LeaveVoice, LeaveEphemeral, EndEphemeral
  <2>2. QED
    BY <1>12, <1>13, <2>1 DEF LeaveVoice, LeaveEphemeral, EndEphemeral, Leaves, TypeOK
<1>14. ASSUME NEW p \in Pages, JoinEphemeral(p) PROVE TypeOK'
  <2>1. Ephemeral \in Rooms /\ Join(p, Ephemeral)
    BY <1>14 DEF JoinEphemeral, Rooms
  <2>2. disturbed' \in BOOLEAN
    BY <1>14 DEF JoinEphemeral, Joining
  <2>3. QED
    BY <1>0, <1>14, <2>1, <2>2, JoinType DEF JoinEphemeral, Join, TypeOK
<1>15. ASSUME NEW p \in Pages, StartEphemeral(p) PROVE TypeOK'
  BY <1>15 DEF StartEphemeral, TypeOK
<1>16. ASSUME NEW p \in Pages, NEW r \in Voice, JoinVoice(p, r) PROVE TypeOK'
  <2>1. r \in Rooms /\ Join(p, r)
    BY <1>16 DEF JoinVoice, Rooms
  <2>2. disturbed' \in BOOLEAN
    BY <1>16 DEF JoinVoice, Joining
  <2>3. keys' \in [Pages -> [Rooms -> Nat]] /\ cur' \in [Pages -> Rooms \cup {None}]
    BY <1>16, ForgetsType DEF JoinVoice, TypeOK
  <2>4. QED
    BY <1>0, <1>16, <2>1, <2>2, <2>3, JoinType DEF JoinVoice, Join, TypeOK
<1>17. CASE Expires
  BY <1>17 DEF Expires, TypeOK
<1>18. CASE UNCHANGED vars
  BY <1>18 DEF vars, TypeOK
<1>19. QED
  BY <1>1, <1>2, <1>3, <1>4, <1>5, <1>6, <1>7, <1>8, <1>9, <1>10, <1>11, <1>13, <1>14, <1>15,
     <1>16, <1>17, <1>18 DEF Next, Hears, Works, Acts

\* What the actions do to the inboxes.  In that of a page that has taken a message
\* the others are one place up.
Up(p, q) == IF q = p THEN 1 ELSE 0

Taken(p) ==
  /\ 1 \in DOMAIN inbox[p] /\ inbox[p][1] = Head(inbox[p]) /\ Head(inbox[p]) \in Message
  /\ \A q \in Pages : \A i \in DOMAIN inbox'[q] :
       /\ i \in Nat /\ i >= 1 /\ i + Up(p, q) \in DOMAIN inbox[q]
       /\ inbox'[q][i] = inbox[q][i + Up(p, q)]
  /\ \A q \in Pages : \A i \in DOMAIN inbox[q] :
       q # p \/ i # 1 => i - Up(p, q) \in DOMAIN inbox'[q] /\ inbox'[q][i - Up(p, q)] = inbox[q][i]

LEMMA TakenIs ==
  ASSUME TypeOK, NEW p \in Pages, inbox[p] # <<>>, inbox' = [inbox EXCEPT ![p] = Tail(@)]
  PROVE  Taken(p)
<1>1. inbox \in [Pages -> Seq(Message)]
  BY DEF TypeOK
<1>2. \A q \in Pages : \A i \in DOMAIN inbox[q] : i \in Nat /\ i >= 1
  BY <1>1, LenProperties
<1>3. /\ 1 \in DOMAIN inbox[p] /\ inbox[p][1] = Head(inbox[p]) /\ Head(inbox[p]) \in Message
      /\ \A q \in Pages : q # p => inbox'[q] = inbox[q]
      /\ \A i \in DOMAIN inbox'[p] : i \in Nat /\ i >= 1 /\ i + 1 \in DOMAIN inbox[p] /\ inbox'[p][i] = inbox[p][i + 1]
      /\ \A i \in DOMAIN inbox[p] : i # 1 => i - 1 \in DOMAIN inbox'[p] /\ inbox'[p][i - 1] = inbox[p][i]
  BY <1>1, TookFirst
<1>4. QED
  BY <1>2, <1>3 DEF Taken, Up

\* A message is the last of an inbox.
Posted(p, e, n) ==
  /\ n \in DOMAIN inbox'[p] /\ n \notin DOMAIN inbox[p] /\ inbox'[p][n] = e
  /\ \A q \in Pages : \A i \in DOMAIN inbox'[q] :
       \/ i \in DOMAIN inbox[q] /\ inbox'[q][i] = inbox[q][i]
       \/ q = p /\ i = n
  /\ \A q \in Pages : \A i \in DOMAIN inbox[q] : i \in DOMAIN inbox'[q] /\ inbox'[q][i] = inbox[q][i]

LEMMA PostedIs ==
  ASSUME TypeOK, NEW p \in Pages, NEW e \in Message, inbox' = [inbox EXCEPT ![p] = Append(@, e)]
  PROVE  Posted(p, e, Len(inbox[p]) + 1)
<1>1. inbox \in [Pages -> Seq(Message)]
  BY DEF TypeOK
<1>2. /\ \A q \in Pages : q # p => inbox'[q] = inbox[q]
      /\ \A i \in DOMAIN inbox'[p] : \/ i \in DOMAIN inbox[p] /\ inbox'[p][i] = inbox[p][i]
                                     \/ i = Len(inbox[p]) + 1 /\ inbox'[p][i] = e
      /\ \A i \in DOMAIN inbox[p] : i \in DOMAIN inbox'[p] /\ inbox'[p][i] = inbox[p][i]
      /\ Len(inbox[p]) + 1 \in DOMAIN inbox'[p] /\ inbox'[p][Len(inbox[p]) + 1] = e
      /\ Len(inbox[p]) + 1 \notin DOMAIN inbox[p]
  BY <1>1, PutLast
<1>3. QED
  BY <1>2 DEF Posted

\* A request is taken and answered, or not.
Answered(p, n) ==
  LET e == inbox[p][1]
      k == keys[p][e.room]
      answers == k # 0 /\ gen[e.page] # 0 IN
  /\ 1 \in DOMAIN inbox[p] /\ e = Head(inbox[p]) /\ e \in Message /\ e.kind = "request"
  /\ e.room \in Rooms /\ e.page \in Pages /\ e.wrapped \in Nat /\ k \in Nat
  /\ \A q \in Pages : \A i \in DOMAIN inbox'[q] :
       \/ /\ i \in Nat /\ i >= 1 /\ i + Up(p, q) \in DOMAIN inbox[q]
          /\ inbox'[q][i] = inbox[q][i + Up(p, q)]
       \/ answers /\ q = e.page /\ i = n
  /\ \A q \in Pages : \A i \in DOMAIN inbox[q] :
       q # p \/ i # 1 => i - Up(p, q) \in DOMAIN inbox'[q] /\ inbox'[q][i - Up(p, q)] = inbox[q][i]
  /\ answers => n \in DOMAIN inbox'[e.page] /\ inbox'[e.page][n] = Response(k, e.wrapped)

LEMMA AnsweredIs ==
  ASSUME TypeOK, NEW p \in Pages, HearsRequest(p)
  PROVE  \E n \in Nat : Answered(p, n)
<1> DEFINE e == Head(inbox[p])
           k == keys[p][e.room]
           rest == [inbox EXCEPT ![p] = Tail(@)]
           n == Len(rest[e.page]) + 1
<1>1. inbox[p] # <<>> /\ inbox \in [Pages -> Seq(Message)] /\ e.kind = "request"
  BY DEF HearsRequest, TypeOK
<1>2. \A q \in Pages : \A i \in DOMAIN inbox[q] : i \in Nat /\ i >= 1
  BY <1>1, LenProperties
<1>3. /\ rest \in [Pages -> Seq(Message)]
      /\ 1 \in DOMAIN inbox[p] /\ inbox[p][1] = e /\ e \in Message
      /\ \A q \in Pages : q # p => rest[q] = inbox[q]
      /\ \A i \in DOMAIN rest[p] : i \in Nat /\ i >= 1 /\ i + 1 \in DOMAIN inbox[p] /\ rest[p][i] = inbox[p][i + 1]
      /\ \A i \in DOMAIN inbox[p] : i # 1 => i - 1 \in DOMAIN rest[p] /\ rest[p][i - 1] = inbox[p][i]
  BY <1>1, TookFirst
<1>4. e.room \in Rooms /\ e.page \in Pages /\ e.wrapped \in Nat
  BY <1>1, <1>3, MessagesAre
<1>5. k \in Nat /\ Response(k, e.wrapped) \in Message
  <2>1. k \in Nat
    BY <1>4 DEF TypeOK
  <2>2. QED
    BY <1>4, <2>1, MessagesAre
<1>6. inbox' = IF k # 0 /\ gen[e.page] # 0
               THEN [rest EXCEPT ![e.page] = Append(@, Response(k, e.wrapped))] ELSE rest
  BY DEF HearsRequest
<1>7. n \in Nat
  <2>1. rest[e.page] \in Seq(Message)
    BY <1>3, <1>4
  <2>2. QED
    BY <2>1, LenProperties
<1> HIDE DEF rest
<1>8. /\ \A q \in Pages : \A i \in DOMAIN rest[q] : /\ i \in Nat /\ i >= 1 /\ i + Up(p, q) \in DOMAIN inbox[q]
                                                    /\ rest[q][i] = inbox[q][i + Up(p, q)]
      /\ \A q \in Pages : \A i \in DOMAIN inbox[q] :
           q # p \/ i # 1 => i - Up(p, q) \in DOMAIN rest[q] /\ rest[q][i - Up(p, q)] = inbox[q][i]
  <2> HIDE DEF e
  <2>1. Up(p, p) = 1 /\ \A q \in Pages : q # p => Up(p, q) = 0
    BY DEF Up
  <2>2. ASSUME NEW q \in Pages
        PROVE  /\ \A i \in DOMAIN rest[q] : /\ i \in Nat /\ i >= 1 /\ i + Up(p, q) \in DOMAIN inbox[q]
                                           /\ rest[q][i] = inbox[q][i + Up(p, q)]
               /\ \A i \in DOMAIN inbox[q] :
                    q # p \/ i # 1 => i - Up(p, q) \in DOMAIN rest[q] /\ rest[q][i - Up(p, q)] = inbox[q][i]
    <3>1. CASE q = p
      <4>1. Up(p, q) = 1
        BY <2>1, <3>1, Zenon
      <4>2. /\ \A i \in DOMAIN rest[q] : /\ i \in Nat /\ i >= 1 /\ i + 1 \in DOMAIN inbox[q]
                                         /\ rest[q][i] = inbox[q][i + 1]
            /\ \A i \in DOMAIN inbox[q] : i # 1 => i - 1 \in DOMAIN rest[q] /\ rest[q][i - 1] = inbox[q][i]
        BY <1>3, <3>1, Zenon
      <4>3. QED
        BY <3>1, <4>1, <4>2
    <3>2. CASE q # p
      <4>1. Up(p, q) = 0 /\ rest[q] = inbox[q]
        BY <1>3, <2>1, <3>2, Zenon
      <4>2. \A i \in DOMAIN inbox[q] : i \in Nat /\ i >= 1 /\ i + 0 = i /\ i - 0 = i
        BY <1>2
      <4>3. QED
        BY <4>1, <4>2
    <3>3. QED
      BY <3>1, <3>2
  <2>3. QED
    BY <2>2
<1>9. CASE k # 0 /\ gen[e.page] # 0
  <2>1. /\ \A q \in Pages : q # e.page => inbox'[q] = rest[q]
        /\ \A i \in DOMAIN inbox'[e.page] : \/ i \in DOMAIN rest[e.page] /\ inbox'[e.page][i] = rest[e.page][i]
                                            \/ i = n /\ inbox'[e.page][i] = Response(k, e.wrapped)
        /\ \A i \in DOMAIN rest[e.page] : i \in DOMAIN inbox'[e.page] /\ inbox'[e.page][i] = rest[e.page][i]
        /\ n \in DOMAIN inbox'[e.page] /\ inbox'[e.page][n] = Response(k, e.wrapped)
    <3> HIDE DEF e, k
    <3>1. inbox' = [rest EXCEPT ![e.page] = Append(@, Response(k, e.wrapped))]
      BY <1>6, <1>9
    <3>2. QED
      BY <1>3, <1>4, <1>5, <3>1, PutLast
  <2> HIDE DEF e, k, n
  <2>2. /\ \A q \in Pages : \A i \in DOMAIN inbox'[q] : \/ i \in DOMAIN rest[q] /\ inbox'[q][i] = rest[q][i]
                                                        \/ q = e.page /\ i = n
        /\ \A q \in Pages : \A i \in DOMAIN rest[q] : i \in DOMAIN inbox'[q] /\ inbox'[q][i] = rest[q][i]
    BY <2>1
  <2>3. /\ \A q \in Pages : \A i \in DOMAIN inbox'[q] :
             \/ i \in Nat /\ i >= 1 /\ i + Up(p, q) \in DOMAIN inbox[q] /\ inbox'[q][i] = inbox[q][i + Up(p, q)]
             \/ q = e.page /\ i = n
        /\ \A q \in Pages : \A i \in DOMAIN inbox[q] :
             q # p \/ i # 1 => i - Up(p, q) \in DOMAIN inbox'[q] /\ inbox'[q][i - Up(p, q)] = inbox[q][i]
    BY <1>8, <2>2
  <2>4. Answered(p, n)
    <3> USE DEF e, k
    <3>1. QED
      BY <1>1, <1>3, <1>4, <1>5, <1>9, <2>1, <2>3 DEF Answered
  <2>5. QED
    BY <1>7, <2>4 DEF n
<1>10. CASE ~(k # 0 /\ gen[e.page] # 0)
  <2>1. inbox' = rest
    BY <1>6, <1>10
  <2>2. Answered(p, n)
    <3> HIDE DEF n
    <3>1. QED
      BY <1>1, <1>3, <1>4, <1>5, <1>8, <1>10, <2>1 DEF Answered
  <2>3. QED
    BY <1>7, <2>2
<1>11. QED
  BY <1>9, <1>10

\* A page that is not closed may be given anything; the messages of an inbox are
\* sealed if those that were there before are.
LEMMA SealedTaken ==
  ASSUME TypeOK, NEW p \in Pages, Taken(p), opens' = opens, \A q \in Pages : Sealed(q)
  PROVE  \A q \in Pages : Sealed(q)'
BY DEF Sealed, Taken

LEMMA SealedPosted ==
  ASSUME TypeOK, NEW p \in Pages, NEW e \in Message, NEW n, Posted(p, e, n), opens' = opens,
         \A q \in Pages : Sealed(q),
         e.wrapped <= opens, e.kind \in {"request", "response"} => e.wrapped # 0,
         e.kind = "response" => e.key # 0
  PROVE  \A q \in Pages : Sealed(q)'
BY DEF Sealed, Posted

LEMMA SealedAnswered ==
  ASSUME TypeOK, NEW p \in Pages, NEW n, Answered(p, n), opens' = opens,
         \A q \in Pages : Sealed(q)
  PROVE  \A q \in Pages : Sealed(q)'
<1> DEFINE e == inbox[p][1]
<1>1. e.wrapped <= opens /\ e.wrapped # 0
  BY DEF Answered, Sealed
<1>2. Response(keys[p][e.room], e.wrapped).wrapped = e.wrapped
      /\ Response(keys[p][e.room], e.wrapped).key = keys[p][e.room]
      /\ Response(keys[p][e.room], e.wrapped).kind = "response"
  BY DEF Response, Event
<1>3. ASSUME NEW q \in Pages, NEW i \in DOMAIN inbox'[q]
      PROVE  LET m == inbox'[q][i] IN
             /\ m.wrapped <= opens
             /\ m.kind \in {"request", "response"} => m.wrapped # 0
             /\ m.kind = "response" => m.key # 0
  <2>1. CASE i + Up(p, q) \in DOMAIN inbox[q] /\ inbox'[q][i] = inbox[q][i + Up(p, q)]
    BY <2>1 DEF Sealed
  <2>2. CASE inbox'[q][i] = Response(keys[p][e.room], e.wrapped) /\ keys[p][e.room] # 0
    BY <1>1, <1>2, <2>2
  <2>3. QED
    BY <2>1, <2>2 DEF Answered
<1>4. QED
  BY <1>3 DEF Sealed

LEMMA BooksNext == TypeOK /\ Books /\ [Next]_vars => Books'
<1> SUFFICES ASSUME TypeOK, Books, [Next]_vars PROVE Books'
  OBVIOUS
<1> USE DEF relay, crypto, shown, counts, notes
<1>0. Distinct /\ rsa = gen /\ \A q \in Pages : gen[q] <= opens /\ Sealed(q) /\ (gen[q] = 0 => Closed(q))
  BY DEF Books
\* An action that leaves keys and rooms, and does not come to a closed page.
<1>a. ASSUME UNCHANGED <<rsa, gen, members, opens>>, \A q \in Pages : Sealed(q)',
             \A q \in Pages : gen[q] = 0 => checking'[q] = None /\ inbox'[q] = <<>> /\ calls'[q] = {}
      PROVE  Books'
  BY <1>0, <1>a DEF Books, Distinct, Closed, In
<1>b. ASSUME NEW p \in Pages, gen[p] # 0 \/ ~Closed(p) PROVE gen[p] # 0
  BY <1>0, <1>b
<1>1. ASSUME NEW p \in Pages, HearsUsers(p) PROVE Books'
  <2>1. gen[p] # 0
    BY <1>b, <1>1 DEF HearsUsers, Closed
  <2>2. Taken(p)
    BY <1>1, TakenIs DEF HearsUsers
  <2>3. \A q \in Pages : Sealed(q)'
    BY <1>0, <1>1, <2>2, SealedTaken DEF HearsUsers
  <2>4. \A q \in Pages : gen[q] = 0 => checking'[q] = None /\ inbox'[q] = <<>> /\ calls'[q] = {}
    BY <1>0, <1>1, <2>1 DEF HearsUsers, Closed, TypeOK
  <2>5. QED
    BY <1>a, <1>1, <2>3, <2>4 DEF HearsUsers
<1>2. ASSUME NEW p \in Pages, HearsRequest(p) PROVE Books'
  <2>1. gen[p] # 0
    BY <1>b, <1>2 DEF HearsRequest, Closed
  <2>2. PICK n \in Nat : Answered(p, n)
    BY <1>2, AnsweredIs
  <2>3. \A q \in Pages : Sealed(q)'
    BY <1>0, <1>2, <2>2, SealedAnswered DEF HearsRequest
  <2>4. ASSUME NEW q \in Pages, gen[q] = 0 PROVE inbox'[q] = <<>>
    <3>1. inbox[q] = <<>> /\ q # p
      BY <1>0, <2>1, <2>4 DEF Closed
    <3>2. QED
      BY <1>2, <2>4, <3>1 DEF HearsRequest, TypeOK
  <2>5. QED
    BY <1>0, <1>a, <1>2, <2>3, <2>4 DEF HearsRequest, Closed
<1>3. ASSUME NEW p \in Pages, HearsResponse(p) PROVE Books'
  <2>1. gen[p] # 0
    BY <1>b, <1>3 DEF HearsResponse, Closed
  <2>2. Taken(p)
    BY <1>3, TakenIs DEF HearsResponse
  <2>3. \A q \in Pages : Sealed(q)'
    BY <1>0, <1>3, <2>2, SealedTaken DEF HearsResponse
  <2>4. \A q \in Pages : q # p => calls'[q] = calls[q] /\ inbox'[q] = inbox[q]
    BY <1>3 DEF HearsResponse, Files, TypeOK
  <2>5. QED
    BY <1>0, <1>a, <1>3, <2>1, <2>3, <2>4 DEF HearsResponse, Closed
<1>4. ASSUME NEW p \in Pages, NEW c \in calls[p], Generates(p, c) PROVE Books'
  <2>1. gen[p] # 0
    BY <1>b, <1>4 DEF Closed
  <2>2. \A q \in Pages : Sealed(q)'
    BY <1>0, <1>4 DEF Generates, Sealed
  <2>3. \A q \in Pages : q # p => calls'[q] = calls[q]
    BY <1>4 DEF Generates, Files, TypeOK
  <2>4. QED
    BY <1>0, <1>a, <1>4, <2>1, <2>2, <2>3 DEF Generates, Closed
<1>5. ASSUME NEW p \in Pages, NEW c \in calls[p], Asks(p, c) PROVE Books'
  <2> DEFINE e == Request(c.room, p, rsa[p])
  <2>1. gen[p] # 0
    BY <1>b, <1>5 DEF Closed
  <2>2. c \in Call /\ c.room \in Rooms /\ c.from \in Pages
    BY <1>5, CallsAre DEF Asks, TypeOK
  <2>3. e \in Message /\ e.wrapped = gen[p] /\ e.kind = "request"
    BY <1>0, <2>2, MessagesAre DEF TypeOK, Request, Event
  <2> HIDE DEF e
  <2>4. CASE In(p, c.room) /\ In(c.from, c.room)
    <3>1. inbox' = [inbox EXCEPT ![c.from] = Append(@, e)]
      BY <1>5, <2>4 DEF Asks, e
    <3>2. Posted(c.from, e, Len(inbox[c.from]) + 1)
      BY <2>2, <2>3, <3>1, PostedIs
    <3>3. \A q \in Pages : Sealed(q)'
      BY <1>0, <1>5, <2>1, <2>2, <2>3, <3>2, SealedPosted DEF Asks
    <3>4. gen[c.from] # 0
      BY <1>b, <2>2, <2>4 DEF Closed
    <3>5. QED
      BY <1>0, <1>a, <1>5, <2>1, <3>1, <3>3, <3>4 DEF Asks, Closed, TypeOK
  <2>5. CASE ~(In(p, c.room) /\ In(c.from, c.room))
    <3>1. inbox' = inbox
      BY <1>5, <2>5 DEF Asks
    <3>2. \A q \in Pages : Sealed(q)'
      BY <1>0, <1>5, <3>1 DEF Asks, Sealed
    <3>3. QED
      BY <1>0, <1>a, <1>5, <2>1, <3>1, <3>2 DEF Asks, Closed, TypeOK
  <2>6. QED
    BY <2>4, <2>5
<1>6. ASSUME NEW p \in Pages, NEW c \in calls[p], GivesUp(p, c) PROVE Books'
  <2>1. \A q \in Pages : Sealed(q)'
    BY <1>0, <1>6 DEF GivesUp, Sealed
  <2>2. QED
    BY <1>0, <1>a, <1>6, <2>1 DEF GivesUp, Closed, TypeOK
<1>7. ASSUME NEW p \in Pages, Granted(p) PROVE Books'
  <2> DEFINE e == AllUsers(Lacking(members[checking[p]], p))
  <2>1. gen[p] # 0
    BY <1>b, <1>7 DEF Granted, Closed
  <2>2. e \in Message /\ e.kind = "all-users" /\ e.wrapped = 0
    <3>1. checking[p] \in Rooms
      BY <1>7 DEF Granted, TypeOK
    <3>2. Lacking(members[checking[p]], p) \in Seq(Pages)
      BY <1>0, <3>1, LackingOne DEF Distinct, TypeOK
    <3>3. QED
      BY <3>2, MessagesAre DEF AllUsers, Event
  <2>3. inbox' = [inbox EXCEPT ![p] = Append(@, e)]
    BY <1>7 DEF Granted
  <2> HIDE DEF e
  <2>4. Posted(p, e, Len(inbox[p]) + 1)
    BY <2>2, <2>3, PostedIs
  <2>5. \A q \in Pages : Sealed(q)'
    <3>1. e.wrapped <= opens /\ opens' = opens
      BY <1>7, <2>2 DEF Granted, TypeOK
    <3>2. QED
      BY <1>0, <2>2, <2>4, <3>1, SealedPosted
  <2>6. Distinct' /\ \A q \in Pages, r \in Rooms : In(q, r)' <=> In(q, r) \/ (q = p /\ r = checking[p])
    BY <1>0, <1>7, EntersRoom
  <2>7. ASSUME NEW q \in Pages, gen[q] = 0 PROVE Closed(q)'
    <3>1. q # p /\ Closed(q)
      BY <1>0, <2>1, <2>7
    <3>2. checking'[q] = None /\ inbox'[q] = <<>> /\ calls'[q] = {}
      BY <1>7, <2>3, <3>1 DEF Granted, Closed, TypeOK
    <3>3. QED
      BY <2>6, <3>1, <3>2 DEF Closed
  <2>8. QED
    BY <1>0, <1>7, <2>5, <2>6, <2>7 DEF Granted, Books
<1>8. ASSUME NEW p \in Pages, Refused(p) PROVE Books'
  <2>1. \A q \in Pages : Sealed(q)'
    BY <1>0, <1>8 DEF Refused, Sealed
  <2>2. QED
    BY <1>0, <1>a, <1>8, <2>1 DEF Refused, Closed, TypeOK
\* What does not touch what the books are about.
<1>9. ASSUME UNCHANGED <<rsa, gen, members, opens, checking, inbox, calls>> PROVE Books'
  <2>1. \A q \in Pages : Sealed(q)'
    BY <1>0, <1>9 DEF Sealed
  <2>2. QED
    BY <1>0, <1>a, <1>9, <2>1 DEF Closed
<1>10. ASSUME NEW p \in Pages, Open(p) PROVE Books'
  <2>1. /\ opens' = opens + 1 /\ gen' = [gen EXCEPT ![p] = opens'] /\ rsa' = [rsa EXCEPT ![p] = opens']
        /\ UNCHANGED <<members, checking, inbox, calls>>
    BY <1>10 DEF Open
  <2>2. \A q \in Pages : gen'[q] <= opens' /\ (gen'[q] = 0 => gen[q] = 0)
    BY <1>0, <2>1 DEF TypeOK
  <2>3. \A q \in Pages : Sealed(q)'
    <3>1. \A q \in Pages : \A i \in DOMAIN inbox[q] : inbox[q][i] \in Message
      BY DEF TypeOK
    <3>2. \A q \in Pages : \A i \in DOMAIN inbox[q] : inbox[q][i].wrapped \in Nat
      BY <3>1, MessagesAre
    <3>3. QED
      BY <1>0, <2>1, <3>2 DEF Sealed, TypeOK
  <2>4. \A q \in Pages : Closed(q) => Closed(q)'
    BY <2>1 DEF Closed, In
  <2>5. Distinct' /\ rsa' = gen'
    BY <1>0, <2>1 DEF Distinct
  <2>6. QED
    BY <1>0, <2>2, <2>3, <2>4, <2>5 DEF Books
<1>11. ASSUME NEW p \in Pages, Close(p) PROVE Books'
  <2>1. Distinct' /\ \A q \in Pages, r \in Rooms : In(q, r)' <=> In(q, r) /\ (q # p \/ r = None)
    BY <1>0, <1>11, LeavesRooms DEF Close
  <2>2. /\ gen' = [gen EXCEPT ![p] = 0] /\ rsa' = [rsa EXCEPT ![p] = 0]
        /\ checking' = [checking EXCEPT ![p] = None] /\ inbox' = [inbox EXCEPT ![p] = <<>>]
        /\ calls' = [calls EXCEPT ![p] = {}] /\ opens' = opens
    BY <1>11 DEF Close
  <2>3. ASSUME NEW q \in Pages PROVE gen'[q] <= opens' /\ Sealed(q)' /\ (gen'[q] = 0 => Closed(q)')
    <3>1. CASE q = p
      <4>1. gen'[p] = 0 /\ inbox'[p] = <<>> /\ checking'[p] = None /\ calls'[p] = {}
        BY <2>2 DEF TypeOK
      <4>2. \A r \in Rooms : ~In(p, r)'
        BY <2>1, RoomAssumption
      <4>3. DOMAIN inbox'[p] = {}
        BY <4>1
      <4>4. QED
        BY <2>2, <3>1, <4>1, <4>2, <4>3 DEF Sealed, Closed, TypeOK
    <3>2. CASE q # p
      <4>1. gen'[q] = gen[q] /\ inbox'[q] = inbox[q] /\ checking'[q] = checking[q] /\ calls'[q] = calls[q]
        BY <2>2, <3>2 DEF TypeOK
      <4>2. QED
        BY <1>0, <2>1, <2>2, <4>1 DEF Sealed, Closed
    <3>3. QED
      BY <3>1, <3>2
  <2>4. QED
    BY <1>0, <2>1, <2>2, <2>3 DEF Books
\* Who leaves stays what it is.
<1>12. ASSUME NEW p \in Pages, NEW kept, members' = Without(p, kept), gen[p] # 0,
              \A q \in Pages : q # p => checking'[q] = checking[q],
              UNCHANGED <<rsa, gen, opens, inbox, calls>>
       PROVE  Books'
  <2>1. Distinct' /\ \A q \in Pages, r \in Rooms : In(q, r)' => In(q, r)
    BY <1>0, <1>12, LeavesRooms
  <2>2. \A q \in Pages : Sealed(q)'
    BY <1>0, <1>12 DEF Sealed
  <2>3. QED
    BY <1>0, <1>12, <2>1, <2>2 DEF Books, Closed
<1>13. ASSUME NEW p \in Pages, LeaveVoice(p) \/ LeaveEphemeral(p) \/ EndEphemeral(p) PROVE Books'
  <2>1. Leaves(p) /\ UNCHANGED opens
    BY <1>13 DEF LeaveVoice, LeaveEphemeral, EndEphemeral, Leaves
  <2>2. Distinct' /\ \A q \in Pages, r \in Rooms : In(q, r)' => In(q, r)
    BY <1>0, <2>1, LeavesRooms DEF Leaves
  <2>3. \A q \in Pages : Sealed(q)'
    BY <1>0, <2>1 DEF Leaves, Sealed
  <2>4. QED
    BY <1>0, <2>1, <2>2, <2>3 DEF Books, Leaves, Closed
<1>14. ASSUME NEW p \in Pages, JoinEphemeral(p) PROVE Books'
  BY <1>12, <1>14 DEF JoinEphemeral, Join, TypeOK
<1>15. ASSUME NEW p \in Pages, NEW r \in Voice, JoinVoice(p, r) PROVE Books'
  BY <1>12, <1>15 DEF JoinVoice, Join, TypeOK
<1>16. ASSUME NEW p \in Pages, Polls(p) \/ StartEphemeral(p) PROVE Books'
  BY <1>9, <1>16 DEF Polls, StartEphemeral
<1>17. CASE Expires \/ UNCHANGED vars
  BY <1>9, <1>17 DEF Expires, vars
<1>18. QED
  BY <1>1, <1>2, <1>3, <1>4, <1>5, <1>6, <1>7, <1>8, <1>10, <1>11, <1>13, <1>14, <1>15, <1>16,
     <1>17 DEF Next, Hears, Works, Acts

-----------------------------------------------------------------------------
(* Where an undisturbed page is                                             *)

\* The one room that a page can have to do with.
Goal(p) == IF voice[p] # None THEN voice[p] ELSE Ephemeral

Listed(p) == Waits(p, "all-users")
OneList(p) ==
  \A i, j \in DOMAIN inbox[p] :
    inbox[p][i].kind = "all-users" /\ inbox[p][j].kind = "all-users" => i = j

\* A page that joins is let in, then told who is there, then has a run of joinRoom,
\* then a key: one after the other, and all for the same room.
Placed(p) ==
  /\ voice[p] # None => ~waiting[p] /\ ~joined[p] /\ (checking[p] = voice[p] \/ In(p, voice[p]))
  /\ waiting[p] => checking[p] = Ephemeral \/ Listed(p)
  /\ joined[p] => keys[p][Ephemeral] # 0
  /\ \A r \in Rooms : In(p, r) => r = Goal(p)
  /\ In(p, Goal(p)) => Listed(p) \/ calls[p] # {} \/ keys[p][Goal(p)] # 0
  /\ checking[p] # None =>
       /\ checking[p] = Goal(p) /\ ~In(p, Goal(p)) /\ calls[p] = {} /\ ~Listed(p)
       /\ voice[p] = None => waiting[p]
  /\ Listed(p) => In(p, Goal(p)) /\ calls[p] = {} /\ (voice[p] = None => waiting[p])
  /\ OneList(p)
  /\ \A c \in calls[p] : c.room = Goal(p) /\ In(p, Goal(p)) /\ cur[p] = Goal(p)
  /\ \A c, d \in calls[p] : c = d
  /\ \A r \in Rooms : keys[p][r] # 0 =>
       r = Goal(p) /\ In(p, r) /\ cur[p] = r /\ calls[p] = {} /\ ~Listed(p)

\* Runs of joinRoom are not told of a page whose part in them is the same.
LEMMA StaysPlaced ==
  ASSUME TypeOK, NEW q \in Pages, Placed(q),
         voice'[q] = voice[q], waiting'[q] = waiting[q], checking'[q] = checking[q],
         joined'[q] => joined[q],
         keys'[q] = keys[q], cur'[q] = cur[q], calls'[q] = calls[q],
         \A r \in Rooms : In(q, r)' <=> In(q, r),
         Listed(q)' <=> Listed(q), OneList(q)'
  PROVE  Placed(q)'
<1>1. Goal(q) \in Rooms /\ Goal(q)' = Goal(q) /\ (voice[q] # None => voice[q] \in Rooms)
  BY DEF Goal, TypeOK, Rooms
<1>2. QED
  BY <1>1 DEF Placed

LEMMA ListTaken ==
  ASSUME NEW p \in Pages, Taken(p), NEW q \in Pages, OneList(q)
  PROVE  /\ OneList(q)'
         /\ q # p \/ Head(inbox[p]).kind # "all-users" => (Listed(q)' <=> Listed(q))
         /\ q = p /\ Head(inbox[p]).kind = "all-users" => ~Listed(q)'
<1>1. \A i \in DOMAIN inbox'[q] : /\ i \in Nat /\ i >= 1 /\ i + Up(p, q) \in DOMAIN inbox[q]
                                  /\ inbox'[q][i] = inbox[q][i + Up(p, q)]
  BY DEF Taken
<1>2. Up(p, q) \in Nat
  BY DEF Up
<1>3. OneList(q)'
  BY <1>1, <1>2 DEF OneList
<1>4. Listed(q)' => Listed(q)
  BY <1>1 DEF Listed, Waits
<1>5. ASSUME q # p \/ Head(inbox[p]).kind # "all-users", Listed(q) PROVE Listed(q)'
  <2>1. PICK i \in DOMAIN inbox[q] : inbox[q][i].kind = "all-users"
    BY <1>5 DEF Listed, Waits
  <2>2. q # p \/ i # 1
    BY <1>5, <2>1 DEF Taken
  <2>3. QED
    BY <2>1, <2>2 DEF Listed, Waits, Taken
<1>6. ASSUME q = p, Head(inbox[p]).kind = "all-users", Listed(q)' PROVE FALSE
  <2>1. PICK i \in DOMAIN inbox'[p] : inbox'[p][i].kind = "all-users"
    BY <1>6 DEF Listed, Waits
  <2>2. i + 1 # 1 /\ i + 1 \in DOMAIN inbox[p] /\ inbox[p][i + 1].kind = "all-users"
    BY <1>1, <1>6, <2>1 DEF Up
  <2>3. 1 \in DOMAIN inbox[p] /\ inbox[p][1].kind = "all-users"
    BY <1>6 DEF Taken
  <2>4. QED
    BY <1>6, <2>2, <2>3 DEF OneList
<1>7. QED
  BY <1>3, <1>4, <1>5, <1>6

LEMMA ListPosted ==
  ASSUME NEW p \in Pages, NEW e, NEW n, Posted(p, e, n), NEW q \in Pages, OneList(q),
         e.kind = "all-users" => ~Listed(p)
  PROVE  /\ OneList(q)'
         /\ q # p \/ e.kind # "all-users" => (Listed(q)' <=> Listed(q))
         /\ e.kind = "all-users" => Listed(p)'
<1>1. \A i \in DOMAIN inbox'[q] : \/ i \in DOMAIN inbox[q] /\ inbox'[q][i] = inbox[q][i]
                                  \/ q = p /\ i = n /\ inbox'[q][i] = e
  BY DEF Posted
<1>2. OneList(q)'
  BY <1>1 DEF OneList, Listed, Waits
<1>3. q # p \/ e.kind # "all-users" => (Listed(q)' => Listed(q))
  BY <1>1 DEF Listed, Waits
<1>4. Listed(q) => Listed(q)'
  BY DEF Listed, Waits, Posted
<1>5. e.kind = "all-users" => Listed(p)'
  BY DEF Listed, Waits, Posted
<1>6. QED
  BY <1>2, <1>3, <1>4, <1>5

LEMMA ListAnswered ==
  ASSUME NEW p \in Pages, NEW n, Answered(p, n), NEW q \in Pages, OneList(q)
  PROVE  OneList(q)' /\ (Listed(q)' <=> Listed(q))
<1>1. \A k, w : Response(k, w).kind = "response"
  BY DEF Response, Event
<1>2. \A i \in DOMAIN inbox'[q] :
        \/ /\ i \in Nat /\ i >= 1 /\ i + Up(p, q) \in DOMAIN inbox[q]
           /\ inbox'[q][i] = inbox[q][i + Up(p, q)]
        \/ inbox'[q][i].kind = "response"
  BY <1>1 DEF Answered
<1>3. Up(p, q) \in Nat
  BY DEF Up
<1>4. OneList(q)'
  BY <1>2, <1>3 DEF OneList
<1>5. Listed(q)' => Listed(q)
  BY <1>2 DEF Listed, Waits
<1>6. ASSUME Listed(q) PROVE Listed(q)'
  <2>1. PICK i \in DOMAIN inbox[q] : inbox[q][i].kind = "all-users"
    BY <1>6 DEF Listed, Waits
  <2>2. q # p \/ i # 1
    BY <2>1 DEF Answered
  <2>3. QED
    BY <2>1, <2>2 DEF Listed, Waits, Answered
<1>7. QED
  BY <1>4, <1>5, <1>6

LEMMA DisturbedStays == TypeOK /\ [Next]_vars /\ disturbed => disturbed'
<1> SUFFICES ASSUME TypeOK, [Next]_vars, disturbed PROVE disturbed'
  OBVIOUS
<1> USE DEF relay, crypto, shown, counts, notes
<1>1. ASSUME NEW p \in Pages, Hears(p) PROVE disturbed'
  <2>1. HearsUsers(p) \/ HearsRequest(p) => disturbed'
    BY DEF HearsUsers, HearsRequest
  <2>2. HearsResponse(p) => disturbed'
    BY DEF HearsResponse
  <2>3. QED
    BY <1>1, <2>1, <2>2 DEF Hears
<1>2. ASSUME NEW p \in Pages, Works(p) \/ Granted(p) \/ Refused(p) \/ Polls(p) PROVE disturbed'
  BY <1>2 DEF Works, Generates, Asks, GivesUp, Granted, Refused, Polls
<1>3. ASSUME NEW p \in Pages, Acts(p) PROVE disturbed'
  BY <1>3 DEF Acts, Open, Close, LeaveVoice, LeaveEphemeral, EndEphemeral, Leaves, JoinEphemeral,
              StartEphemeral, JoinVoice, Join
<1>4. CASE Expires \/ UNCHANGED vars
  BY <1>4 DEF Expires, vars
<1>5. QED
  BY <1>1, <1>2, <1>3, <1>4 DEF Next

LEMMA ListKept ==
  ASSUME NEW q \in Pages, inbox'[q] = inbox[q]
  PROVE  (Listed(q)' <=> Listed(q)) /\ (OneList(q)' <=> OneList(q))
BY DEF Listed, Waits, OneList

\* A run of joinRoom ends with a key.
LEMMA FilesPlaces ==
  ASSUME TypeOK, NEW p \in Pages, Placed(p), NEW c \in calls[p], NEW k \in Nat \ {0},
         Files(p, {c}, k), UNCHANGED <<members, checking, cur, voice, waiting>>,
         Listed(p)' <=> Listed(p), OneList(p)'
  PROVE  Placed(p)'
<1>1. /\ c.room = Goal(p) /\ In(p, Goal(p)) /\ cur[p] = Goal(p) /\ calls[p] = {c}
      /\ ~Listed(p) /\ checking[p] = None /\ Goal(p) \in Rooms /\ ~waiting[p]
  <2>1. c.room = Goal(p) /\ In(p, Goal(p)) /\ cur[p] = Goal(p) /\ calls[p] = {c}
    BY DEF Placed
  <2>2. ~Listed(p) /\ checking[p] = None
    BY <2>1 DEF Placed
  <2>3. Goal(p) \in Rooms
    BY <2>1 DEF In
  <2>4. ~waiting[p]
    BY <2>2, RoomAssumption DEF Placed, Rooms
  <2>5. QED
    BY <2>1, <2>2, <2>3, <2>4
<1>2. /\ keys'[p] = [r \in Rooms |-> IF \E d \in {c} : d.room = r THEN k ELSE keys[p][r]]
      /\ calls'[p] = {}
      /\ joined'[p] => joined[p] \/ c.room = Ephemeral
  BY <1>1 DEF Files, TypeOK
<1>3. \A r \in Rooms : keys[p][r] = 0
  BY <1>1 DEF Placed, TypeOK
<1>4. \A r \in Rooms : keys'[p][r] = IF r = Goal(p) THEN k ELSE 0
  BY <1>1, <1>2, <1>3
<1>5. Goal(p)' = Goal(p) /\ \A r \in Rooms : In(p, r)' <=> In(p, r)
  BY DEF Goal, In
<1>6. joined'[p] => c.room = Ephemeral
  <2>1. Ephemeral \in Rooms
    BY DEF Rooms
  <2>2. ~joined[p]
    BY <1>3, <2>1 DEF Placed
  <2>3. QED
    BY <1>2, <2>2
<1>7. voice[p] # None => ~joined'[p] /\ In(p, voice[p])
  <2>1. voice[p] # None => voice[p] # Ephemeral
    BY RoomAssumption DEF TypeOK
  <2>2. QED
    BY <1>1, <1>6, <2>1 DEF Goal
<1>8. QED
  BY <1>1, <1>2, <1>4, <1>5, <1>6, <1>7 DEF Placed, Goal

\* Who has begun to join nothing is in its room with its key, or nowhere.
LEMMA Settles ==
  ASSUME TypeOK, NEW p \in Pages, Placed(p), ~Joining(p)
  PROVE  /\ checking[p] = None /\ calls[p] = {} /\ ~Listed(p) /\ ~waiting[p]
         /\ \A r \in Rooms : keys[p][r] # 0 <=> In(p, r)
         /\ \A r \in Rooms : In(p, r) => r = Goal(p) /\ cur[p] = r
         /\ voice[p] # None => In(p, voice[p])
         /\ joined[p] => In(p, Ephemeral)
<1>1. checking[p] = None /\ calls[p] = {} /\ ~Listed(p)
  BY DEF Joining, Listed
<1>2. ~waiting[p]
  BY <1>1, RoomAssumption DEF Placed, Rooms
<1>3. Ephemeral \in Rooms /\ (voice[p] # None => voice[p] \in Rooms)
  BY DEF Rooms, TypeOK
<1>4. QED
  BY <1>1, <1>2, <1>3 DEF Placed

\* Who leaves is nowhere.
LEMMA LeavesPlaces ==
  ASSUME TypeOK, Distinct, NEW p \in Pages, Placed(p), ~Joining(p), NEW kept,
         members' = Without(p, kept), ~In(p, kept), Forgets(p)
  PROVE  /\ \A r \in Rooms : ~In(p, r)' /\ keys'[p][r] = 0
<1>1. \A r \in Rooms : ~In(p, r)'
  BY LeavesRooms DEF In
<1>2. \A r \in Rooms : keys'[p][r] = IF r = cur[p] THEN 0 ELSE keys[p][r]
  BY DEF Forgets, TypeOK
<1>3. \A r \in Rooms : keys'[p][r] = 0
  BY <1>2, Settles
<1>4. QED
  BY <1>1, <1>3

\* Who is nowhere and joins is on its way to the room.
LEMMA JoinPlaces ==
  ASSUME TypeOK, NEW p \in Pages, NEW r \in Rooms,
         \A t \in Rooms : ~In(p, t)' /\ keys'[p][t] = 0,
         checking'[p] = r, calls'[p] = {}, ~Listed(p)', OneList(p)', ~joined'[p],
         \/ voice'[p] = r /\ ~waiting'[p]
         \/ voice'[p] = None /\ waiting'[p] /\ r = Ephemeral
  PROVE  Placed(p)'
BY RoomAssumption DEF Placed, Goal, Rooms, In

LEMMA PlacedInit == Init => \A p \in Pages : Placed(p)
<1> SUFFICES ASSUME Init, NEW p \in Pages PROVE Placed(p)
  OBVIOUS
<1>1. \A r \in Rooms : ~In(p, r)
  BY DEF Init, In, ToSet
<1>2. ~Listed(p) /\ OneList(p)
  BY DEF Init, Listed, Waits, OneList
<1>3. Ephemeral \in Rooms
  BY DEF Rooms
<1>4. QED
  BY <1>1, <1>2, <1>3 DEF Init, Placed, Goal, In

LEMMA PlacedNext ==
  ASSUME TypeOK, Books, TypeOK', ~disturbed', \A p \in Pages : Placed(p), [Next]_vars
  PROVE  \A p \in Pages : Placed(p)'
<1> USE DEF relay, crypto, shown, counts, notes
<1>0. ~disturbed /\ Distinct
  BY DisturbedStays DEF Books
<1>a. \A q \in Pages : Placed(q) /\ OneList(q)
  BY DEF Placed
\* Pages that nothing happens to.
<1>b. ASSUME NEW q \in Pages, voice'[q] = voice[q], waiting'[q] = waiting[q],
             checking'[q] = checking[q], joined'[q] => joined[q], keys'[q] = keys[q],
             cur'[q] = cur[q], calls'[q] = calls[q], \A r \in Rooms : In(q, r)' <=> In(q, r),
             inbox'[q] = inbox[q]
      PROVE  Placed(q)'
  BY <1>a, <1>b, ListKept, StaysPlaced
<1>1. ASSUME NEW p \in Pages, HearsUsers(p) PROVE \A q \in Pages : Placed(q)'
  <2> DEFINE users == Head(inbox[p]).users
  <2>1. Taken(p) /\ Head(inbox[p]).kind = "all-users" /\ Listed(p)
    <3>1. Taken(p) /\ Head(inbox[p]).kind = "all-users"
      BY <1>1, TakenIs DEF HearsUsers
    <3>2. QED
      BY <3>1 DEF Taken, Listed, Waits
  <2>2. /\ In(p, Goal(p)) /\ calls[p] = {} /\ (voice[p] = None => waiting[p])
        /\ voice[p] # None => ~waiting[p]
        /\ checking[p] = None /\ \A r \in Rooms : keys[p][r] = 0
    BY <1>a, <2>1 DEF Placed, TypeOK
  <2>3. TakenFor(p) = {Goal(p)}
    BY <2>2 DEF TakenFor, Goal
  <2>4. Joins(p, Goal(p), users) = {[room |-> Goal(p), stage |-> IF users = <<>> THEN "generating" ELSE "seeking",
                                      from |-> IF users = <<>> THEN None ELSE Head(users)]}
    BY DEF Joins
  <2> HIDE DEF users
  <2>5. calls'[p] = Joins(p, Goal(p), users)
    BY <1>1, <2>2, <2>3 DEF HearsUsers, TypeOK, users
  <2>6. /\ cur'[p] = Goal(p) /\ ~waiting'[p] /\ UNCHANGED <<voice, joined, keys, checking, members>>
    BY <1>1, <2>2 DEF HearsUsers, TypeOK, Goal
  <2>7. Placed(p)'
    <3>1. OneList(p)' /\ ~Listed(p)'
      BY <1>a, <2>1, ListTaken
    <3>2. Goal(p)' = Goal(p) /\ \A r \in Rooms : In(p, r)' <=> In(p, r)
      BY <2>6 DEF Goal, In
    <3>3. calls'[p] # {} /\ \A c \in calls'[p] : c.room = Goal(p)
      BY <2>4, <2>5
    <3>4. \A c, d \in calls'[p] : c = d
      BY <2>4, <2>5
    <3>5. Goal(p) \in Rooms /\ (voice[p] # None => In(p, voice[p]))
      BY <2>2 DEF In, Goal
    <3>6. ~joined[p]
      BY <1>a, <2>2 DEF Placed, Rooms
    <3>7. \A r \in Rooms : In(p, r)' => r = Goal(p)'
      BY <1>a, <3>2 DEF Placed
    <3>8. In(p, Goal(p))' /\ (voice'[p] # None => In(p, voice[p])')
      BY <2>2, <2>6, <3>2, <3>5 DEF In
    <3>9. \A r \in Rooms : keys'[p][r] = 0
      BY <2>2, <2>6
    <3>10. ~waiting'[p] /\ ~joined'[p] /\ checking'[p] = None /\ cur'[p] = Goal(p)'
      BY <2>2, <2>6, <3>2, <3>6
    <3> HIDE DEF Goal
    <3>11. QED
      BY <2>6, <3>1, <3>2, <3>3, <3>4, <3>7, <3>8, <3>9, <3>10 DEF Placed
  <2>8. ASSUME NEW q \in Pages, q # p PROVE Placed(q)'
    <3>1. calls' = [calls EXCEPT ![p] = @ \cup UNION {Joins(p, r, users) : r \in TakenFor(p)}]
      BY <1>1 DEF HearsUsers, users
    <3>2. calls'[q] = calls[q]
      BY <2>8, <3>1 DEF TypeOK
    <3>3. inbox'[q] = inbox[q] /\ cur'[q] = cur[q] /\ waiting'[q] = waiting[q]
      BY <1>1, <2>8 DEF HearsUsers, TypeOK
    <3>4. QED
      BY <1>b, <2>6, <3>2, <3>3 DEF In
  <2>9. QED
    BY <2>7, <2>8
<1>2. ASSUME NEW p \in Pages, HearsRequest(p) PROVE \A q \in Pages : Placed(q)'
  <2>1. PICK n \in Nat : Answered(p, n)
    BY <1>2, AnsweredIs
  <2>2. \A q \in Pages : OneList(q)' /\ (Listed(q)' <=> Listed(q))
    BY <1>a, <2>1, ListAnswered
  <2>3. QED
    BY <1>2, <1>a, <2>2, StaysPlaced DEF HearsRequest, In
<1>3. ASSUME NEW p \in Pages, HearsResponse(p) PROVE \A q \in Pages : Placed(q)'
  <2> DEFINE asked == {c \in calls[p] : c.stage = "asked"}
             e == Head(inbox[p])
  <2>1. Taken(p) /\ e.kind = "response"
    BY <1>3, TakenIs DEF HearsResponse
  <2>2. \A q \in Pages : OneList(q)' /\ (Listed(q)' <=> Listed(q))
    <3>1. e.kind # "all-users"
      BY <2>1
    <3>2. QED
      BY <1>a, <2>1, <3>1, ListTaken
  <2>3. e.key \in Nat \ {0}
    <3>1. Sealed(p) /\ e = inbox[p][1] /\ 1 \in DOMAIN inbox[p] /\ e \in Message
      BY <2>1 DEF Books, Taken
    <3> HIDE DEF e
    <3>2. e.key \in Nat
      BY <3>1, MessagesAre
    <3>3. QED
      BY <2>1, <3>1, <3>2 DEF Sealed
  <2>4. /\ IF e.wrapped = gen[p] THEN Files(p, asked, e.key) /\ UNCHANGED disturbed
           ELSE /\ calls' = [calls EXCEPT ![p] = @ \ asked]
                /\ disturbed' = (disturbed \/ asked # {})
                /\ UNCHANGED <<keys, joined>>
        /\ UNCHANGED <<members, checking, cur, voice, waiting>>
    BY <1>3 DEF HearsResponse
  <2> HIDE DEF e, asked
  <2>5. CASE asked = {}
    <3>1. calls'[p] = calls[p] /\ keys'[p] = keys[p] /\ (joined'[p] => joined[p])
      <4>1. CASE e.wrapped = gen[p]
        BY <2>4, <2>5, <4>1 DEF Files, TypeOK
      <4>2. CASE e.wrapped # gen[p]
        BY <2>4, <2>5, <4>2 DEF TypeOK
      <4>3. QED
        BY <4>1, <4>2
    <3>2. \A q \in Pages : q # p => calls'[q] = calls[q] /\ keys'[q] = keys[q] /\ joined'[q] = joined[q]
      <4>1. CASE e.wrapped = gen[p]
        BY <2>4, <4>1 DEF Files, TypeOK
      <4>2. CASE e.wrapped # gen[p]
        BY <2>4, <4>2 DEF TypeOK
      <4>3. QED
        BY <4>1, <4>2
    <3>3. QED
      BY <1>a, <2>2, <2>4, <3>1, <3>2, StaysPlaced DEF In
  <2>6. CASE asked # {}
    <3>1. e.wrapped = gen[p] /\ Files(p, asked, e.key)
      BY <2>4, <2>6
    <3>2. PICK c \in calls[p] : asked = {c}
      BY <1>a, <2>6 DEF asked, Placed
    <3>3. Files(p, {c}, e.key)
      BY <3>1, <3>2
    <3>4. Placed(p)'
      BY <1>a, <2>2, <2>3, <2>4, <3>3, FilesPlaces
    <3>5. ASSUME NEW q \in Pages, q # p PROVE Placed(q)'
      <4>1. calls'[q] = calls[q] /\ keys'[q] = keys[q] /\ joined'[q] = joined[q]
        BY <3>1, <3>5 DEF Files, TypeOK
      <4>2. QED
        BY <1>a, <2>2, <2>4, <4>1, StaysPlaced DEF In
    <3>6. QED
      BY <3>4, <3>5
  <2>7. QED
    BY <2>5, <2>6
<1>4. ASSUME NEW p \in Pages, NEW c \in calls[p], Generates(p, c) PROVE \A q \in Pages : Placed(q)'
  <2>1. Files(p, {c}, made') /\ made' \in Nat \ {0} /\ UNCHANGED <<members, checking, cur, voice, waiting, inbox>>
    BY <1>4 DEF Generates, TypeOK
  <2>2. Placed(p)'
    BY <1>a, <2>1, ListKept, FilesPlaces
  <2>3. ASSUME NEW q \in Pages, q # p PROVE Placed(q)'
    <3>1. calls'[q] = calls[q] /\ keys'[q] = keys[q] /\ joined'[q] = joined[q]
      BY <2>1, <2>3 DEF Files, TypeOK
    <3>2. QED
      BY <1>b, <2>1, <3>1 DEF In
  <2>4. QED
    BY <2>2, <2>3
<1>5. ASSUME NEW p \in Pages, NEW c \in calls[p], Asks(p, c) PROVE \A q \in Pages : Placed(q)'
  <2> DEFINE e == Request(c.room, p, rsa[p])
             d == [c EXCEPT !.stage = "asked"]
  <2>1. c \in Call /\ c.room \in Rooms /\ c.from \in Pages
    BY <1>5, CallsAre DEF Asks, TypeOK
  <2>2. e \in Message /\ e.kind = "request"
    BY <2>1, MessagesAre DEF TypeOK, Request, Event
  <2>3. d.room = c.room
    BY <2>1 DEF Call
  <2>4. calls' = [calls EXCEPT ![p] = (@ \ {c}) \cup {d}]
    BY <1>5 DEF Asks
  <2> HIDE DEF e, d
  <2>5. calls'[p] = {d}
    BY <1>a, <2>4 DEF Placed, TypeOK
  <2>6. \A q \in Pages : OneList(q)' /\ (Listed(q)' <=> Listed(q))
    <3>1. inbox' = inbox \/ inbox' = [inbox EXCEPT ![c.from] = Append(@, e)]
      BY <1>5 DEF Asks, e
    <3>2. CASE inbox' = [inbox EXCEPT ![c.from] = Append(@, e)]
      <4>1. Posted(c.from, e, Len(inbox[c.from]) + 1)
        BY <2>1, <2>2, <3>2, PostedIs
      <4>2. e.kind # "all-users"
        BY <2>2
      <4>3. QED
        BY <1>a, <2>1, <4>1, <4>2, ListPosted
    <3>3. QED
      BY <1>a, <3>1, <3>2, ListKept
  <2>7. UNCHANGED <<members, checking, keys, cur, voice, waiting, joined>>
    BY <1>5 DEF Asks
  <2>8. Placed(p)'
    <3>1. Goal(p)' = Goal(p) /\ \A r \in Rooms : In(p, r)' <=> In(p, r)
      BY <2>7 DEF Goal, In
    <3>2. c.room = Goal(p) /\ In(p, Goal(p)) /\ cur[p] = Goal(p) /\ checking[p] = None /\ ~Listed(p)
      BY <1>a DEF Placed
    <3>3. Goal(p) \in Rooms /\ \A r \in Rooms : keys[p][r] = 0
      BY <1>a, <3>2 DEF Placed, In, TypeOK
    <3>4. voice[p] # None => voice[p] = Goal(p)
      BY DEF Goal
    <3>5. QED
      BY <1>a, <2>3, <2>5, <2>6, <2>7, <3>1, <3>2, <3>3, <3>4 DEF Placed
  <2>9. ASSUME NEW q \in Pages, q # p PROVE Placed(q)'
    <3>1. calls'[q] = calls[q]
      BY <2>4, <2>9 DEF TypeOK
    <3>2. QED
      BY <1>a, <2>6, <2>7, <3>1, StaysPlaced DEF In
  <2>10. QED
    BY <2>8, <2>9
<1>6. ASSUME NEW p \in Pages, NEW c \in calls[p], GivesUp(p, c) PROVE FALSE
  BY <1>6 DEF GivesUp
<1>7. ASSUME NEW p \in Pages, Granted(p) PROVE \A q \in Pages : Placed(q)'
  <2> DEFINE e == AllUsers(Lacking(members[checking[p]], p))
  <2>1. checking[p] # None /\ checking[p] = Goal(p) /\ Goal(p) \in Rooms /\ ~In(p, Goal(p))
        /\ calls[p] = {} /\ ~Listed(p) /\ (voice[p] = None => waiting[p])
    BY <1>7, <1>a DEF Granted, Placed, TypeOK
  <2>2. e \in Message /\ e.kind = "all-users"
    <3>1. Lacking(members[checking[p]], p) \in Seq(Pages)
      BY <1>0, <2>1, LackingOne DEF Distinct, TypeOK
    <3>2. QED
      BY <3>1, MessagesAre DEF AllUsers, Event
  <2>3. inbox' = [inbox EXCEPT ![p] = Append(@, e)] /\ checking' = [checking EXCEPT ![p] = None]
        /\ UNCHANGED <<calls, keys, cur, voice, waiting, joined>>
    BY <1>7 DEF Granted
  <2>4. \A q \in Pages, r \in Rooms : In(q, r)' <=> In(q, r) \/ (q = p /\ r = checking[p])
    BY <1>0, <1>7, EntersRoom
  <2> HIDE DEF e
  <2>5. Posted(p, e, Len(inbox[p]) + 1)
    BY <2>2, <2>3, PostedIs
  <2>6. OneList(p)' /\ Listed(p)'
    BY <1>a, <2>1, <2>2, <2>5, ListPosted
  <2>7. Placed(p)'
    <3>1. Goal(p)' = Goal(p) /\ checking'[p] = None
      BY <2>3 DEF Goal, TypeOK
    <3>2. \A r \in Rooms : keys[p][r] = 0
      BY <1>a, <2>1 DEF Placed, TypeOK
    <3>3. \A r \in Rooms : In(p, r)' <=> r = Goal(p)
      BY <1>a, <2>1, <2>4 DEF Placed
    <3>4. voice[p] # None => voice[p] = Goal(p)
      BY DEF Goal
    <3>5. QED
      BY <1>a, <2>1, <2>3, <2>6, <3>1, <3>2, <3>3, <3>4 DEF Placed
  <2>8. ASSUME NEW q \in Pages, q # p PROVE Placed(q)'
    BY <1>b, <2>3, <2>4, <2>8 DEF TypeOK
  <2>9. QED
    BY <2>7, <2>8
<1>8. ASSUME NEW p \in Pages, Refused(p) PROVE FALSE
  BY <1>8 DEF Refused
<1>9. ASSUME NEW p \in Pages, Polls(p) PROVE \A q \in Pages : Placed(q)'
  BY <1>9, <1>b DEF Polls, In, TypeOK
<1>10. ASSUME NEW p \in Pages, Open(p) \/ StartEphemeral(p) PROVE \A q \in Pages : Placed(q)'
  BY <1>10, <1>b DEF Open, StartEphemeral, In
<1>11. ASSUME NEW p \in Pages, Close(p) PROVE \A q \in Pages : Placed(q)'
  <2>1. \A q \in Pages, r \in Rooms : In(q, r)' <=> In(q, r) /\ q # p
    BY <1>0, <1>11, LeavesRooms, RoomAssumption DEF Close
  <2>2. Placed(p)'
    <3>1. /\ voice'[p] = None /\ ~waiting'[p] /\ ~joined'[p] /\ checking'[p] = None
          /\ calls'[p] = {} /\ inbox'[p] = <<>> /\ \A r \in Rooms : keys'[p][r] = 0
      BY <1>11 DEF Close, TypeOK
    <3>2. ~Listed(p)' /\ OneList(p)'
      BY <3>1 DEF Listed, Waits, OneList
    <3>3. Goal(p)' \in Rooms /\ ~In(p, Goal(p))'
      BY <2>1, <3>1 DEF Goal, Rooms
    <3>4. QED
      BY <2>1, <3>1, <3>2, <3>3 DEF Placed
  <2>3. ASSUME NEW q \in Pages, q # p PROVE Placed(q)'
    <3>1. /\ voice'[q] = voice[q] /\ waiting'[q] = waiting[q] /\ joined'[q] = joined[q]
          /\ checking'[q] = checking[q] /\ calls'[q] = calls[q] /\ inbox'[q] = inbox[q]
      BY <1>11, <2>3 DEF Close, TypeOK
    <3>2. keys'[q] = keys[q] /\ cur'[q] = cur[q]
      BY <1>11, <2>3 DEF Close, TypeOK
    <3>3. QED
      BY <1>b, <2>1, <2>3, <3>1, <3>2
  <2>4. QED
    BY <2>2, <2>3
<1>12. ASSUME NEW p \in Pages, LeaveVoice(p) \/ LeaveEphemeral(p) \/ EndEphemeral(p)
       PROVE  \A q \in Pages : Placed(q)'
  <2>1. Leaves(p) /\ ~Joining(p)
    BY <1>12 DEF LeaveVoice, LeaveEphemeral, EndEphemeral, Leaves
  <2>2. \A q \in Pages, r \in Rooms : In(q, r)' <=> In(q, r) /\ q # p
    BY <1>0, <2>1, LeavesRooms, RoomAssumption DEF Leaves
  <2>3. Placed(p)'
    <3>1. \A r \in Rooms : ~In(p, r)' /\ keys'[p][r] = 0
      <4>1. ~In(p, None)
        BY RoomAssumption DEF In
      <4>2. QED
        BY <1>0, <1>a, <2>1, <4>1, LeavesPlaces DEF Leaves
    <3>2. checking[p] = None /\ calls[p] = {} /\ ~Listed(p) /\ ~waiting[p]
          /\ (voice[p] # None => In(p, voice[p])) /\ (joined[p] => In(p, Ephemeral))
          /\ \A r \in Rooms : In(p, r) => r = Goal(p)
      BY <1>a, <2>1, Settles
    <3>3. UNCHANGED <<checking, calls, inbox, waiting>>
      BY <1>12 DEF LeaveVoice, LeaveEphemeral, EndEphemeral, Leaves
    <3>4. ~Listed(p)' /\ OneList(p)'
      BY <1>a, <3>2, <3>3, ListKept
    <3>5. voice[p] = None \/ ~joined[p]
      BY <1>a DEF Placed
    <3>6. voice'[p] = None /\ ~joined'[p]
      <4>1. CASE LeaveVoice(p)
        BY <3>5, <4>1 DEF LeaveVoice, TypeOK
      <4>2. CASE LeaveEphemeral(p) \/ EndEphemeral(p)
        BY <3>5, <4>2 DEF LeaveEphemeral, EndEphemeral, TypeOK
      <4>3. QED
        BY <1>12, <4>1, <4>2
    <3>7. Goal(p)' \in Rooms
      BY <3>6 DEF Goal, Rooms
    <3>8. QED
      BY <3>1, <3>2, <3>3, <3>4, <3>6, <3>7 DEF Placed
  <2>4. ASSUME NEW q \in Pages, q # p PROVE Placed(q)'
    <3>1. keys'[q] = keys[q] /\ cur'[q] = cur[q] /\ UNCHANGED <<checking, calls, inbox>>
      BY <2>1, <2>4 DEF Leaves, Forgets, TypeOK
    <3>2. voice'[q] = voice[q] /\ waiting'[q] = waiting[q] /\ joined'[q] = joined[q]
      <4>1. CASE LeaveVoice(p)
        BY <2>4, <4>1 DEF LeaveVoice, TypeOK
      <4>2. CASE LeaveEphemeral(p)
        BY <2>4, <4>2 DEF LeaveEphemeral, TypeOK
      <4>3. CASE EndEphemeral(p)
        BY <2>4, <4>3 DEF EndEphemeral, TypeOK
      <4>4. QED
        BY <1>12, <4>1, <4>2, <4>3
    <3>3. QED
      BY <1>b, <2>2, <2>4, <3>1, <3>2
  <2>5. QED
    BY <2>3, <2>4
\* Who joins was nowhere, or only in the room that it leaves.
<1>13. ASSUME NEW p \in Pages, JoinEphemeral(p) PROVE \A q \in Pages : Placed(q)'
  <2>1. /\ Join(p, Ephemeral) /\ ~Joining(p) /\ voice[p] = None /\ \A r \in Rooms : ~In(p, r)
        /\ waiting' = [waiting EXCEPT ![p] = TRUE] /\ ~joined[p]
        /\ UNCHANGED <<keys, cur, voice, joined>>
    BY <1>13 DEF JoinEphemeral, InRoom
  <2>2. \A q \in Pages, r \in Rooms : In(q, r)' <=> In(q, r) /\ (q # p \/ r = Ephemeral)
    BY <1>0, <2>1, LeavesRooms DEF Join
  <2>3. Placed(p)'
    <3>1. calls[p] = {} /\ ~Listed(p) /\ \A r \in Rooms : keys[p][r] = 0
      BY <1>a, <2>1, Settles DEF TypeOK
    <3>2. ~Listed(p)' /\ OneList(p)' /\ calls' = calls
      BY <1>a, <2>1, <3>1, ListKept DEF Join
    <3>3. checking'[p] = Ephemeral /\ waiting'[p]
      BY <2>1 DEF Join, TypeOK
    <3>4. Ephemeral \in Rooms
      BY DEF Rooms
    <3>5. QED
      BY <2>1, <2>2, <3>1, <3>2, <3>3, <3>4, JoinPlaces
  <2>4. ASSUME NEW q \in Pages, q # p PROVE Placed(q)'
    <3>1. waiting'[q] = waiting[q] /\ UNCHANGED <<keys, cur, voice, joined, calls, inbox>>
      BY <2>1, <2>4 DEF Join, TypeOK
    <3>2. checking'[q] = checking[q]
      BY <2>1, <2>4 DEF Join, TypeOK
    <3>3. QED
      BY <1>b, <2>2, <2>4, <3>1, <3>2
  <2>5. QED
    BY <2>3, <2>4
<1>14. ASSUME NEW p \in Pages, NEW r \in Voice, JoinVoice(p, r) PROVE \A q \in Pages : Placed(q)'
  <2>1. /\ Join(p, r) /\ ~Joining(p) /\ ~joined[p] /\ ~In(p, Ephemeral) /\ voice[p] # r
        /\ voice' = [voice EXCEPT ![p] = r] /\ UNCHANGED <<waiting, joined>>
        /\ IF voice[p] # None THEN Forgets(p) ELSE UNCHANGED <<keys, cur>>
    BY <1>14 DEF JoinVoice
  <2>2. r \in Rooms
    BY DEF Rooms
  <2>3. /\ checking[p] = None /\ calls[p] = {} /\ ~Listed(p) /\ ~waiting[p]
        /\ \A t \in Rooms : keys[p][t] # 0 <=> In(p, t)
        /\ \A t \in Rooms : In(p, t) => t = Goal(p)
    BY <1>a, <2>1, Settles
  <2>4. \A q \in Pages, t \in Rooms : In(q, t)' <=> In(q, t) /\ (q # p \/ t = r)
    BY <1>0, <2>1, LeavesRooms DEF Join
  <2>5. ~In(p, r)
    BY <2>1, <2>2, <2>3, RoomAssumption DEF Goal
  <2>6. Placed(p)'
    <3>1. \A t \in Rooms : ~In(p, t)' /\ keys'[p][t] = 0
      <4>1. CASE voice[p] # None
        BY <1>0, <1>a, <2>1, <2>5, <4>1, LeavesPlaces DEF Join
      <4>2. CASE voice[p] = None
        <5>1. \A t \in Rooms : ~In(p, t)
          BY <2>1, <2>3, <4>2 DEF Goal
        <5>2. QED
          BY <2>1, <2>3, <2>4, <4>2, <5>1
      <4>3. QED
        BY <4>1, <4>2
    <3>2. ~Listed(p)' /\ OneList(p)' /\ calls' = calls
      BY <1>a, <2>1, <2>3, ListKept DEF Join
    <3>3. checking'[p] = r /\ voice'[p] = r
      BY <2>1 DEF Join, TypeOK
    <3>4. QED
      BY <2>1, <2>2, <2>3, <3>1, <3>2, <3>3, JoinPlaces
  <2>7. ASSUME NEW q \in Pages, q # p PROVE Placed(q)'
    <3>1. keys'[q] = keys[q] /\ cur'[q] = cur[q]
      <4>1. Forgets(p) => keys'[q] = keys[q] /\ cur'[q] = cur[q]
        BY <2>7 DEF Forgets, TypeOK
      <4>2. QED
        BY <2>1, <4>1
    <3>2. /\ checking'[q] = checking[q] /\ voice'[q] = voice[q] /\ inbox'[q] = inbox[q]
          /\ calls'[q] = calls[q]
      BY <2>1, <2>7 DEF Join, TypeOK
    <3>3. QED
      BY <1>b, <2>1, <2>4, <2>7, <3>1, <3>2
  <2>8. QED
    BY <2>6, <2>7
<1>15. CASE Expires \/ UNCHANGED vars
  BY <1>15, <1>b DEF Expires, vars, In
<1>16. QED
  BY <1>1, <1>2, <1>3, <1>4, <1>5, <1>6, <1>7, <1>8, <1>9, <1>10, <1>11, <1>12, <1>13, <1>14,
     <1>15 DEF Next, Hears, Works, Acts

-----------------------------------------------------------------------------
(* What is on its way for a page that has asked                             *)

AskedBy(q, i, p) == i \in DOMAIN inbox[q] /\ Current(inbox[q][i]) /\ inbox[q][i].page = p
Answers(p, i) ==
  i \in DOMAIN inbox[p] /\ inbox[p][i].kind = "response" /\ inbox[p][i].wrapped = gen[p]
HasAsked(p, r, q) == \E c \in calls[p] : c.stage = "asked" /\ c.room = r /\ c.from = q

\* Requests and answers that are for the page's present pair of keys are for its
\* present run of joinRoom, and there is one of them at most.
Mail ==
  /\ \A p, q \in Pages : \A i \in DOMAIN inbox[q] :
       AskedBy(q, i, p) => HasAsked(p, inbox[q][i].room, q)
  /\ \A p, q \in Pages : \A i, j \in DOMAIN inbox[q] : AskedBy(q, i, p) /\ AskedBy(q, j, p) => i = j
  /\ \A p, q \in Pages : \A i \in DOMAIN inbox[q], j \in DOMAIN inbox[p] :
       ~(AskedBy(q, i, p) /\ Answers(p, j))
  /\ \A p \in Pages : \A i \in DOMAIN inbox[p] : Answers(p, i) => \E c \in calls[p] : c.stage = "asked"
  /\ \A p \in Pages : \A i, j \in DOMAIN inbox[p] : Answers(p, i) /\ Answers(p, j) => i = j

Quiet(p) ==
  /\ \A q \in Pages : \A i \in DOMAIN inbox[q] : ~AskedBy(q, i, p)
  /\ \A i \in DOMAIN inbox[p] : ~Answers(p, i)

\* A page that has not asked is quiet.
LEMMA NobodyAsked ==
  ASSUME Mail, NEW p \in Pages, \A c \in calls[p] : c.stage # "asked"
  PROVE  Quiet(p)
BY DEF Mail, Quiet, HasAsked

\* Who is asked and by which message are one.
LEMMA AskedOnce ==
  ASSUME Mail, NEW p \in Pages, Placed(p),
         NEW q \in Pages, NEW i, AskedBy(q, i, p), NEW t \in Pages, NEW j, AskedBy(t, j, p)
  PROVE  q = t /\ i = j
<1>1. HasAsked(p, inbox[q][i].room, q) /\ HasAsked(p, inbox[t][j].room, t)
  BY DEF Mail, AskedBy
<1>2. q = t
  BY <1>1 DEF HasAsked, Placed
<1>3. QED
  BY <1>2 DEF Mail, AskedBy

\* Messages may go, and lists of users come, without harm.
LEMMA MailFewer ==
  ASSUME Mail, gen' = gen, NEW up \in [Pages -> Nat],
         \A q \in Pages : \A i \in DOMAIN inbox'[q] :
           \/ inbox'[q][i].kind = "all-users"
           \/ i \in Nat /\ i + up[q] \in DOMAIN inbox[q] /\ inbox'[q][i] = inbox[q][i + up[q]],
         \A q \in Pages : calls'[q] = calls[q] \/ Quiet(q)'
  PROVE  Mail'
<1>1. ASSUME NEW p \in Pages, NEW q \in Pages, NEW i \in DOMAIN inbox'[q], AskedBy(q, i, p)'
      PROVE  /\ AskedBy(q, i + up[q], p) /\ i + up[q] \in DOMAIN inbox[q] /\ i \in Nat
             /\ inbox'[q][i] = inbox[q][i + up[q]]
  BY <1>1 DEF AskedBy, Current
<1>2. ASSUME NEW p \in Pages, NEW i \in DOMAIN inbox'[p], Answers(p, i)'
      PROVE  /\ Answers(p, i + up[p]) /\ i + up[p] \in DOMAIN inbox[p] /\ i \in Nat
             /\ inbox'[p][i] = inbox[p][i + up[p]]
  BY <1>2 DEF Answers
<1>3. ASSUME NEW p \in Pages, NEW q \in Pages, NEW i \in DOMAIN inbox'[q], AskedBy(q, i, p)'
      PROVE  HasAsked(p, inbox[q][i].room, q)'
  <2>1. calls'[p] = calls[p]
    BY <1>3 DEF Quiet
  <2>2. HasAsked(p, inbox[q][i + up[q]].room, q)
    BY <1>1, <1>3 DEF Mail
  <2>3. QED
    BY <1>1, <1>3, <2>1, <2>2 DEF HasAsked
<1>4. ASSUME NEW p \in Pages, NEW q \in Pages, NEW i \in DOMAIN inbox'[q], NEW j \in DOMAIN inbox'[q],
             AskedBy(q, i, p)', AskedBy(q, j, p)'
      PROVE  i = j
  <2>1. i + up[q] = j + up[q] /\ i \in Nat /\ j \in Nat /\ up[q] \in Nat
    BY <1>1, <1>4 DEF Mail
  <2>2. QED
    BY <2>1
<1>5. ASSUME NEW p \in Pages, NEW q \in Pages, NEW i \in DOMAIN inbox'[q], NEW j \in DOMAIN inbox'[p],
             AskedBy(q, i, p)', Answers(p, j)'
      PROVE  FALSE
  BY <1>1, <1>2, <1>5 DEF Mail
<1>6. ASSUME NEW p \in Pages, NEW i \in DOMAIN inbox'[p], Answers(p, i)'
      PROVE  \E c \in calls'[p] : c.stage = "asked"
  <2>1. calls'[p] = calls[p]
    BY <1>6 DEF Quiet
  <2>2. QED
    BY <1>2, <1>6, <2>1 DEF Mail
<1>7. ASSUME NEW p \in Pages, NEW i \in DOMAIN inbox'[p], NEW j \in DOMAIN inbox'[p],
             Answers(p, i)', Answers(p, j)'
      PROVE  i = j
  <2>1. i + up[p] = j + up[p] /\ i \in Nat /\ j \in Nat /\ up[p] \in Nat
    BY <1>2, <1>7 DEF Mail
  <2>2. QED
    BY <2>1
<1>8. QED
  BY <1>3, <1>4, <1>5, <1>6, <1>7 DEF Mail

LEMMA MailSame ==
  ASSUME TypeOK, Mail, gen' = gen, inbox' = inbox,
         \A q \in Pages : calls'[q] = calls[q] \/ Quiet(q)
  PROVE  Mail'
<1> DEFINE up == [q \in Pages |-> 0]
<1>1. \A q \in Pages : \A i \in DOMAIN inbox[q] : i \in Nat
  <2>1. \A q \in Pages : inbox[q] \in Seq(Message)
    BY DEF TypeOK
  <2>2. QED
    BY <2>1, LenProperties
<1>2. \A q \in Pages : Quiet(q) => Quiet(q)'
  BY DEF Quiet, AskedBy, Answers, Current
<1>3. up \in [Pages -> Nat] /\ \A q \in Pages : up[q] = 0
  OBVIOUS
<1> HIDE DEF up
<1>4. \A q \in Pages : \A i \in DOMAIN inbox'[q] :
        i \in Nat /\ i + up[q] \in DOMAIN inbox[q] /\ inbox'[q][i] = inbox[q][i + up[q]]
  BY <1>1, <1>3
<1>5. QED
  BY <1>2, <1>3, <1>4, MailFewer

LEMMA MailTaken ==
  ASSUME Mail, gen' = gen, NEW p \in Pages, Taken(p),
         \A q \in Pages : calls'[q] = calls[q] \/ Quiet(q)'
  PROVE  Mail'
<1> DEFINE up == [q \in Pages |-> Up(p, q)]
<1>1. up \in [Pages -> Nat] /\ \A q \in Pages : up[q] = Up(p, q)
  BY DEF Up
<1> HIDE DEF up
<1>2. \A q \in Pages : \A i \in DOMAIN inbox'[q] :
        i \in Nat /\ i + up[q] \in DOMAIN inbox[q] /\ inbox'[q][i] = inbox[q][i + up[q]]
  BY <1>1 DEF Taken
<1>3. QED
  BY <1>1, <1>2, MailFewer

LEMMA QuietTaken ==
  ASSUME gen' = gen, NEW p \in Pages, Taken(p), NEW q \in Pages, Quiet(q)
  PROVE  Quiet(q)'
<1>1. ASSUME NEW t \in Pages, NEW i \in DOMAIN inbox'[t] PROVE ~AskedBy(t, i, q)'
  <2>1. i + Up(p, t) \in DOMAIN inbox[t] /\ inbox'[t][i] = inbox[t][i + Up(p, t)]
    BY DEF Taken
  <2>2. QED
    BY <2>1 DEF Quiet, AskedBy, Current
<1>2. ASSUME NEW i \in DOMAIN inbox'[q] PROVE ~Answers(q, i)'
  <2>1. i + Up(p, q) \in DOMAIN inbox[q] /\ inbox'[q][i] = inbox[q][i + Up(p, q)]
    BY DEF Taken
  <2>2. QED
    BY <2>1 DEF Quiet, Answers
<1>3. QED
  BY <1>1, <1>2 DEF Quiet

\* A request takes the place of an asked page's quiet.
LEMMA MailAsked ==
  ASSUME Mail, gen' = gen, NEW p \in Pages, NEW c, Quiet(p),
         c.from \in Pages, c.stage = "asked", calls'[p] = {c},
         \A q \in Pages : q # p => calls'[q] = calls[q],
         NEW n, Posted(c.from, Request(c.room, p, gen[p]), n)
  PROVE  Mail'
<1> DEFINE e == Request(c.room, p, gen[p])
<1>1. e.kind = "request" /\ e.page = p /\ e.room = c.room /\ e.wrapped = gen[p]
  BY DEF Request, Event
<1> HIDE DEF e
<1>2. Posted(c.from, e, n)
  BY DEF e
<1>3. ASSUME NEW q \in Pages, NEW t \in Pages, NEW i \in DOMAIN inbox'[q], AskedBy(q, i, t)'
      PROVE  \/ t # p /\ i \in DOMAIN inbox[q] /\ inbox'[q][i] = inbox[q][i] /\ AskedBy(q, i, t)
             \/ t = p /\ q = c.from /\ i = n /\ inbox'[q][i] = e
  <2>1. CASE i \in DOMAIN inbox[q] /\ inbox'[q][i] = inbox[q][i]
    <3>1. AskedBy(q, i, t)
      BY <1>3, <2>1 DEF AskedBy, Current
    <3>2. QED
      BY <2>1, <3>1 DEF Quiet
  <2>2. CASE q = c.from /\ i = n
    BY <1>1, <1>2, <1>3, <2>2 DEF Posted, AskedBy
  <2>3. QED
    BY <1>2, <2>1, <2>2 DEF Posted
<1>4. ASSUME NEW t \in Pages, NEW i \in DOMAIN inbox'[t], Answers(t, i)'
      PROVE  t # p /\ i \in DOMAIN inbox[t] /\ inbox'[t][i] = inbox[t][i] /\ Answers(t, i)
  <2>1. inbox'[t][i] # e
    BY <1>1, <1>4 DEF Answers
  <2>2. i \in DOMAIN inbox[t] /\ inbox'[t][i] = inbox[t][i]
    BY <1>2, <2>1 DEF Posted
  <2>3. Answers(t, i)
    BY <1>4, <2>2 DEF Answers
  <2>4. QED
    BY <2>2, <2>3 DEF Quiet
<1>5. ASSUME NEW q \in Pages, NEW t \in Pages, NEW i \in DOMAIN inbox'[q], AskedBy(q, i, t)'
      PROVE  HasAsked(t, inbox[q][i].room, q)'
  <2>1. CASE t # p /\ i \in DOMAIN inbox[q] /\ inbox'[q][i] = inbox[q][i] /\ AskedBy(q, i, t)
    BY <2>1 DEF Mail, HasAsked
  <2>2. CASE t = p /\ q = c.from /\ i = n /\ inbox'[q][i] = e
    BY <1>1, <2>2 DEF HasAsked
  <2>3. QED
    BY <1>3, <1>5, <2>1, <2>2
<1>6. \A t, q \in Pages : \A i, j \in DOMAIN inbox'[q] : AskedBy(q, i, t)' /\ AskedBy(q, j, t)' => i = j
  BY <1>3 DEF Mail
<1>7. \A t, q \in Pages : \A i \in DOMAIN inbox'[q], j \in DOMAIN inbox'[t] :
        ~(AskedBy(q, i, t)' /\ Answers(t, j)')
  BY <1>3, <1>4 DEF Mail
<1>8. \A t \in Pages : \A i \in DOMAIN inbox'[t] : Answers(t, i)' => \E d \in calls'[t] : d.stage = "asked"
  BY <1>4 DEF Mail
<1>9. \A t \in Pages : \A i, j \in DOMAIN inbox'[t] : Answers(t, i)' /\ Answers(t, j)' => i = j
  BY <1>4 DEF Mail
<1>10. QED
  BY <1>5, <1>6, <1>7, <1>8, <1>9 DEF Mail

\* The answer takes the place of the request.
LEMMA MailAnswered ==
  ASSUME Mail, gen' = gen, calls' = calls, \A t \in Pages : Placed(t),
         NEW p \in Pages, NEW n \in Nat, Answered(p, n)
  PROVE  Mail'
<1> DEFINE e == inbox[p][1]
           a == Response(keys[p][e.room], e.wrapped)
           x == e.page
<1>1. a.kind = "response" /\ a.wrapped = e.wrapped
  BY DEF Response, Event
<1>2. /\ 1 \in DOMAIN inbox[p] /\ x \in Pages /\ e.kind = "request"
      /\ \A q \in Pages : \A i \in DOMAIN inbox'[q] :
           \/ /\ i \in Nat /\ i >= 1 /\ i + Up(p, q) \in DOMAIN inbox[q]
              /\ inbox'[q][i] = inbox[q][i + Up(p, q)]
           \/ q = x /\ i = n /\ inbox'[q][i] = a
  BY DEF Answered
<1>3. \A q \in Pages : Up(p, q) \in Nat /\ Up(p, p) = 1
  BY DEF Up
<1> HIDE DEF a, x
<1>4. ASSUME NEW q \in Pages, NEW t \in Pages, NEW i \in DOMAIN inbox'[q], AskedBy(q, i, t)'
      PROVE  /\ i \in Nat /\ i >= 1 /\ i + Up(p, q) \in DOMAIN inbox[q]
             /\ inbox'[q][i] = inbox[q][i + Up(p, q)] /\ AskedBy(q, i + Up(p, q), t)
  BY <1>1, <1>2, <1>4 DEF AskedBy, Current
<1>5. ASSUME NEW t \in Pages, NEW i \in DOMAIN inbox'[t], Answers(t, i)'
      PROVE  \/ /\ i \in Nat /\ i + Up(p, t) \in DOMAIN inbox[t]
                /\ inbox'[t][i] = inbox[t][i + Up(p, t)] /\ Answers(t, i + Up(p, t))
             \/ t = x /\ i = n /\ AskedBy(p, 1, t)
  <2>1. CASE i \in Nat /\ i + Up(p, t) \in DOMAIN inbox[t] /\ inbox'[t][i] = inbox[t][i + Up(p, t)]
    BY <1>5, <2>1 DEF Answers
  <2>2. CASE t = x /\ i = n /\ inbox'[t][i] = a
    <3>1. e.wrapped = gen[t]
      BY <1>1, <1>5, <2>2 DEF Answers
    <3>2. AskedBy(p, 1, t)
      BY <1>2, <2>2, <3>1 DEF AskedBy, Current, x
    <3>3. QED
      BY <2>2, <3>2
  <2>3. QED
    BY <1>2, <2>1, <2>2
<1>6. \A t, q \in Pages : \A i \in DOMAIN inbox'[q] : AskedBy(q, i, t)' => ~AskedBy(p, 1, t)
  <2> SUFFICES ASSUME NEW t \in Pages, NEW q \in Pages, NEW i \in DOMAIN inbox'[q],
                      AskedBy(q, i, t)', AskedBy(p, 1, t)
               PROVE  FALSE
    OBVIOUS
  <2>1. q = p /\ i + Up(p, q) = 1
    BY <1>4, AskedOnce
  <2>2. QED
    BY <1>3, <1>4, <2>1
<1>7. ASSUME NEW q \in Pages, NEW t \in Pages, NEW i \in DOMAIN inbox'[q], AskedBy(q, i, t)'
      PROVE  HasAsked(t, inbox[q][i].room, q)'
  BY <1>4, <1>7 DEF Mail, HasAsked
<1>8. ASSUME NEW q \in Pages, NEW t \in Pages, NEW i \in DOMAIN inbox'[q], NEW j \in DOMAIN inbox'[q],
             AskedBy(q, i, t)', AskedBy(q, j, t)'
      PROVE  i = j
  <2>1. i + Up(p, q) = j + Up(p, q) /\ i \in Nat /\ j \in Nat
    BY <1>4, <1>8 DEF Mail
  <2>2. QED
    BY <1>3, <2>1
<1>9. ASSUME NEW q \in Pages, NEW t \in Pages, NEW i \in DOMAIN inbox'[q], NEW j \in DOMAIN inbox'[t],
             AskedBy(q, i, t)', Answers(t, j)'
      PROVE  FALSE
  <2>1. /\ i + Up(p, q) \in DOMAIN inbox[q] /\ AskedBy(q, i + Up(p, q), t) /\ ~AskedBy(p, 1, t)
    BY <1>4, <1>6, <1>9
  <2>2. j + Up(p, t) \in DOMAIN inbox[t] /\ Answers(t, j + Up(p, t))
    BY <1>5, <1>9, <2>1
  <2>3. QED
    BY <2>1, <2>2 DEF Mail
<1>10. ASSUME NEW t \in Pages, NEW i \in DOMAIN inbox'[t], Answers(t, i)'
       PROVE  \E d \in calls'[t] : d.stage = "asked"
  BY <1>2, <1>5, <1>10 DEF Mail, HasAsked
<1>11. ASSUME NEW t \in Pages, NEW i \in DOMAIN inbox'[t], NEW j \in DOMAIN inbox'[t],
              Answers(t, i)', Answers(t, j)'
       PROVE  i = j
  <2>1. CASE AskedBy(p, 1, t)
    <3>1. \A k \in DOMAIN inbox[t] : ~Answers(t, k)
      BY <1>2, <2>1 DEF Mail
    <3>2. QED
      BY <1>5, <1>11, <3>1
  <2>2. CASE ~AskedBy(p, 1, t)
    <3>1. i + Up(p, t) = j + Up(p, t) /\ i \in Nat /\ j \in Nat
      BY <1>5, <1>11, <2>2 DEF Mail
    <3>2. QED
      BY <1>3, <3>1
  <2>3. QED
    BY <2>1, <2>2
<1>12. QED
  BY <1>7, <1>8, <1>9, <1>10, <1>11 DEF Mail

\* A taken answer was the last.
LEMMA LastAnswer ==
  ASSUME Mail, gen' = gen, NEW p \in Pages, Taken(p), Answers(p, 1)
  PROVE  Quiet(p)'
<1>1. 1 \in DOMAIN inbox[p]
  BY DEF Taken
<1>2. ASSUME NEW q \in Pages, NEW i \in DOMAIN inbox'[q] PROVE ~AskedBy(q, i, p)'
  <2>1. i + Up(p, q) \in DOMAIN inbox[q] /\ inbox'[q][i] = inbox[q][i + Up(p, q)]
    BY DEF Taken
  <2>2. ~AskedBy(q, i + Up(p, q), p)
    BY <1>1, <2>1 DEF Mail
  <2>3. QED
    BY <2>1, <2>2 DEF AskedBy, Current
<1>3. ASSUME NEW i \in DOMAIN inbox'[p] PROVE ~Answers(p, i)'
  <2>1. i + 1 \in DOMAIN inbox[p] /\ inbox'[p][i] = inbox[p][i + 1] /\ i + 1 # 1
    BY DEF Taken, Up
  <2>2. ~Answers(p, i + 1)
    BY <1>1, <2>1 DEF Mail
  <2>3. QED
    BY <2>1, <2>2 DEF Answers
<1>4. QED
  BY <1>2, <1>3 DEF Quiet

LEMMA MailNext ==
  ASSUME TypeOK, Books, ~disturbed', \A p \in Pages : Placed(p), Mail, [Next]_vars
  PROVE  Mail'
<1> USE DEF relay, crypto, shown, counts, notes
<1>0. ~disturbed /\ rsa = gen
  BY DisturbedStays DEF Books
<1>1. ASSUME NEW p \in Pages, HearsUsers(p) PROVE Mail'
  <2>1. Taken(p) /\ Head(inbox[p]).kind = "all-users" /\ Listed(p)
    <3>1. Taken(p) /\ Head(inbox[p]).kind = "all-users"
      BY <1>1, TakenIs DEF HearsUsers
    <3>2. QED
      BY <3>1 DEF Taken, Listed, Waits
  <2>2. calls[p] = {}
    BY <2>1 DEF Placed
  <2>3. gen' = gen /\ Quiet(p)'
    BY <1>1, <2>1, <2>2, NobodyAsked, QuietTaken DEF HearsUsers
  <2>4. \A q \in Pages : q # p => calls'[q] = calls[q]
    <3>1. calls' = [calls EXCEPT ![p] = @ \cup UNION {Joins(p, r, Head(inbox[p]).users) : r \in TakenFor(p)}]
      BY <1>1 DEF HearsUsers
    <3>2. QED
      BY <3>1 DEF TypeOK
  <2>5. QED
    BY <2>1, <2>3, <2>4, MailTaken
<1>2. ASSUME NEW p \in Pages, HearsRequest(p) PROVE Mail'
  <2>1. PICK n \in Nat : Answered(p, n)
    BY <1>2, AnsweredIs
  <2>2. QED
    BY <1>2, <2>1, MailAnswered DEF HearsRequest
<1>3. ASSUME NEW p \in Pages, HearsResponse(p) PROVE Mail'
  <2> DEFINE asked == {c \in calls[p] : c.stage = "asked"}
             e == Head(inbox[p])
  <2>1. Taken(p) /\ e.kind = "response" /\ e = inbox[p][1] /\ gen' = gen
    <3>1. Taken(p) /\ e.kind = "response" /\ gen' = gen
      BY <1>3, TakenIs DEF HearsResponse
    <3>2. QED
      BY <3>1 DEF Taken
  <2>2. IF e.wrapped = gen[p] THEN Files(p, asked, e.key) /\ UNCHANGED disturbed
        ELSE /\ calls' = [calls EXCEPT ![p] = @ \ asked]
             /\ disturbed' = (disturbed \/ asked # {})
             /\ UNCHANGED <<keys, joined>>
    BY <1>3 DEF HearsResponse
  <2> HIDE DEF e, asked
  <2>3. CASE e.wrapped = gen[p]
    <3>1. Answers(p, 1)
      BY <2>1, <2>3 DEF Answers, Taken
    <3>2. Quiet(p)'
      BY <2>1, <3>1, LastAnswer
    <3>3. \A q \in Pages : q # p => calls'[q] = calls[q]
      BY <2>2, <2>3 DEF Files, TypeOK
    <3>4. QED
      BY <2>1, <3>2, <3>3, MailTaken
  <2>4. CASE e.wrapped # gen[p]
    <3>1. asked = {}
      BY <2>2, <2>4
    <3>2. \A q \in Pages : calls'[q] = calls[q]
      BY <2>2, <2>4, <3>1 DEF TypeOK
    <3>3. QED
      BY <2>1, <3>2, MailTaken
  <2>5. QED
    BY <2>3, <2>4
\* A run that has not asked, and is the only one, changes.
<1>4. ASSUME NEW p \in Pages, NEW c \in calls[p], c.stage # "asked" PROVE Quiet(p)
  BY <1>4, NobodyAsked DEF Placed
<1>5. ASSUME NEW p \in Pages, NEW c \in calls[p], Generates(p, c) PROVE Mail'
  <2>1. Quiet(p)
    BY <1>4, <1>5 DEF Generates
  <2>2. gen' = gen /\ inbox' = inbox /\ \A q \in Pages : q # p => calls'[q] = calls[q]
    BY <1>5 DEF Generates, Files, TypeOK
  <2>3. QED
    BY <2>1, <2>2, MailSame
<1>6. ASSUME NEW p \in Pages, NEW c \in calls[p], Asks(p, c) PROVE Mail'
  <2> DEFINE d == [c EXCEPT !.stage = "asked"]
  <2>1. c \in Call /\ c.room \in Rooms /\ c.from \in Pages /\ c.stage = "seeking"
    BY <1>6, CallsAre DEF Asks, TypeOK
  <2>2. Quiet(p)
    BY <1>4, <1>6, <2>1
  <2>3. d.room = c.room /\ d.from = c.from /\ d.stage = "asked"
    BY <2>1 DEF Call
  <2>4. calls' = [calls EXCEPT ![p] = (@ \ {c}) \cup {d}] /\ gen' = gen
    BY <1>6 DEF Asks
  <2> HIDE DEF d
  <2>5. calls'[p] = {d} /\ \A q \in Pages : q # p => calls'[q] = calls[q]
    <3>1. calls[p] = {c}
      BY DEF Placed
    <3>2. QED
      BY <2>4, <3>1 DEF TypeOK
  <2>6. CASE In(p, c.room) /\ In(c.from, c.room)
    <3>1. inbox' = [inbox EXCEPT ![d.from] = Append(@, Request(d.room, p, gen[p]))]
      BY <1>0, <1>6, <2>3, <2>6 DEF Asks
    <3>2. Request(d.room, p, gen[p]) \in Message /\ d.from \in Pages
      BY <2>1, <2>3, MessagesAre DEF TypeOK
    <3>3. Posted(d.from, Request(d.room, p, gen[p]), Len(inbox[d.from]) + 1)
      BY <3>1, <3>2, PostedIs
    <3>4. QED
      BY <2>2, <2>3, <2>4, <2>5, <3>2, <3>3, MailAsked
  <2>7. CASE ~(In(p, c.room) /\ In(c.from, c.room))
    <3>1. inbox' = inbox
      BY <1>6, <2>7 DEF Asks
    <3>2. QED
      BY <2>2, <2>4, <2>5, <3>1, MailSame
  <2>8. QED
    BY <2>6, <2>7
<1>7. ASSUME NEW p \in Pages, NEW c \in calls[p], GivesUp(p, c) PROVE FALSE
  BY <1>7 DEF GivesUp
<1>8. ASSUME NEW p \in Pages, Granted(p) PROVE Mail'
  <2> DEFINE e == AllUsers(Lacking(members[checking[p]], p))
             up == [q \in Pages |-> 0]
  <2>1. e \in Message /\ e.kind = "all-users"
    <3>1. checking[p] \in Rooms
      BY <1>8 DEF Granted, TypeOK
    <3>2. Lacking(members[checking[p]], p) \in Seq(Pages)
      BY <3>1, LackingOne DEF Books, Distinct, TypeOK
    <3>3. QED
      BY <3>2, MessagesAre DEF AllUsers, Event
  <2>2. inbox' = [inbox EXCEPT ![p] = Append(@, e)] /\ gen' = gen /\ calls' = calls
    BY <1>8 DEF Granted
  <2> HIDE DEF e
  <2>3. Posted(p, e, Len(inbox[p]) + 1)
    BY <2>1, <2>2, PostedIs
  <2>4. \A q \in Pages : \A i \in DOMAIN inbox[q] : i \in Nat
    <3>1. \A q \in Pages : inbox[q] \in Seq(Message)
      BY DEF TypeOK
    <3>2. QED
      BY <3>1, LenProperties
  <2>5. up \in [Pages -> Nat] /\ \A q \in Pages : up[q] = 0
    OBVIOUS
  <2> HIDE DEF up
  <2>6. \A q \in Pages : \A i \in DOMAIN inbox'[q] :
          \/ inbox'[q][i].kind = "all-users"
          \/ i \in Nat /\ i + up[q] \in DOMAIN inbox[q] /\ inbox'[q][i] = inbox[q][i + up[q]]
    BY <2>1, <2>3, <2>4, <2>5 DEF Posted
  <2>7. QED
    BY <2>2, <2>5, <2>6, MailFewer
<1>9. ASSUME NEW p \in Pages, Refused(p) PROVE FALSE
  BY <1>9 DEF Refused
\* A new pair of keys is newer than every message.
<1>11. ASSUME NEW p \in Pages, Open(p) PROVE Mail'
  <2>1. /\ gen' = [gen EXCEPT ![p] = opens + 1] /\ UNCHANGED <<inbox, calls>>
        /\ inbox[p] = <<>>
    BY <1>11 DEF Open, Books, Closed
  <2>2. \A q \in Pages : \A i \in DOMAIN inbox[q] : inbox[q][i].wrapped # opens + 1
    <3>1. \A q \in Pages : \A i \in DOMAIN inbox[q] : inbox[q][i] \in Message
      BY DEF TypeOK
    <3>2. \A q \in Pages : \A i \in DOMAIN inbox[q] : inbox[q][i].wrapped \in Nat /\ inbox[q][i].wrapped <= opens
      BY <3>1, MessagesAre DEF Books, Sealed
    <3>3. QED
      BY <3>2 DEF TypeOK
  <2>3. \A q, t \in Pages : \A i \in DOMAIN inbox[q] : AskedBy(q, i, t)' => AskedBy(q, i, t)
    BY <2>1, <2>2 DEF AskedBy, Current, TypeOK
  <2>4. \A t \in Pages : \A i \in DOMAIN inbox[t] : Answers(t, i)' => Answers(t, i)
    BY <2>1, <2>2 DEF Answers, TypeOK
  <2>5. QED
    BY <2>1, <2>3, <2>4 DEF Mail, HasAsked
<1>12. ASSUME NEW p \in Pages, Close(p) PROVE Mail'
  <2>1. /\ gen' = [gen EXCEPT ![p] = 0] /\ inbox' = [inbox EXCEPT ![p] = <<>>]
        /\ calls' = [calls EXCEPT ![p] = {}]
    BY <1>12 DEF Close
  <2>2. \A q \in Pages : \A i \in DOMAIN inbox'[q] : q # p /\ i \in DOMAIN inbox[q] /\ inbox'[q][i] = inbox[q][i]
    BY <2>1 DEF TypeOK
  <2>3. ASSUME NEW q \in Pages, NEW t \in Pages, NEW i \in DOMAIN inbox'[q], AskedBy(q, i, t)'
        PROVE  t # p /\ AskedBy(q, i, t)
    <3>1. inbox[q][i].kind = "request" /\ inbox[q][i].page = t /\ inbox[q][i].wrapped = gen'[t]
      BY <2>2, <2>3 DEF AskedBy, Current
    <3>2. inbox[q][i].wrapped # 0
      BY <2>2, <3>1 DEF Books, Sealed
    <3>3. t # p /\ gen'[t] = gen[t]
      BY <2>1, <3>1, <3>2 DEF TypeOK
    <3>4. QED
      BY <2>2, <3>1, <3>3 DEF AskedBy, Current
  <2>4. ASSUME NEW t \in Pages, NEW i \in DOMAIN inbox'[t], Answers(t, i)'
        PROVE  t # p /\ Answers(t, i)
    BY <2>1, <2>2, <2>4 DEF Answers, TypeOK
  <2>5. \A t \in Pages : t # p => calls'[t] = calls[t]
    BY <2>1 DEF TypeOK
  <2>6. \A q, t \in Pages : \A i \in DOMAIN inbox'[q] : AskedBy(q, i, t)' => HasAsked(t, inbox[q][i].room, q)'
    BY <2>2, <2>3, <2>5 DEF Mail, HasAsked
  <2>7. \A q, t \in Pages : \A i, j \in DOMAIN inbox'[q] : AskedBy(q, i, t)' /\ AskedBy(q, j, t)' => i = j
    BY <2>2, <2>3 DEF Mail
  <2>8. \A q, t \in Pages : \A i \in DOMAIN inbox'[q], j \in DOMAIN inbox'[t] :
          ~(AskedBy(q, i, t)' /\ Answers(t, j)')
    BY <2>2, <2>3, <2>4 DEF Mail
  <2>9. \A t \in Pages : \A i \in DOMAIN inbox'[t] : Answers(t, i)' => \E c \in calls'[t] : c.stage = "asked"
    BY <2>2, <2>4, <2>5 DEF Mail
  <2>10. \A t \in Pages : \A i, j \in DOMAIN inbox'[t] : Answers(t, i)' /\ Answers(t, j)' => i = j
    BY <2>2, <2>4 DEF Mail
  <2>11. QED
    BY <2>6, <2>7, <2>8, <2>9, <2>10 DEF Mail
<1>13. ASSUME UNCHANGED <<gen, inbox, calls>> PROVE Mail'
  BY <1>13, MailSame
<1>14. ASSUME NEW p \in Pages, Polls(p) \/ StartEphemeral(p) \/ JoinEphemeral(p) PROVE Mail'
  BY <1>13, <1>14 DEF Polls, StartEphemeral, JoinEphemeral, Join
<1>15. ASSUME NEW p \in Pages, LeaveVoice(p) \/ LeaveEphemeral(p) \/ EndEphemeral(p) PROVE Mail'
  BY <1>13, <1>15 DEF LeaveVoice, LeaveEphemeral, EndEphemeral, Leaves
<1>16. ASSUME NEW p \in Pages, NEW r \in Voice, JoinVoice(p, r) PROVE Mail'
  BY <1>13, <1>16 DEF JoinVoice, Join
<1>17. CASE Expires \/ UNCHANGED vars
  BY <1>13, <1>17 DEF Expires, vars
<1>18. QED
  BY <1>1, <1>2, <1>3, <1>5, <1>6, <1>7, <1>8, <1>9, <1>11, <1>12, <1>14, <1>15, <1>16,
     <1>17 DEF Next, Hears, Works, Acts

-----------------------------------------------------------------------------
(* The one key of a room                                                    *)

\* A page will generate the room's key; it has the key, or the key is on its way.
Starts(p, r) ==
  /\ In(p, r)
  /\ \/ \E i \in DOMAIN inbox[p] : inbox[p][i].kind = "all-users" /\ inbox[p][i].users = <<>>
     \/ \E c \in calls[p] : c.stage = "generating"
Holds(p, r, k) ==
  /\ In(p, r) /\ k # 0
  /\ \/ keys[p][r] = k
     \/ \E i \in DOMAIN inbox[p] : Answers(p, i) /\ inbox[p][i].key = k

\* Members of a room have no two keys between them, and none while one of them is
\* to generate it, which is one only.
Agreed ==
  /\ \A p, q \in Pages, r \in Rooms : Starts(p, r) /\ Starts(q, r) => p = q
  /\ \A p, q \in Pages, r \in Rooms, k \in Nat : ~(Starts(p, r) /\ Holds(q, r, k))
  /\ \A p, q \in Pages, r \in Rooms, k, l \in Nat : Holds(p, r, k) /\ Holds(q, r, l) => k = l

LEMMA AgreedFewer ==
  ASSUME Agreed,
         \A p \in Pages, r \in Rooms : Starts(p, r)' => Starts(p, r),
         \A p \in Pages, r \in Rooms, k \in Nat : Holds(p, r, k)' => \E q \in Pages : Holds(q, r, k)
  PROVE  Agreed'
BY DEF Agreed

\* Pages may leave, messages and keys go, and requests come, without harm.
LEMMA StartsFewer ==
  ASSUME NEW p \in Pages, NEW r \in Rooms, In(p, r)' => In(p, r),
         \A i \in DOMAIN inbox'[p] :
           \/ inbox'[p][i].kind \in {"request", "response"}
           \/ \E j \in DOMAIN inbox[p] : inbox'[p][i] = inbox[p][j],
         \A c \in calls'[p] : c.stage = "generating" => c \in calls[p]
  PROVE  Starts(p, r)' => Starts(p, r)
BY DEF Starts

LEMMA HoldsFewer ==
  ASSUME NEW p \in Pages, NEW r \in Rooms, NEW k \in Nat, In(p, r)' => In(p, r),
         In(p, r)' => gen'[p] = gen[p],
         keys'[p][r] \in {0, keys[p][r]},
         \A i \in DOMAIN inbox'[p] :
           \/ inbox'[p][i].kind \in {"request", "all-users"}
           \/ \E j \in DOMAIN inbox[p] : inbox'[p][i] = inbox[p][j]
  PROVE  Holds(p, r, k)' => Holds(p, r, k)
<1> SUFFICES ASSUME Holds(p, r, k)' PROVE Holds(p, r, k)
  OBVIOUS
<1>1. In(p, r) /\ k # 0 /\ gen'[p] = gen[p]
  BY DEF Holds
<1>2. CASE keys'[p][r] = k
  BY <1>1, <1>2 DEF Holds
<1>3. CASE \E i \in DOMAIN inbox'[p] : Answers(p, i)' /\ inbox'[p][i].key = k
  <2>1. PICK i \in DOMAIN inbox'[p] : Answers(p, i)' /\ inbox'[p][i].key = k
    BY <1>3
  <2>2. PICK j \in DOMAIN inbox[p] : inbox'[p][i] = inbox[p][j]
    BY <2>1 DEF Answers
  <2>3. Answers(p, j) /\ inbox[p][j].key = k
    BY <1>1, <2>1, <2>2 DEF Answers
  <2>4. QED
    BY <1>1, <2>3 DEF Holds
<1>4. QED
  BY <1>2, <1>3 DEF Holds

LEMMA AgreedNext ==
  ASSUME TypeOK, Books, TypeOK', ~disturbed', \A p \in Pages : Placed(p),
         \A p \in Pages : Placed(p)', Mail, Mail', Agreed, [Next]_vars
  PROVE  Agreed'
<1> USE DEF relay, crypto, shown, counts, notes
<1>0. ~disturbed /\ Distinct /\ rsa = gen
  BY DisturbedStays DEF Books
\* What is left of inboxes, keys and rooms.
<1>a. ASSUME \A p \in Pages, r \in Rooms : In(p, r)' => In(p, r),
             \A p \in Pages, r \in Rooms : In(p, r)' => gen'[p] = gen[p],
             \A p \in Pages, r \in Rooms : keys'[p][r] \in {0, keys[p][r]},
             \A p \in Pages : \A i \in DOMAIN inbox'[p] :
               \/ inbox'[p][i].kind = "request"
               \/ \E j \in DOMAIN inbox[p] : inbox'[p][i] = inbox[p][j],
             \A p \in Pages : \A c \in calls'[p] : c.stage = "generating" => c \in calls[p]
      PROVE  Agreed'
  <2>1. \A p \in Pages, r \in Rooms : Starts(p, r)' => Starts(p, r)
    BY <1>a, StartsFewer
  <2>2. \A p \in Pages, r \in Rooms, k \in Nat : Holds(p, r, k)' => Holds(p, r, k)
    BY <1>a, HoldsFewer
  <2>3. QED
    BY <2>1, <2>2, AgreedFewer
<1>1. ASSUME NEW p \in Pages, HearsUsers(p) PROVE Agreed'
  <2> DEFINE users == Head(inbox[p]).users
  <2>1. Taken(p) /\ Head(inbox[p]).kind = "all-users" /\ Listed(p) /\ 1 \in DOMAIN inbox[p]
        /\ inbox[p][1] = Head(inbox[p])
    <3>1. Taken(p) /\ Head(inbox[p]).kind = "all-users"
      BY <1>1, TakenIs DEF HearsUsers
    <3>2. QED
      BY <3>1 DEF Taken, Listed, Waits
  <2>2. calls' = [calls EXCEPT ![p] = @ \cup UNION {Joins(p, r, users) : r \in TakenFor(p)}]
        /\ UNCHANGED <<members, gen, keys>>
    BY <1>1 DEF HearsUsers
  <2> HIDE DEF users
  <2>3. calls[p] = {} /\ \A q \in Pages : q # p => calls'[q] = calls[q]
    BY <2>1, <2>2 DEF Placed, TypeOK
  <2>4. \A c \in calls'[p] : c.stage = "generating" => users = <<>>
    <3>1. calls'[p] = UNION {Joins(p, r, users) : r \in TakenFor(p)}
      BY <2>2, <2>3 DEF TypeOK
    <3>2. QED
      BY <3>1 DEF Joins
  <2>5. \A q \in Pages : \A i \in DOMAIN inbox'[q] : \E j \in DOMAIN inbox[q] : inbox'[q][i] = inbox[q][j]
    BY <2>1 DEF Taken
  <2>6. ASSUME NEW q \in Pages, NEW r \in Rooms, Starts(q, r)' PROVE Starts(q, r)
    <3>1. In(q, r)
      BY <2>2, <2>6 DEF Starts, In
    <3>2. CASE \E c \in calls'[q] : c.stage = "generating" /\ q = p
      BY <2>1, <2>4, <3>1, <3>2 DEF Starts, users
    <3>3. CASE \E c \in calls'[q] : c.stage = "generating" /\ q # p
      BY <2>3, <3>1, <3>3 DEF Starts
    <3>4. CASE \E i \in DOMAIN inbox'[q] : inbox'[q][i].kind = "all-users" /\ inbox'[q][i].users = <<>>
      BY <2>5, <3>1, <3>4 DEF Starts
    <3>5. QED
      BY <2>6, <3>2, <3>3, <3>4 DEF Starts
  <2>7. \A q \in Pages, r \in Rooms, k \in Nat : Holds(q, r, k)' => Holds(q, r, k)
    BY <2>2, <2>5, HoldsFewer DEF In
  <2>8. QED
    BY <2>6, <2>7, AgreedFewer
<1>2. ASSUME NEW p \in Pages, HearsRequest(p) PROVE Agreed'
  <2> DEFINE e == inbox[p][1]
             a == Response(keys[p][e.room], e.wrapped)
  <2>1. PICK n \in Nat : Answered(p, n)
    BY <1>2, AnsweredIs
  <2>2. UNCHANGED <<members, gen, keys, calls>>
    BY <1>2 DEF HearsRequest
  <2>3. /\ 1 \in DOMAIN inbox[p] /\ e.kind = "request" /\ e.room \in Rooms /\ e.page \in Pages
        /\ keys[p][e.room] \in Nat
        /\ a.kind = "response" /\ a.wrapped = e.wrapped /\ a.key = keys[p][e.room]
        /\ \A q \in Pages : \A i \in DOMAIN inbox'[q] :
             \/ \E j \in DOMAIN inbox[q] : inbox'[q][i] = inbox[q][j]
             \/ q = e.page /\ inbox'[q][i] = a /\ keys[p][e.room] # 0
    BY <2>1 DEF Answered, Response, Event
  <2> HIDE DEF a
  <2>4. \A q \in Pages, r \in Rooms : Starts(q, r)' => Starts(q, r)
    <3>1. \A q \in Pages : \A i \in DOMAIN inbox'[q] :
            \/ inbox'[q][i].kind \in {"request", "response"}
            \/ \E j \in DOMAIN inbox[q] : inbox'[q][i] = inbox[q][j]
      BY <2>3
    <3>2. QED
      BY <2>2, <3>1, StartsFewer DEF In
  <2>5. ASSUME NEW q \in Pages, NEW r \in Rooms, NEW k \in Nat, Holds(q, r, k)'
        PROVE  \E t \in Pages : Holds(t, r, k)
    <3>1. In(q, r) /\ k # 0
      BY <2>2, <2>5 DEF Holds, In
    <3>2. CASE keys'[q][r] = k
      BY <2>2, <3>1, <3>2 DEF Holds
    <3>3. CASE \E i \in DOMAIN inbox'[q] : Answers(q, i)' /\ inbox'[q][i].key = k
      <4>1. PICK i \in DOMAIN inbox'[q] : Answers(q, i)' /\ inbox'[q][i].key = k
        BY <3>3
      <4>2. CASE \E j \in DOMAIN inbox[q] : inbox'[q][i] = inbox[q][j]
        BY <2>2, <3>1, <4>1, <4>2 DEF Holds, Answers
      <4>3. CASE q = e.page /\ inbox'[q][i] = a /\ keys[p][e.room] # 0
        <5>1. e.wrapped = gen[q] /\ k = keys[p][e.room]
          BY <2>2, <2>3, <4>1, <4>3 DEF Answers
        <5>2. AskedBy(p, 1, q)
          BY <2>3, <4>3, <5>1 DEF AskedBy, Current
        <5>3. HasAsked(q, e.room, p)
          BY <2>3, <5>2 DEF Mail
        <5>4. e.room = r
          BY <3>1, <5>3 DEF HasAsked, Placed
        <5>5. Holds(p, r, k)
          BY <3>1, <4>3, <5>1, <5>4 DEF Holds, Placed
        <5>6. QED
          BY <5>5
      <4>4. QED
        BY <2>3, <4>2, <4>3
    <3>4. QED
      BY <2>5, <3>2, <3>3 DEF Holds
  <2>6. QED
    BY <2>4, <2>5, AgreedFewer
<1>3. ASSUME NEW p \in Pages, HearsResponse(p) PROVE Agreed'
  <2> DEFINE asked == {c \in calls[p] : c.stage = "asked"}
             e == Head(inbox[p])
  <2>1. /\ Taken(p) /\ e.kind = "response" /\ e = inbox[p][1] /\ 1 \in DOMAIN inbox[p]
        /\ UNCHANGED <<gen, members>>
    <3>1. Taken(p) /\ e.kind = "response" /\ UNCHANGED <<gen, members>>
      BY <1>3, TakenIs DEF HearsResponse
    <3>2. QED
      BY <3>1 DEF Taken
  <2>2. IF e.wrapped = gen[p] THEN Files(p, asked, e.key) /\ UNCHANGED disturbed
        ELSE /\ calls' = [calls EXCEPT ![p] = @ \ asked]
             /\ disturbed' = (disturbed \/ asked # {})
             /\ UNCHANGED <<keys, joined>>
    BY <1>3 DEF HearsResponse
  <2>3. \A q \in Pages : \A i \in DOMAIN inbox'[q] : \E j \in DOMAIN inbox[q] : inbox'[q][i] = inbox[q][j]
    BY <2>1 DEF Taken
  <2> HIDE DEF e, asked
  <2>4. \A q \in Pages, r \in Rooms : In(q, r)' => In(q, r)
    BY <2>1 DEF In
  <2>5. \A q \in Pages : \A c \in calls'[q] : c \in calls[q]
    <3>1. calls' = [calls EXCEPT ![p] = calls[p] \ asked]
      BY <2>2 DEF Files
    <3>2. QED
      BY <3>1 DEF TypeOK
  <2>6. CASE e.wrapped = gen[p]
    <3>1. Answers(p, 1)
      BY <2>1, <2>6 DEF Answers
    <3>2. \A r \in Rooms : keys'[p][r] \in {keys[p][r], e.key}
      BY <2>2, <2>6 DEF Files, TypeOK
    <3>3. \A q \in Pages : q # p => keys'[q] = keys[q]
      BY <2>2, <2>6 DEF Files, TypeOK
    <3>4. \A q \in Pages, r \in Rooms : Starts(q, r)' => Starts(q, r)
      BY <2>3, <2>4, <2>5, StartsFewer
    <3>5. ASSUME NEW q \in Pages, NEW r \in Rooms, NEW k \in Nat, Holds(q, r, k)' PROVE Holds(q, r, k)
      <4>1. CASE q = p /\ keys'[q][r] = k /\ k = e.key
        <5>1. In(p, r) /\ k # 0
          BY <2>4, <3>5, <4>1 DEF Holds
        <5>2. QED
          BY <2>1, <3>1, <4>1, <5>1 DEF Holds
      <4>2. CASE ~(q = p /\ keys'[q][r] = k /\ k = e.key)
        <5>1. In(q, r) /\ k # 0
          BY <2>4, <3>5 DEF Holds
        <5>2. CASE keys'[q][r] = k
          <6>1. keys[q][r] = k
            BY <3>2, <3>3, <4>2, <5>2
          <6>2. QED
            BY <5>1, <6>1 DEF Holds
        <5>3. CASE \E i \in DOMAIN inbox'[q] : Answers(q, i)' /\ inbox'[q][i].key = k
          BY <2>1, <2>3, <5>1, <5>3 DEF Holds, Answers
        <5>4. QED
          BY <3>5, <5>2, <5>3 DEF Holds
      <4>3. QED
        BY <4>1, <4>2
    <3>6. QED
      BY <3>4, <3>5, AgreedFewer
  <2>7. CASE e.wrapped # gen[p]
    BY <1>a, <2>1, <2>2, <2>3, <2>4, <2>5, <2>7
  <2>8. QED
    BY <2>6, <2>7
<1>4. ASSUME NEW p \in Pages, NEW c \in calls[p], Generates(p, c) PROVE Agreed'
  <2>1. /\ Files(p, {c}, made') /\ made' \in Nat \ {0} /\ UNCHANGED <<members, gen, inbox>>
        /\ c.stage = "generating"
    BY <1>4 DEF Generates, TypeOK
  <2>2. /\ c.room = Goal(p) /\ In(p, Goal(p)) /\ calls[p] = {c} /\ ~Listed(p)
        /\ \A r \in Rooms : In(p, r) => r = Goal(p)
    BY DEF Placed
  <2>3. Goal(p) \in Rooms /\ Starts(p, Goal(p))
    BY <2>1, <2>2 DEF Starts, In
  <2>4. calls'[p] = {} /\ \A q \in Pages : q # p => calls'[q] = calls[q] /\ keys'[q] = keys[q]
    BY <2>1, <2>2 DEF Files, TypeOK
  <2>5. \A r \in Rooms : keys'[p][r] = IF r = c.room THEN made' ELSE keys[p][r]
    BY <2>1 DEF Files, TypeOK
  <2>6. ASSUME NEW q \in Pages, NEW r \in Rooms, Starts(q, r)' PROVE q # p /\ Starts(q, r)
    <3>1. CASE q = p
      <4>1. ~Listed(p)'
        BY <2>1, <2>2, ListKept
      <4>2. QED
        BY <2>4, <2>6, <3>1, <4>1 DEF Starts, Listed, Waits
    <3>2. CASE q # p
      BY <2>1, <2>4, <2>6, <3>2 DEF Starts, In
    <3>3. QED
      BY <3>1, <3>2
  <2>7. ASSUME NEW q \in Pages, NEW r \in Rooms, NEW k \in Nat, Holds(q, r, k)'
        PROVE  IF r = Goal(p) THEN k = made' ELSE Holds(q, r, k)
    <3>1. In(q, r) /\ k # 0
      BY <2>1, <2>7 DEF Holds, In
    <3>2. CASE keys'[q][r] = k /\ q = p
      BY <2>2, <2>5, <3>1, <3>2 DEF Holds
    <3>3. CASE ~(keys'[q][r] = k /\ q = p)
      <4>1. Holds(q, r, k)
        <5>1. CASE keys'[q][r] = k
          BY <2>4, <3>1, <3>3, <5>1 DEF Holds
        <5>2. CASE \E i \in DOMAIN inbox'[q] : Answers(q, i)' /\ inbox'[q][i].key = k
          BY <2>1, <3>1, <5>2 DEF Holds, Answers
        <5>3. QED
          BY <2>7, <5>1, <5>2 DEF Holds
      <4>2. r # Goal(p)
        BY <2>3, <4>1 DEF Agreed
      <4>3. QED
        BY <4>1, <4>2
    <3>4. QED
      BY <3>2, <3>3
  <2>8. \A q, t \in Pages, r \in Rooms : Starts(q, r)' /\ Starts(t, r)' => q = t
    BY <2>6 DEF Agreed
  <2>9. \A q \in Pages, r \in Rooms : Starts(q, r)' => r # Goal(p)
    BY <2>3, <2>6 DEF Agreed
  <2>10. \A q, t \in Pages, r \in Rooms, k \in Nat : ~(Starts(q, r)' /\ Holds(t, r, k)')
    BY <2>6, <2>7, <2>9 DEF Agreed
  <2>11. \A q, t \in Pages, r \in Rooms, k, l \in Nat : Holds(q, r, k)' /\ Holds(t, r, l)' => k = l
    BY <2>7 DEF Agreed
  <2>12. QED
    BY <2>8, <2>10, <2>11 DEF Agreed
<1>5. ASSUME NEW p \in Pages, NEW c \in calls[p], Asks(p, c) PROVE Agreed'
  <2> DEFINE d == [c EXCEPT !.stage = "asked"]
             e == Request(c.room, p, rsa[p])
  <2>1. c \in Call /\ c.room \in Rooms /\ c.from \in Pages
    BY <1>5, CallsAre DEF Asks, TypeOK
  <2>2. d.stage = "asked"
    BY <2>1 DEF Call
  <2>3. e \in Message /\ e.kind = "request"
    BY <2>1, MessagesAre DEF TypeOK, Request, Event
  <2>4. calls' = [calls EXCEPT ![p] = (@ \ {c}) \cup {d}] /\ UNCHANGED <<members, gen, keys>>
    BY <1>5 DEF Asks
  <2>5. inbox' = inbox \/ inbox' = [inbox EXCEPT ![c.from] = Append(@, e)]
    BY <1>5 DEF Asks
  <2> HIDE DEF d, e
  <2>6. \A q \in Pages : \A b \in calls'[q] : b.stage = "generating" => b \in calls[q]
    BY <2>2, <2>4 DEF TypeOK
  <2>7. \A q \in Pages : \A i \in DOMAIN inbox'[q] :
          \/ inbox'[q][i].kind = "request"
          \/ \E j \in DOMAIN inbox[q] : inbox'[q][i] = inbox[q][j]
    <3>1. CASE inbox' = [inbox EXCEPT ![c.from] = Append(@, e)]
      <4>1. Posted(c.from, e, Len(inbox[c.from]) + 1)
        BY <2>1, <2>3, <3>1, PostedIs
      <4>2. QED
        BY <2>3, <4>1 DEF Posted
    <3>2. QED
      BY <2>5, <3>1
  <2>8. QED
    BY <1>a, <2>4, <2>6, <2>7 DEF In
<1>6. ASSUME NEW p \in Pages, NEW c \in calls[p], GivesUp(p, c) PROVE FALSE
  BY <1>6 DEF GivesUp
<1>7. ASSUME NEW p \in Pages, Granted(p) PROVE Agreed'
  <2> DEFINE n == checking[p]
             u == Lacking(members[n], p)
             e == AllUsers(u)
  <2>1. n # None /\ n \in Rooms /\ ~In(p, n) /\ calls[p] = {} /\ ~Listed(p)
        /\ \A r \in Rooms : keys[p][r] = 0
    <3>1. n # None /\ n \in Rooms
      BY <1>7 DEF Granted, TypeOK
    <3>2. QED
      BY <3>1 DEF Placed, TypeOK
  <2>2. u = members[n]
    BY <2>1 DEF Lacking, In
  <2>3. e \in Message /\ e.kind = "all-users" /\ e.users = u
    <3>1. u \in Seq(Pages)
      BY <2>1, <2>2 DEF TypeOK
    <3>2. QED
      BY <3>1, MessagesAre DEF AllUsers, Event
  <2>4. u = <<>> => \A q \in Pages : ~In(q, n)
    BY <2>2 DEF In, ToSet
  <2>5. inbox' = [inbox EXCEPT ![p] = Append(@, e)] /\ UNCHANGED <<gen, keys, calls>>
    BY <1>7 DEF Granted
  <2>6. \A q \in Pages, r \in Rooms : In(q, r)' <=> In(q, r) \/ (q = p /\ r = n)
    BY <1>0, <1>7, EntersRoom
  <2> HIDE DEF e, u, n
  <2>7. Posted(p, e, Len(inbox[p]) + 1)
    BY <2>3, <2>5, PostedIs
  <2>8. \A q \in Pages : \A i \in DOMAIN inbox'[q] :
          \/ \E j \in DOMAIN inbox[q] : inbox'[q][i] = inbox[q][j]
          \/ q = p /\ inbox'[q][i] = e
    BY <2>7 DEF Posted
  <2>9. ASSUME NEW q \in Pages, NEW r \in Rooms, NEW k \in Nat, Holds(q, r, k)'
        PROVE  q # p /\ Holds(q, r, k)
    <3>1. q # p
      <4>1. SUFFICES ASSUME q = p PROVE FALSE
        OBVIOUS
      <4>2. Listed(p)'
        BY <2>3, <2>7 DEF Posted, Listed, Waits
      <4>3. QED
        BY <2>1, <2>5, <2>9, <4>1 DEF Holds, Mail
    <3>2. In(q, r)
      BY <2>6, <2>9, <3>1 DEF Holds
    <3>3. \A i \in DOMAIN inbox'[q] : \E j \in DOMAIN inbox[q] : inbox'[q][i] = inbox[q][j]
      BY <2>8, <3>1
    <3>4. QED
      BY <2>5, <2>9, <3>1, <3>2, <3>3, HoldsFewer
  <2>10. ASSUME NEW q \in Pages, NEW r \in Rooms, Starts(q, r)'
         PROVE  Starts(q, r) \/ (q = p /\ r = n /\ \A t \in Pages : ~In(t, n))
    <3>1. CASE q # p
      <4>1. In(q, r)
        BY <2>6, <2>10, <3>1 DEF Starts
      <4>2. \A i \in DOMAIN inbox'[q] : \E j \in DOMAIN inbox[q] : inbox'[q][i] = inbox[q][j]
        BY <2>8, <3>1
      <4>3. QED
        BY <2>5, <2>10, <4>1, <4>2, StartsFewer
    <3>2. CASE q = p
      <4>1. PICK i \in DOMAIN inbox'[p] : inbox'[p][i].kind = "all-users" /\ inbox'[p][i].users = <<>>
        BY <2>1, <2>5, <2>10, <3>2 DEF Starts
      <4>2. inbox'[p][i] = e
        BY <2>1, <2>8, <4>1 DEF Listed, Waits
      <4>3. \A t \in Pages : ~In(t, n)
        BY <2>3, <2>4, <4>1, <4>2
      <4>4. r = n
        <5>1. In(p, r) \/ r = n
          BY <2>6, <2>10, <3>2 DEF Starts
        <5>2. ~In(p, r)
          BY <2>1 DEF Placed, n
        <5>3. QED
          BY <5>1, <5>2
      <4>5. QED
        BY <3>2, <4>3, <4>4
    <3>3. QED
      BY <3>1, <3>2
  <2>11. \A q \in Pages, r \in Rooms : Starts(q, r) => In(q, r)
    BY DEF Starts
  <2>12. \A q \in Pages, r \in Rooms, k \in Nat : Holds(q, r, k) => In(q, r)
    BY DEF Holds
  <2>13. \A q, t \in Pages, r \in Rooms : Starts(q, r)' /\ Starts(t, r)' => q = t
    BY <2>10, <2>11 DEF Agreed
  <2>14. \A q, t \in Pages, r \in Rooms, k \in Nat : ~(Starts(q, r)' /\ Holds(t, r, k)')
    BY <2>9, <2>10, <2>12 DEF Agreed
  <2>15. \A q, t \in Pages, r \in Rooms, k, l \in Nat : Holds(q, r, k)' /\ Holds(t, r, l)' => k = l
    BY <2>9 DEF Agreed
  <2>16. QED
    BY <2>13, <2>14, <2>15 DEF Agreed
<1>8. ASSUME NEW p \in Pages, Refused(p) PROVE FALSE
  BY <1>8 DEF Refused
<1>9. ASSUME NEW p \in Pages, Polls(p) \/ StartEphemeral(p) PROVE Agreed'
  BY <1>a, <1>9 DEF Polls, StartEphemeral, In
<1>10. ASSUME NEW p \in Pages, Open(p) PROVE Agreed'
  <2>1. gen' = [gen EXCEPT ![p] = opens + 1] /\ UNCHANGED <<members, keys, inbox, calls>> /\ gen[p] = 0
    BY <1>10 DEF Open
  <2>2. \A r \in Rooms : ~In(p, r)'
    BY <2>1 DEF Books, Closed, In
  <2>3. \A q \in Pages, r \in Rooms : In(q, r)' => In(q, r) /\ gen'[q] = gen[q]
    BY <2>1, <2>2 DEF In, TypeOK
  <2>4. QED
    BY <1>a, <2>1, <2>3
<1>11. ASSUME NEW p \in Pages, Close(p) PROVE Agreed'
  <2>1. \A q \in Pages, r \in Rooms : In(q, r)' <=> In(q, r) /\ q # p
    BY <1>0, <1>11, LeavesRooms, RoomAssumption DEF Close
  <2>2. /\ gen' = [gen EXCEPT ![p] = 0] /\ inbox' = [inbox EXCEPT ![p] = <<>>]
        /\ calls' = [calls EXCEPT ![p] = {}]
        /\ keys' = [keys EXCEPT ![p] = [r \in Rooms |-> 0]]
    BY <1>11 DEF Close
  <2>3. \A q \in Pages, r \in Rooms : keys'[q][r] \in {0, keys[q][r]}
    BY <2>2 DEF TypeOK
  <2>4. \A q \in Pages : \A i \in DOMAIN inbox'[q] : i \in DOMAIN inbox[q] /\ inbox'[q][i] = inbox[q][i]
    BY <2>2 DEF TypeOK
  <2>5. \A q \in Pages : \A c \in calls'[q] : c \in calls[q]
    BY <2>2 DEF TypeOK
  <2>6. \A q \in Pages, r \in Rooms : In(q, r)' => In(q, r) /\ gen'[q] = gen[q]
    BY <2>1, <2>2 DEF TypeOK
  <2>7. QED
    BY <1>a, <2>3, <2>4, <2>5, <2>6
<1>12. ASSUME NEW p \in Pages, Forgets(p)
       PROVE  \A q \in Pages, r \in Rooms : keys'[q][r] \in {0, keys[q][r]}
  BY <1>12 DEF Forgets, TypeOK
<1>13. ASSUME NEW p \in Pages, LeaveVoice(p) \/ LeaveEphemeral(p) \/ EndEphemeral(p) PROVE Agreed'
  <2>1. Leaves(p)
    BY <1>13 DEF LeaveVoice, LeaveEphemeral, EndEphemeral
  <2>2. \A q \in Pages, r \in Rooms : In(q, r)' => In(q, r)
    BY <1>0, <2>1, LeavesRooms DEF Leaves
  <2>3. QED
    BY <1>a, <1>12, <2>1, <2>2 DEF Leaves
<1>14. ASSUME NEW p \in Pages, JoinEphemeral(p) PROVE Agreed'
  <2>1. Join(p, Ephemeral) /\ UNCHANGED keys
    BY <1>14 DEF JoinEphemeral
  <2>2. \A q \in Pages, r \in Rooms : In(q, r)' => In(q, r)
    BY <1>0, <2>1, LeavesRooms DEF Join
  <2>3. QED
    BY <1>a, <2>1, <2>2 DEF Join
<1>15. ASSUME NEW p \in Pages, NEW n \in Voice, JoinVoice(p, n) PROVE Agreed'
  <2>1. Join(p, n) /\ IF voice[p] # None THEN Forgets(p) ELSE UNCHANGED <<keys, cur>>
    BY <1>15 DEF JoinVoice
  <2>2. \A q \in Pages, r \in Rooms : In(q, r)' => In(q, r)
    BY <1>0, <2>1, LeavesRooms DEF Join
  <2>3. \A q \in Pages, r \in Rooms : keys'[q][r] \in {0, keys[q][r]}
    BY <1>12, <2>1
  <2>4. QED
    BY <1>a, <2>1, <2>2, <2>3 DEF Join
<1>16. CASE Expires \/ UNCHANGED vars
  BY <1>a, <1>16 DEF Expires, vars, In
<1>17. QED
  BY <1>1, <1>2, <1>3, <1>4, <1>5, <1>6, <1>7, <1>8, <1>9, <1>10, <1>11, <1>13, <1>14, <1>15,
     <1>16 DEF Next, Hears, Works, Acts

-----------------------------------------------------------------------------
(* What is asked is answered                                                *)

OnTheWay(p, c) ==
  \/ \E i \in DOMAIN inbox[c.from] : AskedBy(c.from, i, p)
  \/ \E i \in DOMAIN inbox[p] : Answers(p, i)

Answerable ==
  \A p \in Pages : \A c \in calls[p] : c.stage = "asked" /\ ~ignored[p] => OnTheWay(p, c)

\* Whose request and answers stay, with the page's keys, is answered still.
LEMMA StaysOnTheWay ==
  ASSUME NEW p \in Pages, NEW c, c.from \in Pages, OnTheWay(p, c), gen'[p] = gen[p],
         \A i \in DOMAIN inbox[c.from] : AskedBy(c.from, i, p) =>
           \E j \in DOMAIN inbox'[c.from] : inbox'[c.from][j] = inbox[c.from][i],
         \A i \in DOMAIN inbox[p] : Answers(p, i) =>
           \E j \in DOMAIN inbox'[p] : inbox'[p][j] = inbox[p][i]
  PROVE  OnTheWay(p, c)'
<1>1. CASE \E i \in DOMAIN inbox[c.from] : AskedBy(c.from, i, p)
  <2>1. PICK i \in DOMAIN inbox[c.from] : AskedBy(c.from, i, p)
    BY <1>1
  <2>2. PICK j \in DOMAIN inbox'[c.from] : inbox'[c.from][j] = inbox[c.from][i]
    BY <2>1
  <2>3. AskedBy(c.from, j, p)'
    BY <2>1, <2>2 DEF AskedBy, Current
  <2>4. QED
    BY <2>3 DEF OnTheWay
<1>2. CASE \E i \in DOMAIN inbox[p] : Answers(p, i)
  BY <1>2 DEF OnTheWay, Answers
<1>3. QED
  BY <1>1, <1>2 DEF OnTheWay

LEMMA AnswerableNext ==
  ASSUME TypeOK, Books, ~disturbed', \A p \in Pages : Placed(p), Mail, Answerable, [Next]_vars
  PROVE  Answerable'
<1> USE DEF relay, crypto, shown, counts, notes
<1>0. ~disturbed /\ rsa = gen
  BY DisturbedStays DEF Books
<1>a. \A q \in Pages : \A c \in calls[q] : c.stage = "asked" => c.from \in Pages /\ gen[q] # 0
  <2>1. \A q \in Pages : \A c \in calls[q] : c \in Call
    BY DEF TypeOK
  <2>2. \A q \in Pages : \A c \in calls[q] : gen[q] # 0
    BY DEF Books, Closed
  <2>3. QED
    BY <2>1, <2>2, CallsAre
\* No run has asked anew, and whatever counts stays.
<1>b. ASSUME gen' = gen,
             \A q \in Pages : \A c \in calls'[q] : c.stage = "asked" => c \in calls[q],
             \A q \in Pages : ignored[q] => ignored'[q],
             \A q \in Pages : \A i \in DOMAIN inbox[q] :
               inbox[q][i].kind \in {"request", "response"} =>
                 \E j \in DOMAIN inbox'[q] : inbox'[q][j] = inbox[q][i]
      PROVE  Answerable'
  <2> SUFFICES ASSUME NEW q \in Pages, NEW c \in calls'[q], c.stage = "asked", ~ignored'[q]
               PROVE  OnTheWay(q, c)'
    BY DEF Answerable
  <2>1. OnTheWay(q, c) /\ c.from \in Pages
    BY <1>a, <1>b DEF Answerable
  <2>2. \A i \in DOMAIN inbox[c.from] : AskedBy(c.from, i, q) => inbox[c.from][i].kind = "request"
    BY DEF AskedBy, Current
  <2>3. \A i \in DOMAIN inbox[q] : Answers(q, i) => inbox[q][i].kind = "response"
    BY DEF Answers
  <2>4. QED
    BY <1>b, <2>1, <2>2, <2>3, StaysOnTheWay
<1>1. ASSUME NEW p \in Pages, HearsUsers(p) PROVE Answerable'
  <2>1. Taken(p) /\ Head(inbox[p]).kind = "all-users" /\ inbox[p][1] = Head(inbox[p])
    <3>1. Taken(p) /\ Head(inbox[p]).kind = "all-users"
      BY <1>1, TakenIs DEF HearsUsers
    <3>2. QED
      BY <3>1 DEF Taken
  <2>2. calls' = [calls EXCEPT ![p] = @ \cup UNION {Joins(p, r, Head(inbox[p]).users) : r \in TakenFor(p)}]
        /\ UNCHANGED <<gen, ignored>>
    BY <1>1 DEF HearsUsers
  <2>3. \A q \in Pages : \A c \in calls'[q] : c.stage = "asked" => c \in calls[q]
    <3>1. \A r, users : \A c \in Joins(p, r, users) : c.stage # "asked"
      BY DEF Joins
    <3>2. calls'[p] = calls[p] \cup UNION {Joins(p, r, Head(inbox[p]).users) : r \in TakenFor(p)}
          /\ \A q \in Pages : q # p => calls'[q] = calls[q]
      BY <2>2 DEF TypeOK
    <3>3. QED
      BY <3>1, <3>2
  <2>4. \A q \in Pages : \A i \in DOMAIN inbox[q] :
          inbox[q][i].kind \in {"request", "response"} =>
            \E j \in DOMAIN inbox'[q] : inbox'[q][j] = inbox[q][i]
    BY <2>1 DEF Taken
  <2>5. QED
    BY <1>b, <2>2, <2>3, <2>4
<1>2. ASSUME NEW p \in Pages, HearsRequest(p) PROVE Answerable'
  <2> DEFINE e == inbox[p][1]
             k == keys[p][e.room]
             a == Response(k, e.wrapped)
  <2>1. PICK n \in Nat : Answered(p, n)
    BY <1>2, AnsweredIs
  <2>2. UNCHANGED <<gen, calls>>
    BY <1>2 DEF HearsRequest
  <2>3. ignored' = [ignored EXCEPT ![e.page] = @ \/ (k = 0 /\ Current(e))]
    <3>1. Head(inbox[p]) = e
      BY <2>1 DEF Answered
    <3>2. LET h == Head(inbox[p]) IN
          ignored' = [ignored EXCEPT ![h.page] = @ \/ (keys[p][h.room] = 0 /\ Current(h))]
      BY <1>2 DEF HearsRequest
    <3> HIDE DEF e
    <3>3. QED
      BY <3>1, <3>2
  <2>4. /\ e.page \in Pages
        /\ \A q \in Pages : \A i \in DOMAIN inbox[q] : q # p \/ i # 1 =>
             \E j \in DOMAIN inbox'[q] : inbox'[q][j] = inbox[q][i]
        /\ k # 0 /\ gen[e.page] # 0 => n \in DOMAIN inbox'[e.page] /\ inbox'[e.page][n] = a
        /\ a.kind = "response" /\ a.wrapped = e.wrapped /\ e.kind = "request"
    <3>1. a.kind = "response" /\ a.wrapped = e.wrapped
      BY DEF Response, Event
    <3> HIDE DEF a
    <3>2. /\ e.page \in Pages /\ e.kind = "request"
          /\ k # 0 /\ gen[e.page] # 0 => n \in DOMAIN inbox'[e.page] /\ inbox'[e.page][n] = a
      BY <2>1 DEF Answered, a
    <3>3. \A q \in Pages : \A i \in DOMAIN inbox[q] : q # p \/ i # 1 =>
            \E j \in DOMAIN inbox'[q] : inbox'[q][j] = inbox[q][i]
      BY <2>1 DEF Answered
    <3>4. QED
      BY <3>1, <3>2, <3>3
  <2> HIDE DEF a, k
  <2>5. SUFFICES ASSUME NEW q \in Pages, NEW c \in calls[q], c.stage = "asked", ~ignored'[q]
                 PROVE  OnTheWay(q, c)'
    BY <2>2 DEF Answerable
  <2>6. ~ignored[q] /\ (q = e.page => ~(k = 0 /\ Current(e)))
    <3> DEFINE met == k = 0 /\ Current(e)
    <3> HIDE DEF met
    <3>1. ignored' = [ignored EXCEPT ![e.page] = @ \/ met]
      BY <2>3 DEF met
    <3>2. ignored \in [Pages -> BOOLEAN]
      BY DEF TypeOK
    <3> HIDE DEF e
    <3>3. q # e.page => ignored'[q] = ignored[q]
      BY <3>1, <3>2
    <3>4. q = e.page => ignored'[q] = (ignored[q] \/ met)
      BY <3>1, <3>2
    <3>5. QED
      BY <2>5, <3>3, <3>4 DEF met
  <2>7. OnTheWay(q, c) /\ c.from \in Pages /\ gen[q] # 0
    BY <1>a, <2>5, <2>6 DEF Answerable
  <2>8. CASE AskedBy(p, 1, q)
    <3>1. e.page = q /\ e.wrapped = gen[q] /\ k # 0
      BY <2>6, <2>8 DEF AskedBy, Current
    <3>2. Answers(q, n)'
      BY <2>2, <2>4, <2>7, <3>1 DEF Answers
    <3>3. QED
      BY <2>4, <2>7, <3>1, <3>2 DEF OnTheWay
  <2>9. CASE ~AskedBy(p, 1, q)
    <3>1. \A i \in DOMAIN inbox[c.from] : AskedBy(c.from, i, q) => c.from # p \/ i # 1
      BY <2>9
    <3>2. \A i \in DOMAIN inbox[q] : Answers(q, i) => q # p \/ i # 1
      BY <2>4 DEF Answers
    <3>3. QED
      BY <2>2, <2>4, <2>7, <3>1, <3>2, StaysOnTheWay
  <2>10. QED
    BY <2>8, <2>9
<1>3. ASSUME NEW p \in Pages, HearsResponse(p) PROVE Answerable'
  <2> DEFINE asked == {c \in calls[p] : c.stage = "asked"}
             e == Head(inbox[p])
  <2>1. Taken(p) /\ e.kind = "response" /\ e = inbox[p][1] /\ UNCHANGED <<gen, ignored>>
    <3>1. Taken(p) /\ e.kind = "response" /\ UNCHANGED <<gen, ignored>>
      BY <1>3, TakenIs DEF HearsResponse
    <3>2. QED
      BY <3>1 DEF Taken
  <2>2. calls' = [calls EXCEPT ![p] = calls[p] \ asked]
    BY <1>3 DEF HearsResponse, Files
  <2>3. SUFFICES ASSUME NEW q \in Pages, NEW c \in calls'[q], c.stage = "asked", ~ignored'[q]
                 PROVE  OnTheWay(q, c)'
    BY DEF Answerable
  <2>4. q # p /\ c \in calls[q]
    BY <2>2, <2>3 DEF TypeOK
  <2>5. OnTheWay(q, c) /\ c.from \in Pages
    BY <1>a, <2>1, <2>3, <2>4 DEF Answerable
  <2>6. \A i \in DOMAIN inbox[c.from] : AskedBy(c.from, i, q) => c.from # p \/ i # 1
    BY <2>1 DEF AskedBy, Current
  <2>7. \A t \in Pages : \A i \in DOMAIN inbox[t] : t # p \/ i # 1 =>
          \E j \in DOMAIN inbox'[t] : inbox'[t][j] = inbox[t][i]
    BY <2>1 DEF Taken
  <2>8. QED
    BY <2>1, <2>4, <2>5, <2>6, <2>7, StaysOnTheWay
<1>4. ASSUME NEW p \in Pages, NEW c \in calls[p], Generates(p, c) PROVE Answerable'
  <2>1. UNCHANGED <<gen, inbox, ignored>> /\ \A q \in Pages : \A d \in calls'[q] : d \in calls[q]
    BY <1>4 DEF Generates, Files, TypeOK
  <2>2. QED
    BY <1>b, <2>1
<1>5. ASSUME NEW p \in Pages, NEW c \in calls[p], Asks(p, c) PROVE Answerable'
  <2> DEFINE d == [c EXCEPT !.stage = "asked"]
             e == Request(c.room, p, rsa[p])
             relayed == In(p, c.room) /\ In(c.from, c.room)
  <2>1. c \in Call /\ c.room \in Rooms /\ c.from \in Pages
    BY <1>5, CallsAre DEF Asks, TypeOK
  <2>2. d.from = c.from
    BY <2>1 DEF Call
  <2>3. e \in Message /\ e.kind = "request" /\ e.page = p /\ e.wrapped = gen[p]
    BY <1>0, <2>1, MessagesAre DEF TypeOK, Request, Event
  <2>4. /\ calls' = [calls EXCEPT ![p] = (@ \ {c}) \cup {d}] /\ gen' = gen
        /\ inbox' = IF relayed THEN [inbox EXCEPT ![c.from] = Append(@, e)] ELSE inbox
        /\ ignored' = [ignored EXCEPT ![p] = ~relayed]
    BY <1>5 DEF Asks
  <2> HIDE DEF d, e, relayed
  <2>5. calls'[p] = {d} /\ \A q \in Pages : q # p => calls'[q] = calls[q]
    <3>1. calls[p] = {c}
      BY DEF Placed
    <3>2. QED
      BY <2>4, <3>1 DEF TypeOK
  <2>6. SUFFICES ASSUME NEW q \in Pages, NEW b \in calls'[q], b.stage = "asked", ~ignored'[q]
                 PROVE  OnTheWay(q, b)'
    BY DEF Answerable
  <2>7. CASE q = p
    <3>1. b = d /\ relayed
      <4>1. ignored'[p] = ~relayed
        BY <2>4 DEF TypeOK
      <4>2. QED
        BY <2>5, <2>6, <2>7, <4>1
    <3>2. Posted(c.from, e, Len(inbox[c.from]) + 1)
      BY <2>1, <2>3, <2>4, <3>1, PostedIs
    <3>3. PICK n : n \in DOMAIN inbox'[c.from] /\ inbox'[c.from][n] = e
      BY <3>2 DEF Posted
    <3>4. AskedBy(c.from, n, p)'
      BY <2>3, <2>4, <3>3 DEF AskedBy, Current
    <3>5. QED
      BY <2>2, <2>7, <3>1, <3>3, <3>4 DEF OnTheWay
  <2>8. CASE q # p
    <3>1. OnTheWay(q, b) /\ b.from \in Pages
      <4>1. b \in calls[q] /\ ~ignored[q]
        BY <2>4, <2>5, <2>6, <2>8 DEF TypeOK
      <4>2. QED
        BY <1>a, <2>6, <4>1 DEF Answerable
    <3>2. \A t \in Pages : \A i \in DOMAIN inbox[t] : i \in DOMAIN inbox'[t] /\ inbox'[t][i] = inbox[t][i]
      <4>1. CASE relayed
        BY <2>1, <2>3, <2>4, <4>1, PostedIs DEF Posted
      <4>2. CASE ~relayed
        BY <2>4, <4>2
      <4>3. QED
        BY <4>1, <4>2
    <3>3. QED
      BY <2>4, <3>1, <3>2, StaysOnTheWay
  <2>9. QED
    BY <2>7, <2>8
<1>6. ASSUME NEW p \in Pages, NEW c \in calls[p], GivesUp(p, c) PROVE FALSE
  BY <1>6 DEF GivesUp
<1>7. ASSUME NEW p \in Pages, Granted(p) PROVE Answerable'
  <2> DEFINE e == AllUsers(Lacking(members[checking[p]], p))
  <2>1. e \in Message
    <3>1. checking[p] \in Rooms
      BY <1>7 DEF Granted, TypeOK
    <3>2. Lacking(members[checking[p]], p) \in Seq(Pages)
      BY <3>1, LackingOne DEF Books, Distinct, TypeOK
    <3>3. QED
      BY <3>2, MessagesAre
  <2>2. inbox' = [inbox EXCEPT ![p] = Append(@, e)] /\ UNCHANGED <<gen, calls, ignored>>
    BY <1>7 DEF Granted
  <2> HIDE DEF e
  <2>3. Posted(p, e, Len(inbox[p]) + 1)
    BY <2>1, <2>2, PostedIs
  <2>4. QED
    BY <1>b, <2>2, <2>3 DEF Posted
<1>8. ASSUME NEW p \in Pages, Refused(p) PROVE FALSE
  BY <1>8 DEF Refused
<1>9. ASSUME UNCHANGED <<gen, inbox, calls, ignored>> PROVE Answerable'
  BY <1>9, <1>b
<1>10. ASSUME NEW p \in Pages, Open(p) PROVE Answerable'
  <2>1. gen' = [gen EXCEPT ![p] = opens + 1] /\ UNCHANGED <<inbox, calls, ignored>> /\ gen[p] = 0
    BY <1>10 DEF Open
  <2>2. SUFFICES ASSUME NEW q \in Pages, NEW c \in calls[q], c.stage = "asked", ~ignored[q]
                 PROVE  OnTheWay(q, c)'
    BY <2>1 DEF Answerable
  <2>3. OnTheWay(q, c) /\ c.from \in Pages /\ gen'[q] = gen[q]
    BY <1>a, <2>1, <2>2 DEF Answerable, TypeOK
  <2>4. QED
    BY <2>1, <2>3, StaysOnTheWay
<1>11. ASSUME NEW p \in Pages, Close(p) PROVE Answerable'
  <2>1. /\ gen' = [gen EXCEPT ![p] = 0] /\ inbox' = [inbox EXCEPT ![p] = <<>>]
        /\ calls' = [calls EXCEPT ![p] = {}]
        /\ ignored' = [q \in Pages |->
             ignored[q] \/ \E i \in DOMAIN inbox[p] : Current(inbox[p][i]) /\ inbox[p][i].page = q]
    BY <1>11 DEF Close
  <2>2. SUFFICES ASSUME NEW q \in Pages, NEW c \in calls'[q], c.stage = "asked", ~ignored'[q]
                 PROVE  OnTheWay(q, c)'
    BY DEF Answerable
  <2>3. q # p /\ c \in calls[q] /\ gen'[q] = gen[q] /\ inbox'[q] = inbox[q]
    BY <2>1, <2>2 DEF TypeOK
  <2>4. ~ignored[q] /\ \A i \in DOMAIN inbox[p] : ~AskedBy(p, i, q)
    BY <2>1, <2>2 DEF AskedBy
  <2>5. OnTheWay(q, c) /\ c.from \in Pages
    BY <1>a, <2>2, <2>3, <2>4 DEF Answerable
  <2>6. c.from # p => inbox'[c.from] = inbox[c.from]
    BY <2>1, <2>5 DEF TypeOK
  <2>7. QED
    BY <2>3, <2>4, <2>5, <2>6, StaysOnTheWay
<1>12. ASSUME NEW p \in Pages, Polls(p) \/ StartEphemeral(p) \/ JoinEphemeral(p) PROVE Answerable'
  BY <1>9, <1>12 DEF Polls, StartEphemeral, JoinEphemeral, Join
<1>13. ASSUME NEW p \in Pages, LeaveVoice(p) \/ LeaveEphemeral(p) \/ EndEphemeral(p) PROVE Answerable'
  BY <1>9, <1>13 DEF LeaveVoice, LeaveEphemeral, EndEphemeral, Leaves
<1>14. ASSUME NEW p \in Pages, NEW r \in Voice, JoinVoice(p, r) PROVE Answerable'
  BY <1>9, <1>14 DEF JoinVoice, Join
<1>15. CASE Expires \/ UNCHANGED vars
  BY <1>9, <1>15 DEF Expires, vars
<1>16. QED
  BY <1>1, <1>2, <1>3, <1>4, <1>5, <1>6, <1>7, <1>8, <1>10, <1>11, <1>12, <1>13, <1>14,
     <1>15 DEF Next, Hears, Works, Acts

-----------------------------------------------------------------------------
(* The theorems                                                             *)

\* The inductive invariant: types and books always, the rest until it is disturbed.
Keeping ==
  /\ TypeOK /\ Books
  /\ ~disturbed => (\A p \in Pages : Placed(p)) /\ Mail /\ Agreed /\ Answerable

LEMMA KeepingInit == Init => Keeping
<1> SUFFICES ASSUME Init PROVE Keeping
  OBVIOUS
<1>1. TypeOK /\ Books
  BY TypeInit
<1>2. \A p \in Pages : Placed(p)
  BY PlacedInit
<1>3. \A p \in Pages : inbox[p] = <<>> /\ calls[p] = {} /\ (\A r \in Rooms : ~In(p, r))
  BY DEF Init, In, ToSet
<1>4. Mail /\ Agreed /\ Answerable
  BY <1>3 DEF Mail, Agreed, Answerable, Starts, Holds
<1>5. QED
  BY <1>1, <1>2, <1>4 DEF Keeping

LEMMA KeepingNext == Keeping /\ [Next]_vars => Keeping'
<1> SUFFICES ASSUME Keeping, [Next]_vars PROVE Keeping'
  OBVIOUS
<1>1. TypeOK /\ Books /\ TypeOK' /\ Books'
  BY TypeNext, BooksNext DEF Keeping
<1>2. ASSUME ~disturbed' PROVE (\A p \in Pages : Placed(p)') /\ Mail' /\ Agreed' /\ Answerable'
  <2>1. (\A p \in Pages : Placed(p)) /\ Mail /\ Agreed /\ Answerable
    BY <1>1, <1>2, DisturbedStays DEF Keeping
  <2>2. \A p \in Pages : Placed(p)'
    BY <1>1, <1>2, <2>1, PlacedNext
  <2>3. Mail'
    BY <1>1, <1>2, <2>1, MailNext
  <2>4. Agreed'
    BY <1>1, <1>2, <2>1, <2>2, <2>3, AgreedNext
  <2>5. Answerable'
    BY <1>1, <1>2, <2>1, AnswerableNext
  <2>6. QED
    BY <2>2, <2>3, <2>4, <2>5
<1>3. QED
  BY <1>1, <1>2 DEF Keeping

LEMMA KeepingAlways == Spec => []Keeping
BY KeepingInit, KeepingNext, PTL DEF Spec

\* The relay's lists, the inboxes and what the pages keep have the types that the
\* code gives them.
THEOREM TypeCorrect == Spec => []TypeOK
<1>1. Keeping => TypeOK
  BY DEF Keeping
<1>2. QED
  BY <1>1, KeepingAlways, PTL

\* RoomClient.joinRoom: pages that have joined a room, each undisturbed, hold one key.
LEMMA KeepingAgrees == Keeping => KeysAgree
<1> SUFFICES ASSUME Keeping, ~disturbed, NEW r \in Rooms,
                    NEW p \in ToSet(members[r]), NEW q \in ToSet(members[r]),
                    calls[p] = {}, calls[q] = {}, ~Waits(p, "all-users"), ~Waits(q, "all-users")
             PROVE  keys[p][r] = keys[q][r]
  BY DEF KeysAgree
<1>1. /\ TypeOK /\ (\A t \in Pages : Placed(t)) /\ Agreed
      /\ p \in Pages /\ q \in Pages /\ In(p, r) /\ In(q, r)
  <2>1. members[r] \in Seq(Pages)
    BY DEF Keeping, TypeOK
  <2>2. p \in Pages /\ q \in Pages
    BY <2>1 DEF ToSet
  <2>3. QED
    BY <2>2 DEF Keeping, In
<1>2. r = Goal(p) /\ r = Goal(q) /\ keys[p][r] # 0 /\ keys[q][r] # 0
  BY <1>1 DEF Placed, Listed
<1>3. Holds(p, r, keys[p][r]) /\ Holds(q, r, keys[q][r])
  BY <1>1, <1>2 DEF Holds
<1>4. keys[p][r] \in Nat /\ keys[q][r] \in Nat
  BY <1>1 DEF TypeOK
<1>5. QED
  BY <1>1, <1>3, <1>4 DEF Agreed

\* Whoever finds a room empty generates its key, who does not asks for it: members
\* that have joined hold the same key, whatever was on its way when others left.
THEOREM OneKeyPerRoom == Spec => []KeysAgree
BY KeepingAgrees, KeepingAlways, PTL

\* A request is answered by its page and for its pair of keys, or the page that it
\* met had nothing to answer with.
LEMMA KeepingAnswers == Keeping => HoldersAnswer
<1> SUFFICES ASSUME Keeping, ~disturbed, NEW p \in Pages, NEW c \in calls[p], c.stage = "asked",
                    In(c.from, c.room), keys[c.from][c.room] # 0, ~ignored[p]
             PROVE  \/ Request(c.room, p, gen[p]) \in ToSet(inbox[c.from])
                    \/ Response(keys[c.from][c.room], gen[p]) \in ToSet(inbox[p])
  BY DEF HoldersAnswer
<1>1. TypeOK /\ (\A t \in Pages : Placed(t)) /\ Mail /\ Agreed /\ OnTheWay(p, c)
  BY DEF Keeping, Answerable
<1>2. c \in Call /\ c.room \in Rooms /\ c.from \in Pages
  BY <1>1, CallsAre DEF TypeOK
<1>3. \A q \in Pages : \A i \in DOMAIN inbox[q] : inbox[q][i] \in Message
  BY <1>1 DEF TypeOK
<1>4. \A e \in Message : /\ e.kind = "request" => e = Request(e.room, e.page, e.wrapped)
                         /\ e.kind = "response" => e = Response(e.key, e.wrapped)
  BY DEF Message, Request, Response, Event
<1>5. CASE \E i \in DOMAIN inbox[c.from] : AskedBy(c.from, i, p)
  <2>1. PICK i \in DOMAIN inbox[c.from] : AskedBy(c.from, i, p)
    BY <1>5
  <2>2. inbox[c.from][i].kind = "request" /\ inbox[c.from][i].page = p /\ inbox[c.from][i].wrapped = gen[p]
    BY <2>1 DEF AskedBy, Current
  <2>3. inbox[c.from][i].room = c.room
    <3>1. HasAsked(p, inbox[c.from][i].room, c.from)
      BY <1>1, <1>2, <2>1 DEF Mail
    <3>2. QED
      BY <1>1, <3>1 DEF HasAsked, Placed
  <2>4. inbox[c.from][i] = Request(c.room, p, gen[p])
    BY <1>2, <1>3, <1>4, <2>2, <2>3
  <2>5. QED
    BY <2>4 DEF ToSet
<1>6. CASE \E i \in DOMAIN inbox[p] : Answers(p, i)
  <2>1. PICK i \in DOMAIN inbox[p] : Answers(p, i)
    BY <1>6
  <2>2. inbox[p][i].kind = "response" /\ inbox[p][i].wrapped = gen[p] /\ inbox[p][i] \in Message
    BY <1>3, <2>1 DEF Answers
  <2>3. inbox[p][i].key \in Nat \ {0}
    <3>1. inbox[p][i].key \in Nat
      BY <2>2, MessagesAre
    <3>2. QED
      BY <2>2, <3>1 DEF Keeping, Books, Sealed
  <2>4. In(p, c.room)
    BY <1>1 DEF Placed
  <2>5. Holds(p, c.room, inbox[p][i].key)
    BY <2>1, <2>3, <2>4 DEF Holds
  <2>6. Holds(c.from, c.room, keys[c.from][c.room]) /\ keys[c.from][c.room] \in Nat
    BY <1>1, <1>2 DEF Holds, TypeOK
  <2>7. inbox[p][i].key = keys[c.from][c.room]
    BY <1>1, <1>2, <2>3, <2>5, <2>6 DEF Agreed
  <2>8. inbox[p][i] = Response(keys[c.from][c.room], gen[p])
    BY <1>4, <2>2, <2>7
  <2>9. QED
    BY <2>8 DEF ToSet
<1>7. QED
  BY <1>1, <1>5, <1>6 DEF OnTheWay

\* handleRoomKeyRequest and the relay: no answer is lost to another page, to an
\* earlier pair of keys or to another key.
THEOREM AnswersReachAskers == Spec => []HoldersAnswer
BY KeepingAnswers, KeepingAlways, PTL
=============================================================================
