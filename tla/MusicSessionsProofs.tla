------------------------ MODULE MusicSessionsProofs ------------------------
(***************************************************************************)
(* The map of the routes, the ghosts, the silences and what is shown, for  *)
(* any number of sessions and any queues.                                  *)
(*                                                                         *)
(* Every step replaces one session's record, or two.  Good says what is    *)
(* true of a record whatever is done to its queue; each operation on       *)
(* records keeps it, and together with MapHoldsTheLiveOne it is inductive. *)
(* Plays says the rest, of queues in which no item is twice.               *)
(***************************************************************************)
EXTENDS MusicSessions, SequenceTheorems, FiniteSetTheorems, TLAPS

\* A record with its queue, index and url in any sets.
Shape(Q, N, U) == [
    life: {"unused", "live", "disposed"}, queue: Q, index: N, url: U,
    running: BOOLEAN, recent: BOOLEAN, at: Stage,
    promise: {"pending", "done", "failed"}, ignored: BOOLEAN, cut: BOOLEAN]

\* A session that was not cut short leaves no bot; one that has started plays
\* unless its track's end was ignored; one that is not made has not started.
Sound(r) ==
    /\ r.life = "disposed" /\ ~r.cut => ~r.running /\ r.at = "out"
    /\ r.life = "live" /\ r.promise = "done" /\ ~r.running => r.ignored
    /\ r.life = "unused" => r.promise = "pending" /\ r.at = "out" /\ ~r.running
    /\ r.cut => r.life = "disposed"

Good(r) == r \in Shape({r.queue}, {r.index}, {r.url}) /\ Sound(r)

\* The inductive invariant.
Sessions ==
    /\ ses = [s \in Session |-> ses[s]]
    /\ \A s \in Session : Good(ses[s])
    /\ current \in Session \cup {NoSession}
    /\ MapHoldsTheLiveOne

-----------------------------------------------------------------------------
(* Operations on records                                                   *)

LEMMA ShapeIsGood ==
    ASSUME NEW Q, NEW N, NEW U, NEW r \in Shape(Q, N, U), Sound(r)
    PROVE  Good(r)
BY DEF Good, Shape

LEMMA GoodShape ==
    ASSUME NEW r, Good(r), NEW Q, r.queue \in Q, NEW N, r.index \in N, NEW U, r.url \in U
    PROVE  r \in Shape(Q, N, U)
BY DEF Good, Shape

\* The queue and the index are free.
LEMMA QueueChange ==
    ASSUME NEW r, Good(r), NEW q, NEW n
    PROVE  LET x == [r EXCEPT !.queue = q, !.index = n]
           IN  Good(x) /\ x.life = r.life
<1> DEFINE Q == {r.queue, q}  N == {r.index, n}  U == {r.url}
           x == [r EXCEPT !.queue = q, !.index = n]
<1>1. r \in Shape(Q, N, U)
  BY GoodShape
<1>2. x \in Shape(Q, N, U) /\ x.life = r.life
  <2> HIDE DEF Q, N, U
  <2>1. q \in Q /\ n \in N BY DEF Q, N
  <2> QED BY <1>1, <2>1 DEF Shape
<1>3. Sound(x)
  <2> HIDE DEF Q, N, U
  <2> QED BY <1>1 DEF Shape, Sound, Good
<1> QED BY <1>2, <1>3, ShapeIsGood

LEMMA QueueOnly ==
    ASSUME NEW r, Good(r), NEW q
    PROVE  LET x == [r EXCEPT !.queue = q] IN Good(x) /\ x.life = r.life
<1> DEFINE Q == {r.queue, q}  N == {r.index}  U == {r.url}
           x == [r EXCEPT !.queue = q]
<1>1. r \in Shape(Q, N, U) /\ q \in Q
  BY GoodShape
<1> HIDE DEF Q, N, U
<1>2. x \in Shape(Q, N, U) /\ x.life = r.life
  BY <1>1 DEF Shape
<1>3. Sound(x)
  BY <1>1 DEF Shape, Sound, Good
<1> QED BY <1>2, <1>3, ShapeIsGood

LEMMA IndexOnly ==
    ASSUME NEW r, Good(r), NEW n
    PROVE  LET x == [r EXCEPT !.index = n] IN Good(x) /\ x.life = r.life
<1> DEFINE Q == {r.queue}  N == {r.index, n}  U == {r.url}
           x == [r EXCEPT !.index = n]
<1>1. r \in Shape(Q, N, U) /\ n \in N
  BY GoodShape
<1> HIDE DEF Q, N, U
<1>2. x \in Shape(Q, N, U) /\ x.life = r.life
  BY <1>1 DEF Shape
<1>3. Sound(x)
  BY <1>1 DEF Shape, Sound, Good
<1> QED BY <1>2, <1>3, ShapeIsGood

LEMMA TrackChange ==
    ASSUME NEW r, Good(r), r.life = "live", NEW i
    PROVE  Good(TrackChanged(r, i)) /\ TrackChanged(r, i).life = "live"
<1> DEFINE Q == {r.queue}  N == {r.index}  U == {r.url, i}
<1>1. r \in Shape(Q, N, U) /\ i \in U
  BY GoodShape
<1>2. /\ TrackChanged(r, i) \in Shape(Q, N, U)
      /\ Sound(TrackChanged(r, i))
      /\ TrackChanged(r, i).life = "live"
  <2> HIDE DEF Q, N, U
  <2> QED BY <1>1 DEF Good, Sound, Shape, Stage, TrackChanged
<1> QED BY <1>2, ShapeIsGood

LEMMA Restart ==
    ASSUME NEW r, Good(r), r.life = "live"
    PROVE  LET x == [r EXCEPT !.running = TRUE, !.recent = TRUE, !.ignored = FALSE]
           IN  Good(x) /\ x.life = r.life
<1> DEFINE Q == {r.queue}  N == {r.index}  U == {r.url}
           x == [r EXCEPT !.running = TRUE, !.recent = TRUE, !.ignored = FALSE]
<1>1. r \in Shape(Q, N, U)
  BY GoodShape
<1> HIDE DEF Q, N, U
<1>2. x \in Shape(Q, N, U) /\ x.life = r.life
  BY <1>1 DEF Shape
<1>3. Sound(x)
  BY <1>1 DEF Shape, Sound, Good
<1> QED BY <1>2, <1>3, ShapeIsGood

LEMMA Disposal ==
    ASSUME NEW r, Good(r), r.life = "live"
    PROVE  Good(Disposed(r)) /\ Disposed(r).life = "disposed"
<1> DEFINE Q == {r.queue, <<>>}  N == {r.index, 0}  U == {r.url, SomeItem}
           d == Disposed(r)
<1>0. r \in Shape(Q, N, U) /\ <<>> \in Q /\ 0 \in N /\ SomeItem \in U
  BY GoodShape
<1> HIDE DEF Q, N, U
<1>1. d = [r EXCEPT !.life = "disposed", !.running = FALSE, !.queue = <<>>, !.index = 0,
                    !.url = SomeItem, !.recent = FALSE, !.ignored = FALSE,
                    !.at = d.at, !.cut = d.cut]
  BY <1>0 DEF Disposed, Shape
<1>2. d.at \in Stage
  BY <1>0 DEF Shape, Stage, Disposed
<1>3. d.cut \in BOOLEAN
  BY <1>0 DEF Shape, Stage, Disposed
<1>4. d \in Shape(Q, N, U)
  <2> HIDE DEF d
  <2> QED BY <1>0, <1>1, <1>2, <1>3 DEF Shape
<1>5. d.life = "disposed" /\ ~d.running
  BY <1>0 DEF Shape, Disposed
<1>6. ~d.cut => d.at = "out"
  BY <1>0 DEF Shape, Stage, Disposed
<1> QED
  <2> HIDE DEF d
  <2>1. Sound(d) BY <1>5, <1>6 DEF Sound
  <2>2. Good(d) BY <1>4, <2>1, ShapeIsGood
  <2> QED BY <1>5, <2>2 DEF d

\* The bot moves on: it has one, so that the session was not disposed of in time.
LEMMA StageChange ==
    ASSUME NEW r, Good(r), r.at # "out" \/ r.life = "live", NEW a \in Stage
    PROVE  LET x == [r EXCEPT !.at = a]
           IN  Good(x) /\ x.life = r.life /\ x.promise = r.promise
<1> DEFINE Q == {r.queue}  N == {r.index}  U == {r.url}
<1>1. r \in Shape(Q, N, U)
  BY GoodShape
<1> HIDE DEF Q, N, U
<1> DEFINE x == [r EXCEPT !.at = a]
<1>2. x \in Shape(Q, N, U) /\ x.life = r.life /\ x.promise = r.promise
  BY <1>1 DEF Shape
<1>3. Sound(x)
  BY <1>1 DEF Shape, Sound, Good
<1> QED BY <1>2, <1>3, ShapeIsGood

LEMMA Failure ==
    ASSUME NEW r, Good(r), r.promise = "pending", r.life # "unused"
    PROVE  LET x == [r EXCEPT !.promise = "failed"]
           IN  Good(x) /\ x.life = r.life
<1> DEFINE Q == {r.queue}  N == {r.index}  U == {r.url}
<1>1. r \in Shape(Q, N, U)
  BY GoodShape
<1> HIDE DEF Q, N, U
<1> DEFINE x == [r EXCEPT !.promise = "failed"]
<1>2. x \in Shape(Q, N, U) /\ x.life = r.life
  BY <1>1 DEF Shape
<1>3. Sound(x)
  BY <1>1 DEF Shape, Sound, Good
<1> QED BY <1>2, <1>3, ShapeIsGood

LEMMA End ==
    ASSUME NEW r, Good(r), r.running
    PROVE  LET x == [r EXCEPT !.running = FALSE, !.ignored = (r.life = "live")]
           IN  Good(x) /\ x.life = r.life
<1> DEFINE Q == {r.queue}  N == {r.index}  U == {r.url}
           b == (r.life = "live")
           x == [r EXCEPT !.running = FALSE, !.ignored = b]
<1>1. r \in Shape(Q, N, U) /\ b \in BOOLEAN
  BY GoodShape
<1>2. r.life = "live" => b
  OBVIOUS
<1> HIDE DEF Q, N, U, b
<1>3. x \in Shape(Q, N, U) /\ x.life = r.life
  BY <1>1 DEF Shape
<1>4. Sound(x)
  BY <1>1, <1>2 DEF Shape, Sound, Good
<1>5. Good(x)
  BY <1>3, <1>4, ShapeIsGood
<1> QED BY <1>3, <1>5 DEF b

LEMMA Settling ==
    ASSUME NEW r, Good(r)
    PROVE  LET x == [r EXCEPT !.recent = FALSE] IN Good(x) /\ x.life = r.life
<1> DEFINE Q == {r.queue}  N == {r.index}  U == {r.url}
           x == [r EXCEPT !.recent = FALSE]
<1>1. r \in Shape(Q, N, U)
  BY GoodShape
<1> HIDE DEF Q, N, U
<1>2. x \in Shape(Q, N, U) /\ x.life = r.life
  BY <1>1 DEF Shape
<1>3. Sound(x)
  BY <1>1 DEF Shape, Sound, Good
<1> QED BY <1>2, <1>3, ShapeIsGood

LEMMA Creation ==
    ASSUME NEW r, Good(r), r.life = "unused", NEW i
    PROVE  Good(NewSession(r, i)) /\ NewSession(r, i).life = "live"
<1> DEFINE q == <<i>>
           Q == {r.queue, q}  N == {r.index}  U == {r.url, i}
           x == NewSession(r, i)
<1>1. r \in Shape(Q, N, U) /\ q \in Q /\ i \in U
  BY GoodShape
<1>2. x = [r EXCEPT !.life = "live", !.queue = q, !.url = i, !.at = "connecting"]
  BY DEF NewSession
<1> HIDE DEF q, Q, N, U, x
<1>3. /\ x \in Shape(Q, N, U)
      /\ x.life = "live" /\ x.promise = r.promise /\ x.cut = r.cut
  BY <1>1, <1>2 DEF Shape, Stage
<1>4. r.promise = "pending" /\ ~r.cut
  BY DEF Good, Sound
<1>5. Sound(x)
  BY <1>3, <1>4 DEF Sound
<1>6. Good(x)
  BY <1>3, <1>5, ShapeIsGood
<1> QED BY <1>3, <1>6 DEF x

-----------------------------------------------------------------------------
(* Steps                                                                   *)

LEMMA UpdateKeeps ==
    ASSUME Sessions, NEW s \in Session, NEW r, Good(r), r.life = ses[s].life, Update(s, r)
    PROVE  Sessions'
<1>1. ses' = [ses EXCEPT ![s] = r] /\ current' = current
  BY DEF Update
<1>2. ses' = [x \in Session |-> IF x = s THEN r ELSE ses[x]]
  BY <1>1 DEF Sessions
<1>3. \A x \in Session : Good(ses'[x]) /\ (Live(x)' <=> Live(x))
  BY <1>2 DEF Sessions, Live
<1> QED BY <1>1, <1>2, <1>3 DEF Sessions, MapHoldsTheLiveOne

LEMMA DisposeKeeps ==
    ASSUME Sessions, NEW s \in Session, Live(s), NEW r, Good(r), r.life = "live", Dispose(s, r)
    PROVE  Sessions'
<1> DEFINE d == Disposed(r)
<1>1. ses' = [ses EXCEPT ![s] = d] /\ current' = NoSession
  BY DEF Dispose
<1>2. Good(d) /\ d.life = "disposed"
  BY Disposal
<1> HIDE DEF d
<1>3. ses' = [x \in Session |-> IF x = s THEN d ELSE ses[x]]
  BY <1>1 DEF Sessions
<1>4. \A x \in Session : Good(ses'[x])
  BY <1>2, <1>3 DEF Sessions
<1>5. current = s
  BY DEF Sessions, MapHoldsTheLiveOne
<1>6. \A x \in Session : ~Live(x)'
  BY <1>2, <1>3, <1>5 DEF Sessions, MapHoldsTheLiveOne, Live
<1> QED BY <1>1, <1>3, <1>4, <1>6, SessionAssumption DEF Sessions, MapHoldsTheLiveOne

LEMMA RejectKeeps ==
    ASSUME Sessions, NEW s \in Session, NEW r, Good(r), r.promise = "pending",
           r.life # "unused", r.life = ses[s].life, Reject(s, r)
    PROVE  Sessions'
<1> DEFINE f == [r EXCEPT !.promise = "failed"]
<1>1. Good(f) /\ f.life = r.life
  BY Failure
<1>2. IF Live(s) THEN Dispose(s, f) ELSE Update(s, f)
  BY DEF Reject
<1> HIDE DEF f
<1>3. CASE Live(s)
  BY <1>1, <1>2, <1>3, DisposeKeeps DEF Live
<1>4. CASE ~Live(s)
  BY <1>1, <1>2, <1>4, UpdateKeeps
<1> QED BY <1>3, <1>4

LEMMA AdvanceKeeps ==
    ASSUME Sessions, NEW s \in Session, Live(s), Advance(s)
    PROVE  Sessions'
<1> DEFINE r == ses[s]
           q == IF HasCurrent(r) THEN WithoutAt(r.queue, r.index) ELSE r.queue
           z == [r EXCEPT !.queue = q, !.index = 0]
<1>0. Good(r) /\ r.life = "live"
  BY DEF Sessions, Live
<1>1. Dispose(s, r) \/ Update(s, TrackChanged(z, q[1]))
  BY DEF Advance
<1> HIDE DEF q
<1>2. Good(z) /\ z.life = "live"
  BY <1>0, QueueChange
<1>3. CASE Dispose(s, r)
  BY <1>0, <1>3, DisposeKeeps
<1>4. CASE Update(s, TrackChanged(z, q[1]))
  <2> HIDE DEF z
  <2> QED BY <1>0, <1>2, <1>4, TrackChange, UpdateKeeps
<1> QED BY <1>1, <1>3, <1>4

LEMMA RequestKeeps ==
    ASSUME Sessions, NEW s \in Session, Request(s)
    PROVE  Sessions'
<1>0. Live(s) /\ current = s /\ Good(ses[s]) /\ ses[s].life = "live"
  BY DEF Request, Sessions, MapHoldsTheLiveOne, Live
<1>1. ASSUME NEW i \in Item, PlayNow(s, i) PROVE Sessions'
  <2> DEFINE y == [ses[s] EXCEPT !.queue = <<i>>, !.index = 0]
  <2>1. Good(y) /\ y.life = "live"
    BY <1>0, QueueChange
  <2>2. Update(s, TrackChanged(y, i))
    BY <1>1 DEF PlayNow
  <2> HIDE DEF y
  <2> QED BY <1>0, <2>1, <2>2, TrackChange, UpdateKeeps
<1>2. ASSUME NEW i \in Item, AddItem(s, i) PROVE Sessions'
  <2> DEFINE q == Append(ses[s].queue, i)
             y == [ses[s] EXCEPT !.queue = q]
  <2>1. Update(s, y)
    BY <1>2 DEF AddItem
  <2> HIDE DEF q
  <2>2. Good(y) /\ y.life = "live"
    BY <1>0, QueueOnly
  <2> HIDE DEF y
  <2> QED BY <1>0, <2>1, <2>2, UpdateKeeps
<1>3. ASSUME NEW i \in Item, PlayItem(s, i) PROVE Sessions'
  <2> DEFINE n == IndexOf(ses[s].queue, i)
             y == [ses[s] EXCEPT !.index = n]
  <2>1. Update(s, TrackChanged(y, i))
    BY <1>3 DEF PlayItem
  <2> HIDE DEF n
  <2>2. Good(y) /\ y.life = "live"
    BY <1>0, IndexOnly
  <2> HIDE DEF y
  <2> QED BY <1>0, <2>1, <2>2, TrackChange, UpdateKeeps
<1>4. ASSUME NEW i \in Item, RemoveItem(s, i) PROVE Sessions'
  <2> DEFINE r == ses[s]
             n == IndexOf(r.queue, i)
             q == Without(r.queue, i)
             k == IF n < r.index THEN r.index - 1 ELSE r.index
             y == [r EXCEPT !.queue = q, !.index = k]
             z == [r EXCEPT !.queue = q, !.index = 0]
  <2>1. \/ Update(s, y)
        \/ Dispose(s, r)
        \/ Update(s, TrackChanged(z, q[1]))
    BY <1>4 DEF RemoveItem
  <2> HIDE DEF q, k
  <2>2. Good(y) /\ y.life = "live" /\ Good(z) /\ z.life = "live"
    BY <1>0, QueueChange
  <2>3. CASE Update(s, y)
    <3> HIDE DEF y
    <3> QED BY <1>0, <2>2, <2>3, UpdateKeeps
  <2>4. CASE Dispose(s, r)
    BY <1>0, <2>4, DisposeKeeps
  <2>5. CASE Update(s, TrackChanged(z, q[1]))
    <3> HIDE DEF z
    <3> QED BY <1>0, <2>2, <2>5, TrackChange, UpdateKeeps
  <2> QED BY <2>1, <2>3, <2>4, <2>5
<1>5. ASSUME Advance(s) PROVE Sessions'
  BY <1>0, <1>5, AdvanceKeeps
<1>6. ASSUME NEW q \in Orders(ses[s].queue), Reorder(s, q) PROVE Sessions'
  <2> DEFINE r == ses[s]
             n == IF HasCurrent(r) THEN IndexOf(q, CurrentItem(r)) ELSE 0
             y == [r EXCEPT !.queue = q, !.index = n]
  <2>1. Update(s, y)
    BY <1>6 DEF Reorder
  <2> HIDE DEF n
  <2>2. Good(y) /\ y.life = "live"
    BY <1>0, QueueChange
  <2> HIDE DEF y
  <2> QED BY <1>0, <2>1, <2>2, UpdateKeeps
<1>7. ASSUME Shuffle(s) PROVE Sessions'
  <2> DEFINE r == ses[s]
  <2>1. \/ \E q : Update(s, [r EXCEPT !.queue = q, !.index = 0])
        \/ \E q : Update(s, [r EXCEPT !.queue = q])
    BY <1>7 DEF Shuffle
  <2>2. ASSUME NEW q, Update(s, [r EXCEPT !.queue = q, !.index = 0]) PROVE Sessions'
    <3> DEFINE y == [r EXCEPT !.queue = q, !.index = 0]
    <3>1. Good(y) /\ y.life = "live" /\ Update(s, y)
      BY <1>0, <2>2, QueueChange
    <3> HIDE DEF y
    <3> QED BY <1>0, <3>1, UpdateKeeps
  <2>3. ASSUME NEW q, Update(s, [r EXCEPT !.queue = q]) PROVE Sessions'
    <3> DEFINE y == [r EXCEPT !.queue = q]
    <3>1. Good(y) /\ y.life = "live" /\ Update(s, y)
      BY <1>0, <2>3, QueueOnly
    <3> HIDE DEF y
    <3> QED BY <1>0, <3>1, UpdateKeeps
  <2> QED BY <2>1, <2>2, <2>3
<1>8. ASSUME Seek(s) PROVE Sessions'
  <2> DEFINE y == [ses[s] EXCEPT !.running = TRUE, !.recent = TRUE, !.ignored = FALSE]
  <2>1. Update(s, y)
    BY <1>8 DEF Seek
  <2>2. Good(y) /\ y.life = "live"
    BY <1>0, Restart
  <2> HIDE DEF y
  <2> QED BY <1>0, <2>1, <2>2, UpdateKeeps
<1>9. ASSUME Leave(s) PROVE Sessions'
  BY <1>0, <1>9, DisposeKeeps DEF Leave
<1> QED
  BY <1>1, <1>2, <1>3, <1>4, <1>5, <1>6, <1>7, <1>8, <1>9 DEF Request

LEMMA CreateKeeps ==
    ASSUME Sessions, NEW s \in Session, NEW i \in Item, Create(s, i) \/ SwitchMode(s, i)
    PROVE  Sessions'
<1> DEFINE n == NewSession(ses[s], i)
<1>1. Good(n) /\ n.life = "live" /\ ses[s].life = "unused"
  BY Creation DEF Sessions, Create, SwitchMode
<1>2. CASE Create(s, i)
  <2>1. current = NoSession /\ current' = s /\ ses' = [ses EXCEPT ![s] = n]
    BY <1>2 DEF Create
  <2> HIDE DEF n
  <2>2. ses' = [x \in Session |-> IF x = s THEN n ELSE ses[x]]
    BY <2>1 DEF Sessions
  <2>3. \A x \in Session : Good(ses'[x]) /\ (Live(x)' <=> x = s)
    BY <1>1, <2>1, <2>2, SessionAssumption DEF Sessions, MapHoldsTheLiveOne, Live
  <2> QED BY <2>1, <2>2, <2>3 DEF Sessions, MapHoldsTheLiveOne
<1>3. CASE SwitchMode(s, i)
  <2> DEFINE d == Disposed(ses[current])
  <2>1. current # NoSession /\ current' = s /\ ses' = [ses EXCEPT ![current] = d, ![s] = n]
    BY <1>3 DEF SwitchMode
  <2>2. current \in Session /\ Live(current) /\ current # s
    BY <1>1, <2>1 DEF Sessions, MapHoldsTheLiveOne, Live
  <2>3. Good(d) /\ d.life = "disposed"
    BY <2>2, Disposal DEF Sessions, Live
  <2> HIDE DEF d, n
  <2>4. ses' = [x \in Session |-> IF x = s THEN n ELSE IF x = current THEN d ELSE ses[x]]
    BY <2>1, <2>2 DEF Sessions
  <2>5. \A x \in Session : Good(ses'[x]) /\ (Live(x)' <=> x = s)
    BY <1>1, <2>2, <2>3, <2>4 DEF Sessions, MapHoldsTheLiveOne, Live
  <2> QED BY <2>1, <2>4, <2>5 DEF Sessions, MapHoldsTheLiveOne
<1> QED BY <1>2, <1>3

\* A record with its stage replaced, by StageChange.
LEMMA MoveKeeps ==
    ASSUME Sessions, NEW s \in Session, NEW a \in Stage,
           ses[s].at # "out", Update(s, [ses[s] EXCEPT !.at = a])
    PROVE  Sessions'
<1> DEFINE x == [ses[s] EXCEPT !.at = a]
<1>1. Good(x) /\ x.life = ses[s].life /\ Update(s, x)
  BY StageChange DEF Sessions
<1> HIDE DEF x
<1> QED BY <1>1, UpdateKeeps

LEMMA FailKeeps ==
    ASSUME Sessions, NEW s \in Session, NEW a \in Stage,
           ses[s].at # "out", ses[s].promise = "pending", Reject(s, [ses[s] EXCEPT !.at = a])
    PROVE  Sessions'
<1> DEFINE x == [ses[s] EXCEPT !.at = a]
<1>1. Good(ses[s])
  BY DEF Sessions
<1>2. Good(x) /\ x.life = ses[s].life /\ x.promise = ses[s].promise /\ Reject(s, x)
  BY <1>1, StageChange
<1>3. ses[s].life # "unused"
  BY <1>1 DEF Good, Sound
<1> HIDE DEF x
<1> QED BY <1>2, <1>3, RejectKeeps

LEMMA StartKeeps ==
    ASSUME Sessions, NEW s \in Session, CallsDone(s)
    PROVE  Sessions'
<1> DEFINE r == ses[s]
           Q == {r.queue}  N == {r.index}  U == {r.url}
           a == IF r.at = "calling" THEN "in" ELSE "out"
           i == r.ignored /\ r.running
           c == r.recent \/ (Live(s) /\ r.promise = "pending")
           p == IF r.promise = "pending" THEN "done" ELSE r.promise
           x == [r EXCEPT !.at = a, !.running = TRUE, !.ignored = i, !.recent = c, !.promise = p]
<1>1. Update(s, x)
  BY DEF CallsDone
<1>2. Good(r) /\ r.at \in {"calling", "orphaned"}
  BY DEF Sessions, CallsDone
<1>3. a \in Stage /\ p \in {"pending", "done", "failed"}
  BY <1>2 DEF Good, Shape, Stage
<1>4. i \in BOOLEAN /\ c \in BOOLEAN
  OBVIOUS
<1>5. r \in Shape(Q, N, U)
  BY <1>2, GoodShape
<1>6. r.life # "unused" /\ (r.life = "disposed" => r.cut) /\ (r.cut => r.life = "disposed")
  BY <1>2 DEF Sound, Good
<1> HIDE DEF r, Q, N, U, a, i, c, p
<1>7. x \in Shape(Q, N, U) /\ x.life = r.life /\ x.running /\ x.cut = r.cut
  BY <1>3, <1>4, <1>5 DEF Shape
<1> HIDE DEF x
<1>8. Sound(x)
  BY <1>6, <1>7 DEF Sound
<1>9. Good(x)
  BY <1>7, <1>8, ShapeIsGood
<1> QED BY <1>1, <1>7, <1>9, UpdateKeeps DEF r

LEMMA BotKeeps ==
    ASSUME Sessions, NEW s \in Session, Bot(s)
    PROVE  Sessions'
<1> DEFINE r == ses[s]
<1>0. Good(r) /\ (Live(s) <=> r.life = "live")
  BY DEF Sessions, Live
<1>1. ASSUME Connect(s) PROVE Sessions'
  BY <1>1, MoveKeeps DEF Connect, Stage
<1>2. ASSUME ConnectError(s) PROVE Sessions'
  <2>1. PICK next \in {"connecting", "out"} :
            IF r.promise = "pending" THEN Reject(s, [r EXCEPT !.at = next])
                                     ELSE Update(s, [r EXCEPT !.at = next])
    <3>1. \A next : [r EXCEPT !.at = next].promise = r.promise
      BY <1>0 DEF Good, Shape
    <3> QED BY <1>2, <3>1 DEF ConnectError
  <2>2. r.at # "out" /\ next \in Stage
    BY <1>2 DEF ConnectError, Stage
  <2> QED BY <2>1, <2>2, MoveKeeps, FailKeeps
<1>3. ASSUME PeerReady(s) PROVE Sessions'
  BY <1>3, MoveKeeps DEF PeerReady, Stage
<1>4. ASSUME PeerFailed(s) PROVE Sessions'
  <2>1. r.at = "peering" /\ "out" \in Stage /\ "peering" \in Stage
    BY <1>4 DEF PeerFailed, Stage
  <2>2. \/ r.promise = "pending" /\ Reject(s, [r EXCEPT !.at = "peering"])
        \/ r.promise = "pending" /\ Reject(s, [r EXCEPT !.at = "out"])
        \/ Update(s, [r EXCEPT !.at = "out"])
    BY <1>4, <2>1 DEF PeerFailed
  <2> QED BY <2>1, <2>2, MoveKeeps, FailKeeps
<1>5. ASSUME Joined(s) PROVE Sessions'
  BY <1>5, MoveKeeps DEF Joined, Stage
<1>6. ASSUME CallsDone(s) PROVE Sessions'
  BY <1>0, <1>6, StartKeeps
<1>7. ASSUME StartTimeout(s) PROVE Sessions'
  BY <1>0, <1>7, RejectKeeps DEF StartTimeout
<1>8. ASSUME SocketDrops(s) PROVE Sessions'
  <2>1. PICK next \in {"connecting", "out"} : Update(s, [r EXCEPT !.at = next])
    BY <1>8 DEF SocketDrops
  <2>2. r.at # "out" /\ next \in Stage
    BY <1>8 DEF SocketDrops, Stage
  <2> QED BY <2>1, <2>2, MoveKeeps
<1>9. ASSUME BotLeaves(s) PROVE Sessions'
  BY <1>0, <1>9, DisposeKeeps DEF BotLeaves
<1>10. ASSUME TrackEnds(s) PROVE Sessions'
  <2>1. CASE Live(s) /\ ~r.recent
    BY <1>10, <2>1, AdvanceKeeps DEF TrackEnds
  <2>2. CASE ~(Live(s) /\ ~r.recent)
    <3> DEFINE x == [r EXCEPT !.running = FALSE, !.ignored = (r.life = "live")]
    <3>1. Update(s, x)
      BY <1>0, <1>10, <2>2 DEF TrackEnds, Live
    <3>2. Good(x) /\ x.life = r.life
      BY <1>0, <1>10, End DEF TrackEnds
    <3> HIDE DEF x
    <3> QED BY <3>1, <3>2, UpdateKeeps
  <2> QED BY <2>1, <2>2
<1>11. ASSUME Settle(s) PROVE Sessions'
  <2> DEFINE x == [r EXCEPT !.recent = FALSE]
  <2>1. Update(s, x)
    BY <1>11 DEF Settle
  <2>2. Good(x) /\ x.life = r.life
    BY <1>0, Settling
  <2> HIDE DEF x
  <2> QED BY <2>1, <2>2, UpdateKeeps
<1> QED
  BY <1>1, <1>2, <1>3, <1>4, <1>5, <1>6, <1>7, <1>8, <1>9, <1>10, <1>11 DEF Bot

LEMMA SessionsInit == Init => Sessions
<1> SUFFICES ASSUME Init PROVE Sessions
  OBVIOUS
<1> DEFINE q == <<>>
           r == [life |-> "unused", queue |-> q, index |-> 0, url |-> SomeItem,
                 running |-> FALSE, recent |-> FALSE, at |-> "out",
                 promise |-> "pending", ignored |-> FALSE, cut |-> FALSE]
<1>1. current = NoSession /\ ses = [s \in Session |-> r]
  BY DEF Init
<1> HIDE DEF q
<1>2. r \in Shape({q}, {0}, {SomeItem}) /\ Sound(r) /\ r.life = "unused"
  BY DEF Shape, Stage, Sound
<1>3. Good(r)
  BY <1>2, ShapeIsGood
<1> HIDE DEF r
<1> QED BY <1>1, <1>2, <1>3, SessionAssumption DEF Sessions, MapHoldsTheLiveOne, Live

LEMMA SessionsNext == Sessions /\ [Next]_vars => Sessions'
<1> SUFFICES ASSUME Sessions, [Next]_vars PROVE Sessions'
  OBVIOUS
<1>1. CASE Next
  BY <1>1, CreateKeeps, RequestKeeps, BotKeeps DEF Next
<1>2. CASE UNCHANGED vars
  BY <1>2 DEF vars, Sessions, MapHoldsTheLiveOne, Live
<1> QED BY <1>1, <1>2

LEMMA SessionsAlways == Spec => []Sessions
BY SessionsInit, SessionsNext, PTL DEF Spec

\* The routes' map holds the one live session of the room, whatever starts, fails
\* or replaces another.
THEOREM MapIsRight == Spec => []MapHoldsTheLiveOne
<1>1. Sessions => MapHoldsTheLiveOne
  BY DEF Sessions
<1> QED BY <1>1, SessionsAlways, PTL

\* A bot outlives its session only if the session was destroyed without a
\* connected socket or during its calls to peers.
THEOREM GhostsAreCutShort == Spec => []GhostsWereCutShort
<1>1. Sessions => GhostsWereCutShort
  <2> SUFFICES ASSUME Sessions, NEW s \in Session,
                      ses[s].life = "disposed",
                      ses[s].running \/ ses[s].at \in {"calling", "in"}
               PROVE  ses[s].cut
    BY DEF GhostsWereCutShort
  <2> QED BY DEF Sessions, Good, Sound
<1> QED BY <1>1, SessionsAlways, PTL

\* A session whose start has succeeded is silent only after a track's end that
\* handleTrackEnded ignored.
THEOREM SilenceHasItsReason == Spec => []SilentAfterIgnoredEnd
<1>1. Sessions => SilentAfterIgnoredEnd
  BY DEF Sessions, Good, Sound, SilentAfterIgnoredEnd, Live
<1> QED BY <1>1, SessionsAlways, PTL

-----------------------------------------------------------------------------
(* The queue                                                               *)

\* t is q without the item at place a.
Dropped(q, a, t) ==
    /\ t \in Seq(Item) /\ Len(t) = Len(q) - 1
    /\ \A m \in 1..Len(t) : t[m] = IF m < a THEN q[m] ELSE q[m + 1]

LEMMA DroppedOne ==
    ASSUME NEW q \in Seq(Item), Unique(q), NEW a \in 1..Len(q), NEW t, Dropped(q, a, t)
    PROVE  Unique(t) /\ ~Holds(t, q[a])
<1> DEFINE Was(m) == IF m < a THEN m ELSE m + 1
<1>1. \A m \in DOMAIN t : m \in Nat /\ Was(m) \in 1..Len(q) /\ Was(m) # a /\ t[m] = q[Was(m)]
  BY LenProperties DEF Dropped
<1>2. \A m, n \in DOMAIN t : Was(m) = Was(n) => m = n
  BY <1>1
<1>3. \A m, n \in 1..Len(q) : q[m] = q[n] => m = n
  BY LenProperties DEF Unique
<1> HIDE DEF Was
<1> QED BY <1>1, <1>2, <1>3 DEF Unique, Holds

LEMMA Alone ==
    ASSUME NEW i \in Item
    PROVE  <<i>> \in Seq(Item) /\ Unique(<<i>>) /\ Len(<<i>>) = 1 /\ <<i>>[1] = i
BY DEF Unique

LEMMA AddOne ==
    ASSUME NEW q \in Seq(Item), Unique(q), NEW i \in Item, ~Holds(q, i)
    PROVE  /\ Append(q, i) \in Seq(Item) /\ Unique(Append(q, i))
           /\ Len(Append(q, i)) = Len(q) + 1
           /\ \A m \in 1..Len(q) : Append(q, i)[m] = q[m]
<1> DEFINE t == Append(q, i)
<1>1. /\ t \in Seq(Item) /\ Len(t) = Len(q) + 1 /\ Len(q) \in Nat
      /\ \A m \in 1..Len(q) : t[m] = q[m]
      /\ t[Len(q) + 1] = i
  BY AppendProperties, LenProperties
<1> HIDE DEF t
<1>2. DOMAIN t = 1..(Len(q) + 1) /\ DOMAIN q = 1..Len(q)
  BY <1>1, LenProperties
<1>3. \A m \in 1..Len(q) : q[m] # i
  BY <1>2 DEF Holds
<1>4. Unique(t)
  <2> SUFFICES ASSUME NEW m \in 1..(Len(q) + 1), NEW n \in 1..(Len(q) + 1), t[m] = t[n] PROVE m = n
    BY <1>2 DEF Unique
  <2>1. CASE m \in 1..Len(q) /\ n \in 1..Len(q)
    BY <1>1, <1>2, <2>1 DEF Unique
  <2>2. CASE ~(m \in 1..Len(q) /\ n \in 1..Len(q))
    BY <1>1, <1>3, <2>2
  <2> QED BY <2>1, <2>2
<1> QED BY <1>1, <1>4 DEF t

\* findIndex.
LEMMA Found ==
    ASSUME NEW q \in Seq(Item), Unique(q), NEW i, Holds(q, i)
    PROVE  /\ IndexOf(q, i) \in Nat /\ IndexOf(q, i) + 1 \in 1..Len(q)
           /\ q[IndexOf(q, i) + 1] = i
<1> DEFINE P(n) == q[n] = i /\ \A m \in 1..(n - 1) : q[m] # i
<1>1. DOMAIN q = 1..Len(q) /\ Len(q) \in Nat
  BY LenProperties
<1>2. PICK n \in DOMAIN q : q[n] = i
  BY DEF Holds
<1>3. P(n)
  BY <1>1, <1>2 DEF Unique
<1> DEFINE c == CHOOSE k \in DOMAIN q : P(k)
<1>4. c \in DOMAIN q /\ P(c)
  BY <1>2, <1>3
<1>5. IndexOf(q, i) = c - 1
  BY DEF IndexOf
<1> HIDE DEF c
<1> QED BY <1>1, <1>4, <1>5

\* Another index than that of the item that is there.
LEMMA FoundThere ==
    ASSUME NEW q \in Seq(Item), Unique(q), NEW a \in 1..Len(q)
    PROVE  IndexOf(q, q[a]) = a - 1
<1>1. DOMAIN q = 1..Len(q)
  BY LenProperties
<1>2. Holds(q, q[a])
  BY <1>1 DEF Holds
<1> QED BY <1>1, <1>2, Found DEF Unique

LEMMA DropAt ==
    ASSUME NEW q \in Seq(Item), NEW a \in 1..Len(q)
    PROVE  Dropped(q, a, WithoutAt(q, a - 1))
<1> DEFINE x == SubSeq(q, 1, a - 1)
           y == SubSeq(q, a + 1, Len(q))
           t == WithoutAt(q, a - 1)
<1>1. Len(q) \in Nat /\ a \in Nat
  BY LenProperties
<1>2. x \in Seq(Item) /\ Len(x) = a - 1 /\ \A m \in 1..(a - 1) : x[m] = q[m]
  BY <1>1, SubSeqProperties
<1>3. y \in Seq(Item) /\ Len(y) = Len(q) - a /\ \A m \in 1..(Len(q) - a) : y[m] = q[a + m]
  BY <1>1, SubSeqProperties
<1>4. t = x \o y
  <2>1. (a - 1) + 2 = a + 1
    BY <1>1
  <2> QED BY <2>1 DEF WithoutAt
<1> HIDE DEF x, y, t
<1>5. t \in Seq(Item) /\ Len(t) = Len(q) - 1
  <2>1. x \o y \in Seq(Item) /\ Len(x \o y) = Len(x) + Len(y)
    BY <1>2, <1>3, ConcatProperties
  <2>2. Len(x) + Len(y) = Len(q) - 1
    BY <1>1, <1>2, <1>3
  <2> QED BY <1>4, <2>1, <2>2
<1>6. ASSUME NEW m \in 1..Len(t) PROVE t[m] = IF m < a THEN q[m] ELSE q[m + 1]
  <2>1. t[m] = IF m <= Len(x) THEN x[m] ELSE y[m - Len(x)]
    <3>1. Len(t) = Len(x) + Len(y)
      BY <1>1, <1>2, <1>3, <1>5
    <3>2. (x \o y)[m] = IF m <= Len(x) THEN x[m] ELSE y[m - Len(x)]
      BY <1>2, <1>3, <3>1, ConcatProperties
    <3> QED BY <1>4, <3>2
  <2>2. CASE m < a
    BY <1>1, <1>2, <2>1, <2>2
  <2>3. CASE ~(m < a)
    <3>1. m - (a - 1) \in 1..(Len(q) - a) /\ a + (m - (a - 1)) = m + 1
      BY <1>1, <1>5, <2>3
    <3> QED BY <1>1, <1>2, <1>3, <2>1, <2>3, <3>1
  <2> QED BY <2>2, <2>3
<1> QED BY <1>5, <1>6 DEF Dropped, t

\* filter, of an item that is there once.
LEMMA DropItem ==
    ASSUME NEW q \in Seq(Item), Unique(q), NEW a \in 1..Len(q)
    PROVE  Dropped(q, a, Without(q, q[a]))
<1> DEFINE L == Len(q)
           kept == {n \in DOMAIN q : q[n] # q[a]}
           Before(n) == {k \in kept : k <= n}
           Place(m) == CHOOSE n \in kept : Cardinality(Before(n)) = m
           t == [m \in 1..Cardinality(kept) |-> q[Place(m)]]
<1>1. DOMAIN q = 1..L /\ L \in Nat /\ a \in Nat
  BY LenProperties
<1>2. kept = (1..L) \ {a}
  BY <1>1 DEF Unique
<1>3. Without(q, q[a]) = t
  BY DEF Without
<1> HIDE DEF kept, L
<1>4. Cardinality(kept) = L - 1
  <2>1. IsFiniteSet(1..L) /\ Cardinality(1..L) = L
    BY <1>1, FS_Interval
  <2>2. a \in 1..L
    BY DEF L
  <2> QED BY <1>2, <2>1, <2>2, FS_RemoveElement
<1>5. ASSUME NEW n \in kept PROVE Cardinality(Before(n)) = IF n < a THEN n ELSE n - 1
  <2>1. n \in Nat /\ n <= L /\ n >= 1 /\ n # a
    BY <1>1, <1>2
  <2>2. IsFiniteSet(1..n) /\ Cardinality(1..n) = n
    BY <2>1, FS_Interval
  <2>3. Before(n) = (1..n) \ {a}
    BY <1>1, <1>2, <2>1
  <2>4. Cardinality((1..n) \ {a}) = IF a \in 1..n THEN n - 1 ELSE n
    BY <2>2, FS_RemoveElement
  <2>5. a \in 1..n <=> ~(n < a)
    BY <1>1, <2>1 DEF L
  <2> QED BY <2>3, <2>4, <2>5
<1> HIDE DEF Before
<1>6. ASSUME NEW m \in 1..(L - 1) PROVE Place(m) = IF m < a THEN m ELSE m + 1
  <2> DEFINE w == IF m < a THEN m ELSE m + 1
  <2>1. w \in kept
    BY <1>1, <1>2
  <2>2. Cardinality(Before(w)) = m
    <3>1. Cardinality(Before(w)) = IF w < a THEN w ELSE w - 1
      BY <1>5, <2>1
    <3> QED BY <1>1, <3>1
  <2> HIDE DEF w
  <2>3. Place(m) \in kept /\ Cardinality(Before(Place(m))) = m
    BY <2>1, <2>2
  <2> HIDE DEF Place
  <2>4. m = IF Place(m) < a THEN Place(m) ELSE Place(m) - 1
    BY <1>5, <2>3
  <2>5. Place(m) \in Nat /\ Place(m) # a
    BY <1>1, <1>2, <2>3
  <2> QED BY <1>1, <2>4, <2>5 DEF w
<1> HIDE DEF Place
<1>7. t = [m \in 1..(L - 1) |-> IF m < a THEN q[m] ELSE q[m + 1]]
  BY <1>4, <1>6
<1>8. \A m \in 1..(L - 1) : (IF m < a THEN q[m] ELSE q[m + 1]) \in Item
  <2>1. \A m \in 1..L : q[m] \in Item
    BY DEF L
  <2> QED BY <1>1, <2>1
<1> HIDE DEF t
<1>9. t \in Seq(Item) /\ Len(t) = L - 1
  <2>1. L - 1 \in Nat
    BY <1>1 DEF L
  <2>2. t \in [1..(L - 1) -> Item]
    BY <1>7, <1>8
  <2> QED BY <2>1, <2>2, LenProperties, IsASeq
<1> QED BY <1>3, <1>7, <1>9 DEF Dropped, L

\* shuffleItems, and the order that reorder is given: nothing is lost or doubled.
LEMMA Ordered ==
    ASSUME NEW q \in Seq(Item), Unique(q), NEW t \in Orders(q)
    PROVE  /\ t \in Seq(Item) /\ Unique(t) /\ Len(t) = Len(q)
           /\ \A i : Holds(t, i) <=> Holds(q, i)
<1> DEFINE D == DOMAIN q
<1>1. D = 1..Len(q) /\ Len(q) \in Nat /\ \A m \in D : q[m] \in Item
  BY LenProperties
<1>2. PICK p \in [D -> D] : (\A m, n \in D : p[m] = p[n] => m = n) /\ t = [n \in D |-> q[p[n]]]
  BY DEF Orders
<1>3. p \in Injection(D, D)
  BY <1>2 DEF Injection, IsInjective
<1>4. IsFiniteSet(D)
  BY <1>1, FS_Interval
<1>5. \A m \in D : \E n \in D : p[n] = m
  <2>1. p \in Surjection(D, D)
    BY <1>3, <1>4, FS_Injection
  <2> QED BY <2>1 DEF Surjection
<1> HIDE DEF D
<1>6. DOMAIN t = D /\ \A n \in D : t[n] = q[p[n]] /\ p[n] \in D
  BY <1>2
<1>7. t \in Seq(Item) /\ Len(t) = Len(q)
  <2>1. t \in [1..Len(q) -> Item]
    BY <1>1, <1>2, <1>6
  <2> QED BY <1>1, <2>1, LenProperties, IsASeq
<1>8. Unique(t)
  BY <1>2, <1>6 DEF Unique, D
<1>9. \A i : Holds(t, i) <=> Holds(q, i)
  BY <1>5, <1>6 DEF Holds, D
<1> QED BY <1>7, <1>8, <1>9

-----------------------------------------------------------------------------
(* What is shown                                                           *)

\* A queue has no item twice, the index of a session not yet made is that of its
\* first item, and the bot of a live one plays its current item.
Plays(r) ==
    /\ r.queue \in Seq(Item) /\ Unique(r.queue) /\ r.index \in Nat
    /\ r.life = "unused" => r.index = 0
    /\ r.life = "live" => HasCurrent(r) /\ CurrentItem(r) = r.url

Playing == \A s \in Session : Plays(ses[s])

LEMMA SameTrack ==
    ASSUME NEW r, Plays(r),
           NEW x, x.queue = r.queue, x.index = r.index, x.url = r.url, x.life = r.life
    PROVE  Plays(x)
BY DEF Plays, HasCurrent, CurrentItem

\* The n-th item of any queue is played.
LEMMA AnotherTrack ==
    ASSUME NEW r, Good(r), r.life = "live",
           NEW q \in Seq(Item), Unique(q), NEW n \in Nat, n < Len(q)
    PROVE  Plays(TrackChanged([r EXCEPT !.queue = q, !.index = n], q[n + 1]))
<1> DEFINE i == q[n + 1]
           Q == {r.queue, q}  N == {r.index, n}  U == {r.url, i}
           x == TrackChanged([r EXCEPT !.queue = q, !.index = n], i)
<1>1. r \in Shape(Q, N, U)
  BY GoodShape
<1> HIDE DEF Q, N, U, i
<1>2. x.queue = q /\ x.index = n /\ x.url = i /\ x.life = r.life
  BY <1>1 DEF Shape, TrackChanged
<1> HIDE DEF x
<1>3. Plays(x)
  BY <1>2 DEF Plays, HasCurrent, CurrentItem, i
<1> QED BY <1>3 DEF i, x

\* The item that plays has another place.
LEMMA AnotherPlace ==
    ASSUME NEW r, Good(r), Plays(r), r.life = "live", NEW q \in Seq(Item), Unique(q),
           NEW n \in Nat, n < Len(q), q[n + 1] = CurrentItem(r)
    PROVE  Plays([r EXCEPT !.queue = q, !.index = n])
<1> DEFINE Q == {r.queue, q}  N == {r.index, n}  U == {r.url}
           x == [r EXCEPT !.queue = q, !.index = n]
<1>1. r \in Shape(Q, N, U)
  BY GoodShape
<1> HIDE DEF Q, N, U
<1>2. x.queue = q /\ x.index = n /\ x.url = r.url /\ x.life = r.life
  BY <1>1 DEF Shape
<1> HIDE DEF x
<1>3. x.url = CurrentItem(r)
  BY <1>2 DEF Plays
<1>4. Plays(x)
  BY <1>2, <1>3 DEF Plays, HasCurrent, CurrentItem
<1> QED BY <1>4 DEF x

LEMMA NothingShown ==
    ASSUME NEW r, Good(r)
    PROVE  Plays(Disposed(r))
<1> DEFINE Q == {r.queue, <<>>}  N == {r.index, 0}  U == {r.url, SomeItem}
           d == Disposed(r)
<1>1. r \in Shape(Q, N, U)
  BY GoodShape
<1> HIDE DEF Q, N, U
<1>2. d.queue = <<>> /\ d.index = 0 /\ d.life = "disposed"
  BY <1>1 DEF Shape, Disposed
<1> HIDE DEF d
<1>3. <<>> \in Seq(Item) /\ Unique(<<>>)
  BY DEF Unique
<1> QED BY <1>2, <1>3 DEF Plays, d

LEMMA FirstTrack ==
    ASSUME NEW r, Good(r), Plays(r), r.life = "unused", NEW i \in Item
    PROVE  Plays(NewSession(r, i))
<1> DEFINE q == <<i>>
           Q == {r.queue, q}  N == {r.index}  U == {r.url, i}
           x == NewSession(r, i)
<1>1. r \in Shape(Q, N, U)
  BY GoodShape
<1>2. q \in Seq(Item) /\ Unique(q) /\ Len(q) = 1 /\ q[1] = i
  BY Alone
<1>3. r.index = 0
  BY DEF Plays
<1>4. x = [r EXCEPT !.life = "live", !.queue = q, !.url = i, !.at = "connecting"]
  BY DEF NewSession
<1> HIDE DEF q, Q, N, U, x
<1>5. x.queue = q /\ x.index = 0 /\ x.url = i /\ x.life = "live"
  BY <1>1, <1>3, <1>4 DEF Shape
<1>6. HasCurrent(x) /\ CurrentItem(x) = x.url
  <2>1. x.index < Len(x.queue) /\ x.index + 1 = 1
    <3>1. x.index = 0 /\ Len(x.queue) = 1
      BY <1>2, <1>5, Zenon
    <3> QED BY <3>1
  <2>2. x.queue[1] = x.url
    BY <1>2, <1>5
  <2> QED BY <2>1, <2>2 DEF HasCurrent, CurrentItem
<1>7. Plays(x)
  BY <1>2, <1>5, <1>6 DEF Plays
<1> QED BY <1>7 DEF x

LEMMA UpdatePlays ==
    ASSUME Sessions, Playing, NEW s \in Session, NEW r, Plays(r), Update(s, r)
    PROVE  Playing'
<1>1. ses' = [x \in Session |-> IF x = s THEN r ELSE ses[x]]
  BY DEF Update, Sessions
<1> QED BY <1>1 DEF Playing

LEMMA DisposePlays ==
    ASSUME Sessions, Playing, NEW s \in Session, NEW r, Good(r), Dispose(s, r)
    PROVE  Playing'
<1> DEFINE d == Disposed(r)
<1>1. Plays(d)
  BY NothingShown
<1> HIDE DEF d
<1>2. ses' = [x \in Session |-> IF x = s THEN d ELSE ses[x]]
  BY DEF Dispose, Sessions, d
<1> QED BY <1>1, <1>2 DEF Playing

LEMMA RejectPlays ==
    ASSUME Sessions, Playing, NEW s \in Session, NEW r, Good(r), Plays(r), r.promise = "pending",
           r.life # "unused", Reject(s, r)
    PROVE  Playing'
<1> DEFINE f == [r EXCEPT !.promise = "failed"]
<1>1. Good(f)
  BY Failure
<1>2. r \in Shape({r.queue}, {r.index}, {r.url})
  BY DEF Good
<1>3. f.queue = r.queue /\ f.index = r.index /\ f.url = r.url /\ f.life = r.life
  BY <1>2 DEF Shape
<1>4. Dispose(s, f) \/ Update(s, f)
  BY DEF Reject
<1> HIDE DEF f
<1>5. Plays(f)
  BY <1>3, SameTrack
<1> QED BY <1>1, <1>4, <1>5, DisposePlays, UpdatePlays

\* advance: the item at the index goes, and the first one left plays.
LEMMA AdvancePlays ==
    ASSUME Sessions, Playing, NEW s \in Session, Live(s), Advance(s)
    PROVE  Playing'
<1> DEFINE r == ses[s]
           q == WithoutAt(r.queue, r.index)
<1>1. Good(r) /\ Plays(r) /\ r.life = "live"
  BY DEF Sessions, Playing, Live
<1>2. r.queue \in Seq(Item) /\ Unique(r.queue) /\ r.index \in Nat /\ r.index < Len(r.queue)
  BY <1>1 DEF Plays, HasCurrent
<1>3. \/ Dispose(s, r)
      \/ q # <<>> /\ Update(s, TrackChanged([r EXCEPT !.queue = q, !.index = 0], q[1]))
  BY <1>2 DEF Advance, HasCurrent
<1>4. q \in Seq(Item) /\ Unique(q)
  <2> DEFINE a == r.index + 1
  <2>1. a \in 1..Len(r.queue) /\ a - 1 = r.index
    BY <1>2, LenProperties
  <2> HIDE DEF a
  <2>2. Dropped(r.queue, a, q)
    BY <1>2, <2>1, DropAt
  <2> QED BY <1>2, <2>1, <2>2, DroppedOne DEF Dropped
<1> HIDE DEF r, q
<1>5. CASE Dispose(s, r)
  BY <1>1, <1>5, DisposePlays
<1>6. CASE q # <<>> /\ Update(s, TrackChanged([r EXCEPT !.queue = q, !.index = 0], q[1]))
  <2> DEFINE x == TrackChanged([r EXCEPT !.queue = q, !.index = 0], q[0 + 1])
  <2>1. 0 < Len(q)
    BY <1>4, <1>6, LenProperties, EmptySeq
  <2>2. Plays(x)
    BY <1>1, <1>4, <2>1, AnotherTrack
  <2>3. Update(s, x)
    BY <1>6
  <2> HIDE DEF x
  <2> QED BY <2>2, <2>3, UpdatePlays
<1> QED BY <1>3, <1>5, <1>6

LEMMA CreatePlays ==
    ASSUME Sessions, Playing, NEW s \in Session, NEW i \in Item, Create(s, i) \/ SwitchMode(s, i)
    PROVE  Playing'
<1> DEFINE n == NewSession(ses[s], i)
<1>1. Plays(n) /\ ses[s].life = "unused"
  BY FirstTrack DEF Sessions, Playing, Create, SwitchMode
<1> HIDE DEF n
<1>2. CASE Create(s, i)
  <2>1. ses' = [x \in Session |-> IF x = s THEN n ELSE ses[x]]
    BY <1>2 DEF Create, Sessions, n
  <2> QED BY <1>1, <2>1 DEF Playing
<1>3. CASE SwitchMode(s, i)
  <2> DEFINE d == Disposed(ses[current])
  <2>1. current \in Session
    BY <1>3 DEF SwitchMode, Sessions
  <2>2. Plays(d)
    BY <2>1, NothingShown DEF Sessions
  <2>3. ses' = [ses EXCEPT ![current] = d, ![s] = n]
    BY <1>1, <1>3, <2>1 DEF SwitchMode, Sessions, MapHoldsTheLiveOne, Live, n
  <2> HIDE DEF d
  <2>4. ses' = [x \in Session |-> IF x = s THEN n ELSE IF x = current THEN d ELSE ses[x]]
    BY <2>1, <2>3 DEF Sessions
  <2> QED BY <1>1, <2>2, <2>4 DEF Playing
<1> QED BY <1>2, <1>3

\* removeItem: what plays is another item, and is where the new index points, or it
\* is this one, and the first one left plays.
LEMMA RemovePlays ==
    ASSUME Sessions, Playing, NEW s \in Session, Live(s), NEW i \in Item, RemoveItem(s, i)
    PROVE  Playing'
<1> DEFINE r == ses[s]
           a == IndexOf(r.queue, i) + 1
           q == Without(r.queue, i)
           k == IF IndexOf(r.queue, i) < r.index THEN r.index - 1 ELSE r.index
<1>1. Good(r) /\ Plays(r) /\ r.life = "live"
  BY DEF Sessions, Playing, Live
<1>2. /\ r.queue \in Seq(Item) /\ Unique(r.queue) /\ r.index \in Nat /\ r.index < Len(r.queue)
      /\ Len(r.queue) \in Nat
  BY <1>1, LenProperties DEF Plays, HasCurrent
<1>3. /\ Holds(r.queue, i)
      /\ \/ a # r.index + 1 /\ Update(s, [r EXCEPT !.queue = q, !.index = k])
         \/ Dispose(s, r)
         \/ q # <<>> /\ Update(s, TrackChanged([r EXCEPT !.queue = q, !.index = 0], q[1]))
  <2>1. IndexOf(r.queue, i) + 1 # r.index + 1 <=> IndexOf(r.queue, i) # r.index
    <3>1. Holds(r.queue, i)
      BY DEF RemoveItem
    <3>2. IndexOf(r.queue, i) \in Nat
      BY <1>2, <3>1, Found
    <3> QED BY <1>2, <3>2
  <2> QED BY <2>1 DEF RemoveItem
<1>4. a \in 1..Len(r.queue) /\ a - 1 = IndexOf(r.queue, i) /\ r.queue[a] = i
  BY <1>2, <1>3, Found
<1>5. Dropped(r.queue, a, q)
  BY <1>2, <1>4, DropItem
<1>6. q \in Seq(Item) /\ Unique(q)
  BY <1>2, <1>4, <1>5, DroppedOne DEF Dropped
<1>7. k = IF a < r.index + 1 THEN r.index - 1 ELSE r.index
  BY <1>2, <1>4
<1> HIDE DEF r, a, q, k
<1>8. CASE a # r.index + 1 /\ Update(s, [r EXCEPT !.queue = q, !.index = k])
  <2>1. k \in Nat /\ k < Len(q) /\ k + 1 \in 1..Len(q)
    <3>1. Len(q) = Len(r.queue) - 1
      BY <1>5 DEF Dropped
    <3>2. k \in Nat /\ k < Len(r.queue) - 1
      BY <1>2, <1>4, <1>7, <1>8
    <3> QED BY <1>2, <3>1, <3>2
  <2>2. q[k + 1] = IF k + 1 < a THEN r.queue[k + 1] ELSE r.queue[(k + 1) + 1]
    BY <1>5, <2>1 DEF Dropped
  <2>3. q[k + 1] = r.queue[r.index + 1]
    <3>1. CASE a < r.index + 1
      <4>1. ~(k + 1 < a) /\ (k + 1) + 1 = r.index + 1
        BY <1>2, <1>4, <1>7, <3>1
      <4> QED BY <2>2, <4>1
    <3>2. CASE a > r.index + 1
      <4>1. k + 1 < a /\ k = r.index
        BY <1>2, <1>4, <1>7, <3>2
      <4> QED BY <2>2, <4>1
    <3> QED BY <1>2, <1>4, <1>8, <3>1, <3>2
  <2> DEFINE x == [r EXCEPT !.queue = q, !.index = k]
  <2>4. Plays(x)
    BY <1>1, <1>6, <2>1, <2>3, AnotherPlace DEF CurrentItem
  <2>5. Update(s, x)
    BY <1>8
  <2> HIDE DEF x
  <2> QED BY <2>4, <2>5, UpdatePlays
<1>9. CASE Dispose(s, r)
  BY <1>1, <1>9, DisposePlays
<1>10. CASE q # <<>> /\ Update(s, TrackChanged([r EXCEPT !.queue = q, !.index = 0], q[1]))
  <2> DEFINE x == TrackChanged([r EXCEPT !.queue = q, !.index = 0], q[0 + 1])
  <2>1. 0 < Len(q)
    BY <1>6, <1>10, LenProperties, EmptySeq
  <2>2. Plays(x)
    BY <1>1, <1>6, <2>1, AnotherTrack
  <2>3. Update(s, x)
    BY <1>10
  <2> HIDE DEF x
  <2> QED BY <2>2, <2>3, UpdatePlays
<1> QED BY <1>3, <1>8, <1>9, <1>10

\* shuffle: what plays comes first.
LEMMA ShufflePlays ==
    ASSUME Sessions, Playing, NEW s \in Session, Live(s), Shuffle(s)
    PROVE  Playing'
<1> DEFINE r == ses[s]
           c == CurrentItem(r)
           w == Without(r.queue, c)
           a == r.index + 1
<1>1. Good(r) /\ Plays(r) /\ r.life = "live" /\ HasCurrent(r)
  BY DEF Sessions, Playing, Live, Plays
<1>2. /\ r.queue \in Seq(Item) /\ Unique(r.queue)
      /\ a \in 1..Len(r.queue) /\ c = r.queue[a] /\ c \in Item
  <2>1. r.queue \in Seq(Item) /\ Unique(r.queue) /\ r.index \in Nat /\ r.index < Len(r.queue)
    BY <1>1 DEF Plays, HasCurrent
  <2>2. a \in 1..Len(r.queue)
    BY <2>1, LenProperties
  <2> QED BY <2>1, <2>2, ElementOfSeq DEF CurrentItem
<1>3. PICK t \in Orders(w) : Update(s, [r EXCEPT !.queue = <<c>> \o t, !.index = 0])
  BY <1>1 DEF Shuffle
<1> HIDE DEF r, c, w, a
<1>4. w \in Seq(Item) /\ Unique(w) /\ ~Holds(w, c)
  <2>1. Dropped(r.queue, a, w)
    BY <1>2, DropItem DEF w
  <2> QED BY <1>2, <2>1, DroppedOne DEF Dropped
<1>5. t \in Seq(Item) /\ Unique(t) /\ ~Holds(t, c)
  BY <1>4, Ordered
<1> DEFINE q == <<c>> \o t
<1>6. q \in Seq(Item) /\ Unique(q) /\ 0 < Len(q) /\ q[0 + 1] = c
  <2>1. <<c>> \in Seq(Item) /\ Len(<<c>>) = 1 /\ <<c>>[1] = c
    BY <1>2, Alone
  <2>2. /\ q \in Seq(Item) /\ Len(q) = 1 + Len(t) /\ Len(t) \in Nat
        /\ q[1] = c /\ \A m \in 2..(1 + Len(t)) : q[m] = t[m - 1]
    BY <1>5, <2>1, ConcatProperties, LenProperties
  <2> HIDE DEF q
  <2>3. DOMAIN q = 1..(1 + Len(t)) /\ DOMAIN t = 1..Len(t)
    BY <1>5, <2>2, LenProperties
  <2>4. \A m \in 2..(1 + Len(t)) : m - 1 \in DOMAIN t /\ q[m] = t[m - 1] /\ q[m] # c
    BY <1>5, <2>2, <2>3 DEF Holds
  <2>5. Unique(q)
    <3> SUFFICES ASSUME NEW m \in DOMAIN q, NEW n \in DOMAIN q, q[m] = q[n] PROVE m = n
      BY DEF Unique
    <3>1. CASE m = 1 \/ n = 1
      BY <2>2, <2>3, <2>4, <3>1
    <3>2. CASE m # 1 /\ n # 1
      <4>1. m \in 2..(1 + Len(t)) /\ n \in 2..(1 + Len(t))
        BY <2>2, <2>3, <3>2
      <4>2. m - 1 = n - 1
        BY <1>5, <2>4, <4>1 DEF Unique
      <4> QED BY <4>1, <4>2
    <3> QED BY <3>1, <3>2
  <2> QED BY <2>2, <2>5
<1> DEFINE x == [r EXCEPT !.queue = q, !.index = 0]
<1>7. Update(s, x)
  BY <1>3
<1> HIDE DEF q
<1>8. Plays(x)
  BY <1>1, <1>6, AnotherPlace DEF c
<1> HIDE DEF x
<1> QED BY <1>7, <1>8, UpdatePlays

LEMMA RequestPlays ==
    ASSUME Sessions, Playing, Repeated = {}, NEW s \in Session, Request(s)
    PROVE  Playing'
<1> DEFINE r == ses[s]
<1>0. /\ Live(s) /\ Good(r) /\ Plays(r) /\ r.life = "live"
      /\ r.queue \in Seq(Item) /\ Unique(r.queue)
      /\ r.index \in Nat /\ r.index < Len(r.queue) /\ HasCurrent(r)
  BY DEF Request, Sessions, MapHoldsTheLiveOne, Live, Playing, Plays, HasCurrent
<1>1. ASSUME NEW i \in Item, PlayNow(s, i) PROVE Playing'
  <2> DEFINE q == <<i>>
             x == TrackChanged([r EXCEPT !.queue = q, !.index = 0], q[0 + 1])
  <2>1. q \in Seq(Item) /\ Unique(q) /\ 0 < Len(q) /\ q[0 + 1] = i
    <3>1. q \in Seq(Item) /\ Unique(q) /\ Len(q) = 1 /\ q[1] = i
      BY Alone
    <3> QED BY <3>1
  <2>2. Update(s, x)
    BY <1>1, <2>1 DEF PlayNow
  <2> HIDE DEF q
  <2>3. Plays(x)
    BY <1>0, <2>1, AnotherTrack
  <2> HIDE DEF x
  <2> QED BY <2>2, <2>3, UpdatePlays
<1>2. ASSUME NEW i \in Item, AddItem(s, i) PROVE Playing'
  <2> DEFINE q == Append(r.queue, i)
             x == [r EXCEPT !.queue = q]
  <2>1. ~Holds(r.queue, i) /\ Update(s, x)
    BY <1>2 DEF AddItem
  <2>2. /\ q \in Seq(Item) /\ Unique(q) /\ Len(q) = Len(r.queue) + 1
        /\ \A m \in 1..Len(r.queue) : q[m] = r.queue[m]
    BY <1>0, <2>1, AddOne
  <2>3. x.queue = q /\ x.index = r.index /\ x.url = r.url /\ x.life = r.life
    <3> HIDE DEF q
    <3> QED BY <1>0 DEF Good, Shape
  <2> HIDE DEF q, x
  <2>4. r.index + 1 \in 1..Len(r.queue) /\ r.index < Len(q)
    BY <1>0, <2>2, LenProperties
  <2>5. q[r.index + 1] = r.url
    BY <1>0, <2>2, <2>4 DEF Plays, CurrentItem
  <2>6. Plays(x)
    BY <1>0, <2>2, <2>3, <2>4, <2>5 DEF Plays, HasCurrent, CurrentItem
  <2> QED BY <2>1, <2>6, UpdatePlays
<1>3. ASSUME NEW i \in Item, PlayItem(s, i) PROVE Playing'
  <2> DEFINE n == IndexOf(r.queue, i)
             y == [r EXCEPT !.index = n]
             x == TrackChanged(y, i)
  <2>1. Holds(r.queue, i) /\ Update(s, x)
    BY <1>3 DEF PlayItem
  <2>2. n \in Nat /\ n < Len(r.queue) /\ r.queue[n + 1] = i
    BY <1>0, <2>1, Found, LenProperties
  <2> HIDE DEF n
  <2>3. x.queue = r.queue /\ x.index = n /\ x.url = i /\ x.life = r.life
    BY <1>0 DEF Good, Shape, TrackChanged
  <2> HIDE DEF x
  <2>4. Plays(x)
    BY <1>0, <2>2, <2>3 DEF Plays, HasCurrent, CurrentItem
  <2> QED BY <2>1, <2>4, UpdatePlays
<1>4. ASSUME NEW i \in Item, RemoveItem(s, i) PROVE Playing'
  BY <1>0, <1>4, RemovePlays
<1>5. ASSUME Advance(s) PROVE Playing'
  BY <1>0, <1>5, AdvancePlays
<1>6. ASSUME NEW q \in Orders(r.queue), Reorder(s, q) PROVE Playing'
  <2> DEFINE c == CurrentItem(r)
             n == IndexOf(q, c)
             x == [r EXCEPT !.queue = q, !.index = n]
  <2>1. Update(s, x)
    BY <1>0, <1>6 DEF Reorder
  <2>2. q \in Seq(Item) /\ Unique(q) /\ (Holds(r.queue, c) => Holds(q, c))
    BY <1>0, Ordered
  <2>3. Holds(r.queue, c)
    <3>1. r.index + 1 \in DOMAIN r.queue
      BY <1>0, LenProperties
    <3> QED BY <3>1 DEF Holds, CurrentItem
  <2> HIDE DEF c
  <2>4. n \in Nat /\ n < Len(q) /\ q[n + 1] = c
    BY <2>2, <2>3, Found, LenProperties
  <2> HIDE DEF n
  <2>5. Plays(x)
    BY <1>0, <2>2, <2>4, AnotherPlace DEF c
  <2> HIDE DEF x
  <2> QED BY <2>1, <2>5, UpdatePlays
<1>7. ASSUME Shuffle(s) PROVE Playing'
  BY <1>0, <1>7, ShufflePlays
<1>8. ASSUME Seek(s) PROVE Playing'
  <2> DEFINE x == [r EXCEPT !.running = TRUE, !.recent = TRUE, !.ignored = FALSE]
  <2>1. Update(s, x)
    BY <1>8 DEF Seek
  <2>2. x.queue = r.queue /\ x.index = r.index /\ x.url = r.url /\ x.life = r.life
    BY <1>0 DEF Good, Shape
  <2> HIDE DEF x
  <2> QED BY <1>0, <2>1, <2>2, SameTrack, UpdatePlays
<1>9. ASSUME Leave(s) PROVE Playing'
  BY <1>0, <1>9, DisposePlays DEF Leave
<1> QED
  BY <1>1, <1>2, <1>3, <1>4, <1>5, <1>6, <1>7, <1>8, <1>9 DEF Request

\* The bot's way into the room changes nothing that is shown.
LEMMA MovePlays ==
    ASSUME Sessions, Playing, NEW s \in Session, NEW a \in Stage, ses[s].at # "out",
           \/ Update(s, [ses[s] EXCEPT !.at = a])
           \/ ses[s].promise = "pending" /\ Reject(s, [ses[s] EXCEPT !.at = a])
    PROVE  Playing'
<1> DEFINE r == ses[s]
           x == [r EXCEPT !.at = a]
<1>1. Good(r) /\ Plays(r)
  BY DEF Sessions, Playing
<1>2. /\ Good(x) /\ x.life = r.life /\ x.promise = r.promise
      /\ x.queue = r.queue /\ x.index = r.index /\ x.url = r.url
  <2>1. Good(x) /\ x.life = r.life /\ x.promise = r.promise
    BY <1>1, StageChange
  <2>2. x.queue = r.queue /\ x.index = r.index /\ x.url = r.url
    BY <1>1 DEF Good, Shape
  <2> QED BY <2>1, <2>2
<1>3. r.life # "unused"
  BY <1>1 DEF Good, Sound
<1>4. Update(s, x) \/ (r.promise = "pending" /\ Reject(s, x))
  OBVIOUS
<1> HIDE DEF x
<1>5. Plays(x)
  BY <1>1, <1>2, SameTrack
<1> QED BY <1>2, <1>3, <1>4, <1>5, UpdatePlays, RejectPlays

LEMMA BotPlays ==
    ASSUME Sessions, Playing, NEW s \in Session, Bot(s)
    PROVE  Playing'
<1> DEFINE r == ses[s]
<1>0. Good(r) /\ Plays(r) /\ (Live(s) <=> r.life = "live")
  BY DEF Sessions, Playing, Live
<1>1. ASSUME Connect(s) \/ PeerReady(s) \/ Joined(s) PROVE Playing'
  BY <1>1, MovePlays DEF Connect, PeerReady, Joined, Stage
<1>2. ASSUME ConnectError(s) PROVE Playing'
  <2>1. PICK next \in {"connecting", "out"} :
            IF r.promise = "pending" THEN Reject(s, [r EXCEPT !.at = next])
                                     ELSE Update(s, [r EXCEPT !.at = next])
    <3>1. \A next : [r EXCEPT !.at = next].promise = r.promise
      BY <1>0 DEF Good, Shape
    <3> QED BY <1>2, <3>1 DEF ConnectError
  <2>2. r.at # "out" /\ next \in Stage
    BY <1>2 DEF ConnectError, Stage
  <2> QED BY <2>1, <2>2, MovePlays
<1>3. ASSUME PeerFailed(s) PROVE Playing'
  <2>1. r.at = "peering" /\ "out" \in Stage /\ "peering" \in Stage
    BY <1>3 DEF PeerFailed, Stage
  <2>2. \/ r.promise = "pending" /\ Reject(s, [r EXCEPT !.at = "peering"])
        \/ r.promise = "pending" /\ Reject(s, [r EXCEPT !.at = "out"])
        \/ Update(s, [r EXCEPT !.at = "out"])
    BY <1>3, <2>1 DEF PeerFailed
  <2> QED BY <2>1, <2>2, MovePlays
<1>4. ASSUME CallsDone(s) PROVE Playing'
  <2> DEFINE a == IF r.at = "calling" THEN "in" ELSE "out"
             i == r.ignored /\ r.running
             c == r.recent \/ (Live(s) /\ r.promise = "pending")
             p == IF r.promise = "pending" THEN "done" ELSE r.promise
             x == [r EXCEPT !.at = a, !.running = TRUE, !.ignored = i, !.recent = c, !.promise = p]
  <2>1. Update(s, x)
    BY <1>4 DEF CallsDone
  <2> HIDE DEF a, i, c, p
  <2>2. x.queue = r.queue /\ x.index = r.index /\ x.url = r.url /\ x.life = r.life
    BY <1>0 DEF Good, Shape
  <2> HIDE DEF x
  <2> QED BY <1>0, <2>1, <2>2, SameTrack, UpdatePlays
<1>5. ASSUME StartTimeout(s) PROVE Playing'
  BY <1>0, <1>5, RejectPlays DEF StartTimeout
<1>6. ASSUME SocketDrops(s) PROVE Playing'
  <2>1. PICK next \in {"connecting", "out"} : Update(s, [r EXCEPT !.at = next])
    BY <1>6 DEF SocketDrops
  <2>2. r.at # "out" /\ next \in Stage
    BY <1>6 DEF SocketDrops, Stage
  <2> QED BY <2>1, <2>2, MovePlays
<1>7. ASSUME BotLeaves(s) PROVE Playing'
  BY <1>0, <1>7, DisposePlays DEF BotLeaves
<1>8. ASSUME TrackEnds(s) PROVE Playing'
  <2>1. CASE Live(s) /\ ~r.recent
    BY <1>8, <2>1, AdvancePlays DEF TrackEnds
  <2>2. CASE ~(Live(s) /\ ~r.recent)
    <3> DEFINE b == Live(s)
               x == [r EXCEPT !.running = FALSE, !.ignored = b]
    <3>1. Update(s, x)
      BY <1>8, <2>2 DEF TrackEnds
    <3> HIDE DEF b
    <3>2. x.queue = r.queue /\ x.index = r.index /\ x.url = r.url /\ x.life = r.life
      BY <1>0 DEF Good, Shape
    <3> HIDE DEF x
    <3> QED BY <1>0, <3>1, <3>2, SameTrack, UpdatePlays
  <2> QED BY <2>1, <2>2
<1>9. ASSUME Settle(s) PROVE Playing'
  <2> DEFINE x == [r EXCEPT !.recent = FALSE]
  <2>1. Update(s, x)
    BY <1>9 DEF Settle
  <2>2. x.queue = r.queue /\ x.index = r.index /\ x.url = r.url /\ x.life = r.life
    BY <1>0 DEF Good, Shape
  <2> HIDE DEF x
  <2> QED BY <1>0, <2>1, <2>2, SameTrack, UpdatePlays
<1> QED
  BY <1>1, <1>2, <1>3, <1>4, <1>5, <1>6, <1>7, <1>8, <1>9 DEF Bot

LEMMA PlayingInit == Init => Playing
<1> SUFFICES ASSUME Init, NEW s \in Session PROVE Plays(ses[s])
  BY DEF Playing
<1> DEFINE q == <<>>
<1>1. q \in Seq(Item) /\ Unique(q)
  BY DEF Unique
<1>2. ses[s].queue = q /\ ses[s].index = 0 /\ ses[s].life = "unused"
  BY DEF Init
<1> HIDE DEF q
<1> QED BY <1>1, <1>2 DEF Plays

LEMMA PlayingNext ==
    ASSUME Repeated = {}, Sessions, Playing, [Next]_vars
    PROVE  Playing'
<1>1. CASE Next
  BY <1>1, CreatePlays, RequestPlays, BotPlays DEF Next
<1>2. CASE UNCHANGED vars
  BY <1>2 DEF vars, Playing
<1> QED BY <1>1, <1>2

\* getState: as long as nobody adds an item that is in the queue, the track shown
\* is the one the bot plays, after any requests, failures and ends of tracks.
THEOREM ShownTrackPlays ==
    ASSUME Repeated = {}
    PROVE  Spec => []ShowsWhatPlays
<1>1. Playing => ShowsWhatPlays
  BY DEF Playing, Plays, ShowsWhatPlays, Live
<1>2. Sessions /\ Playing /\ [Next]_vars => Playing'
  BY PlayingNext
<1> QED BY <1>1, <1>2, PlayingInit, SessionsAlways, PTL DEF Spec
=============================================================================
