-------------------------- MODULE PipelinesProofs --------------------------
(***************************************************************************)
(* Pipelines implements TrackPlayer, for any number of runs, processes and  *)
(* frames in the queue; that tracks end is left to TLC.  The inductive      *)
(* invariant says what keeps the runs apart: in the audio pipeline the run  *)
(* numbers, of which every ffmpeg has its own; in the video pipeline only   *)
(* that no run was stopped before its processes were gone, so that there is *)
(* but one run that anything can come from.                                 *)
(***************************************************************************)
EXTENDS Pipelines, SequenceTheorems, TLAPS

Proc == [run : Nat, feed : Nat, state : {"up", "killed", "closed"}]

Typed ==
  /\ kind \in Kinds /\ runs \in Nat /\ current \in Nat /\ ended \in Nat
  /\ running \in BOOLEAN /\ paused \in BOOLEAN /\ failed \in BOOLEAN /\ stopped \in BOOLEAN
  /\ yt \in [Runs -> {"none", "up", "killed", "gone"}] /\ heldYt \in Nat
  /\ ff \in Seq(Proc) /\ heldFf \in 0 .. Len(ff) /\ checks \subseteq DOMAIN ff
  /\ queue \in Seq(Nat)

\* Frames wait for the run that plays only.
Frames == queue # <<>> => running /\ \A j \in 1 .. Len(queue) : queue[j] = runs

\* Runs are counted; what waits for the queue to drain has closed; no run ends twice.
Numbered ==
  /\ open \subseteq 1 .. runs /\ \A i \in DOMAIN ff : ff[i].run \in 1 .. runs
  /\ \A i \in checks : ff[i].state = "closed"
  /\ ended <= runs /\ (running => runs # 0 /\ ended # runs)

\* The audio pipeline: a run has one ffmpeg, and the current one's is held.
AudioRun ==
  /\ \A i, j \in DOMAIN ff : ff[i].run = ff[j].run => i = j
  /\ current = 0 => heldFf = 0 /\ ~running
  /\ current # 0 => current = runs /\ heldFf # 0 /\ ff[heldFf].run = runs
  /\ current # 0 /\ ~running => ended = runs /\ ff[heldFf].state = "closed"
  /\ \A i \in DOMAIN ff : ff[i].state = "up" => i = heldFf

\* The video pipeline, before anything is loose: whatever there is is of this run.
VideoRun ==
  /\ open \subseteq {runs}
  /\ \A i \in DOMAIN ff : ff[i].state # "closed" => running /\ i = heldFf /\ ff[i].run = runs
  /\ \A i \in checks : running /\ i = heldFf /\ i = drainCheck /\ ff[i].run = runs
  /\ open # {} /\ prime # "primed" => running /\ \A i \in DOMAIN ff : ff[i].run # runs
  /\ ~running /\ ended = 0 => \A r \in Runs : yt[r] \notin {"up", "killed"}

IInv ==
  /\ Typed /\ Numbered
  /\ Audio => AudioRun
  /\ ~Audio /\ ~stopped => VideoRun
  /\ ~Loose => Frames
-----------------------------------------------------------------------------
(* The ffmpeg processes                                                     *)

LEMMA Processes ==
  ASSUME Typed
  PROVE  /\ Len(ff) \in Nat /\ DOMAIN ff = 1 .. Len(ff)
         /\ \A i \in DOMAIN ff : ff[i] \in Proc
         /\ heldFf # 0 => heldFf \in DOMAIN ff
<1>1. ff \in Seq(Proc) /\ heldFf \in 0 .. Len(ff) BY DEF Typed
<1>2. Len(ff) \in Nat /\ DOMAIN ff = 1 .. Len(ff) BY <1>1, LenProperties
<1>3. \A i \in DOMAIN ff : ff[i] \in Proc BY <1>1, <1>2, ElementOfSeq
<1> QED BY <1>1, <1>2, <1>3

LEMMA Spawned ==
  ASSUME NEW old \in Seq(Proc), NEW p \in Proc
  PROVE  /\ Append(old, p) \in Seq(Proc)
         /\ Len(Append(old, p)) = Len(old) + 1
         /\ DOMAIN Append(old, p) = DOMAIN old \cup {Len(old) + 1}
         /\ Len(old) + 1 \notin DOMAIN old
         /\ \A i \in DOMAIN old : Append(old, p)[i] = old[i]
         /\ Append(old, p)[Len(old) + 1] = p
<1> HIDE DEF Proc
<1>1. /\ Append(old, p) \in Seq(Proc)
      /\ Len(Append(old, p)) = Len(old) + 1
      /\ \A i \in 1 .. Len(old) : Append(old, p)[i] = old[i]
      /\ Append(old, p)[Len(old) + 1] = p
  BY AppendProperties
<1>2. Len(old) \in Nat /\ DOMAIN old = 1 .. Len(old)
      /\ DOMAIN Append(old, p) = 1 .. Len(old) + 1
  BY <1>1, LenProperties
<1> QED BY <1>1, <1>2

LEMMA Killing ==
  ASSUME Typed
  PROVE  /\ KilledFf \in Seq(Proc) /\ DOMAIN KilledFf = DOMAIN ff /\ Len(KilledFf) = Len(ff)
         /\ \A i \in DOMAIN ff :
              /\ KilledFf[i].run = ff[i].run
              /\ KilledFf[i].state = "closed" <=> ff[i].state = "closed"
              /\ KilledFf[i].state = "up" => i # heldFf /\ ff[i].state = "up"
<1>1. Len(ff) \in Nat /\ DOMAIN ff = 1 .. Len(ff) /\ \A i \in DOMAIN ff : ff[i] \in Proc
  BY Processes
<1>2. ASSUME NEW i \in DOMAIN ff
      PROVE  /\ KilledFf[i] \in Proc
             /\ KilledFf[i].run = ff[i].run
             /\ KilledFf[i].state = "closed" <=> ff[i].state = "closed"
             /\ KilledFf[i].state = "up" => i # heldFf /\ ff[i].state = "up"
  BY <1>1 DEF KilledFf, Proc
<1>3. KilledFf \in [1 .. Len(ff) -> Proc] BY <1>1, <1>2 DEF KilledFf
<1>4. KilledFf \in Seq(Proc) BY <1>1, <1>3, SeqDef
<1>5. DOMAIN KilledFf = DOMAIN ff BY <1>1, <1>3
<1>6. Len(KilledFf) = Len(ff) BY <1>1, <1>4, <1>5, LenProperties
<1> QED BY <1>2, <1>4, <1>5, <1>6

\* What is killed is no run's that ended.
LEMMA KillingYt ==
  ASSUME Typed
  PROVE  /\ KilledYt \in [Runs -> {"none", "up", "killed", "gone"}]
         /\ \A r \in Runs : KilledYt[r] \in {"up", "killed"} => yt[r] \in {"up", "killed"}
BY DEF Typed, KilledYt

-----------------------------------------------------------------------------
(* The steps keep the invariant                                             *)

LEMMA InitInv == Init => IInv
<1> SUFFICES ASSUME Init PROVE IInv OBVIOUS
<1>1. ff = <<>> /\ DOMAIN ff = {} /\ Len(ff) = 0 /\ ff \in Seq(Proc) /\ queue = <<>> /\ queue \in Seq(Nat)
  BY DEF Init
<1>2. /\ kind \in Kinds /\ runs = 0 /\ current = 0 /\ ended = 0 /\ heldYt = 0 /\ heldFf = 0
      /\ checks = {} /\ open = {}
  BY DEF Init
<1>3. ~running /\ running \in BOOLEAN /\ paused \in BOOLEAN /\ failed \in BOOLEAN /\ stopped \in BOOLEAN
  BY DEF Init
<1>4. yt \in [Runs -> {"none", "up", "killed", "gone"}] /\ \A r \in Runs : yt[r] = "none"
  BY DEF Init
<1>5. Typed BY <1>1, <1>2, <1>3, <1>4 DEF Typed
<1>6. Numbered BY <1>1, <1>2, <1>3 DEF Numbered
<1>7. AudioRun BY <1>1, <1>2, <1>3 DEF AudioRun
<1>8. VideoRun BY <1>1, <1>2, <1>3, <1>4 DEF VideoRun
<1>9. Frames BY <1>1 DEF Frames
<1> QED BY <1>5, <1>6, <1>7, <1>8, <1>9 DEF IInv

\* The processes a new run finds: those of before, or killed ones.
Found(old) ==
  /\ old \in Seq(Proc) /\ DOMAIN old = DOMAIN ff /\ Len(old) = Len(ff)
  /\ \A i \in DOMAIN ff : /\ old[i].run = ff[i].run
                          /\ old[i].state = "closed" <=> ff[i].state = "closed"
                          /\ Audio => old[i].state # "up"

\* A new run.
LEMMA BegunKeeps ==
  ASSUME IInv, NEW r, NEW STATE oldYt, NEW STATE old, Begun(r, oldYt, old),
         Found(old), oldYt \in [Runs -> {"none", "up", "killed", "gone"}],
         queue' = <<>>,
         Audio => heldFf' = Len(ff) + 1,
         ~Audio => heldFf' \in {0, heldFf},
         checks' \subseteq checks, ~Audio /\ ~stopped => checks' = {}
  PROVE  IInv'
<1>1. /\ r = runs + 1 /\ r \in Runs /\ running' = TRUE /\ paused' = FALSE /\ failed' = FALSE
      /\ runs' = r /\ current' = r /\ open' = open \cup {r} /\ heldYt' = r /\ prime' = "empty"
      /\ stopped' = (stopped \/ Leftovers) /\ UNCHANGED <<kind, ended>>
  BY DEF Begun
<1>2. r \in Nat /\ runs \in Nat /\ runs < r /\ ended <= runs /\ ended \in Nat /\ r # 0
  BY <1>1 DEF IInv, Typed, Numbered
<1>3. ff' = IF Audio THEN Append(old, Ffmpeg(r, r)) ELSE old
  BY DEF Begun
<1>4. Ffmpeg(r, r) \in Proc /\ Ffmpeg(r, r).run = r /\ Ffmpeg(r, r).state = "up"
  BY <1>2 DEF Ffmpeg, Proc
<1>5. /\ Len(ff) \in Nat /\ heldFf \in 0 .. Len(ff) /\ checks \subseteq DOMAIN ff
      /\ DOMAIN ff = 1 .. Len(ff)
      /\ \A i \in DOMAIN ff : ff[i].run \in 1 .. runs
  BY Processes DEF IInv, Typed, Numbered
<1>6. /\ ff' \in Seq(Proc)
      /\ Audio => DOMAIN ff' = DOMAIN ff \cup {Len(ff) + 1} /\ Len(ff') = Len(ff) + 1
                  /\ ff'[Len(ff) + 1].run = r /\ ff'[Len(ff) + 1].state = "up"
      /\ ~Audio => DOMAIN ff' = DOMAIN ff /\ Len(ff') = Len(ff)
      /\ \A i \in DOMAIN ff : /\ ff'[i].run = ff[i].run
                              /\ ff'[i].state = "closed" <=> ff[i].state = "closed"
                              /\ Audio => ff'[i].state # "up"
  <2>1. CASE Audio
    <3> DEFINE p == Ffmpeg(r, r)
    <3>1. ff' = Append(old, p) BY <1>3, <2>1
    <3>2. p \in Proc /\ p.run = r /\ p.state = "up" BY <1>4
    <3> HIDE DEF p
    <3>3. /\ old \in Seq(Proc) /\ DOMAIN old = DOMAIN ff /\ Len(old) = Len(ff)
          /\ \A i \in DOMAIN ff : /\ old[i].run = ff[i].run
                                  /\ old[i].state = "closed" <=> ff[i].state = "closed"
                                  /\ old[i].state # "up"
      BY <2>1 DEF Found
    <3>4. /\ ff' \in Seq(Proc) /\ Len(ff') = Len(ff) + 1
          /\ DOMAIN ff' = DOMAIN ff \cup {Len(ff) + 1}
          /\ \A i \in DOMAIN ff : ff'[i] = old[i]
          /\ ff'[Len(ff) + 1] = p
      BY <3>1, <3>2, <3>3, Spawned
    <3> QED BY <2>1, <3>2, <3>3, <3>4
  <2>2. CASE ~Audio BY <1>3, <2>2 DEF Found
  <2> QED BY <2>1, <2>2
<1>7. yt' \in [Runs -> {"none", "up", "killed", "gone"}]
  <2>1. yt' = [oldYt EXCEPT ![r] = "up"] BY DEF Begun
  <2> QED BY <2>1
<1>8. Typed'
  <2>1. heldFf' \in 0 .. Len(ff') BY <1>5, <1>6
  <2>2. checks' \subseteq DOMAIN ff' BY <1>5, <1>6
  <2>3. queue' \in Seq(Nat) OBVIOUS
  <2>4. stopped' \in BOOLEAN /\ running' \in BOOLEAN /\ paused' \in BOOLEAN /\ failed' \in BOOLEAN
    BY <1>1
  <2> QED BY <1>1, <1>2, <1>6, <1>7, <2>1, <2>2, <2>3, <2>4 DEF IInv, Typed
<1>9. Numbered'
  <2>1. \A i \in DOMAIN ff' : ff'[i].run \in 1 .. r BY <1>2, <1>5, <1>6
  <2>2. \A i \in checks' : ff'[i].state = "closed" BY <1>5, <1>6 DEF IInv, Numbered
  <2>3. open' \subseteq 1 .. r
    <3>1. open \subseteq 1 .. runs BY DEF IInv, Numbered
    <3>2. 1 .. runs \subseteq 1 .. r /\ r \in 1 .. r BY <1>2
    <3> QED BY <1>1, <3>1, <3>2
  <2>4. ended' <= runs' /\ ended' # runs' /\ runs' # 0 BY <1>1, <1>2
  <2> QED BY <1>1, <2>1, <2>2, <2>3, <2>4 DEF Numbered
<1>10. ASSUME Audio PROVE AudioRun'
  <2>1. heldFf' = Len(ff) + 1 BY <1>10
  <2>2. \A i, j \in DOMAIN ff : ff[i].run = ff[j].run => i = j BY <1>10 DEF IInv, AudioRun
  <2>3. \A i, j \in DOMAIN ff' : ff'[i].run = ff'[j].run => i = j
    BY <1>2, <1>5, <1>6, <1>10, <2>2
  <2>4. \A i \in DOMAIN ff' : ff'[i].state = "up" => i = heldFf'
    BY <1>6, <1>10, <2>1
  <2> QED BY <1>1, <1>2, <1>5, <1>6, <1>10, <2>1, <2>3, <2>4 DEF AudioRun
<1>11. ASSUME ~Audio, ~stopped' PROVE VideoRun'
  <2>1. ~stopped /\ ~Leftovers BY <1>1, <1>11
  <2>2. open' = {r} /\ checks' = {} BY <1>1, <1>11, <2>1 DEF Leftovers
  <2>3. \A i \in DOMAIN ff : ff[i].state = "closed" BY <2>1 DEF Leftovers
  <2>4. \A i \in DOMAIN ff' : ff'[i].state = "closed" /\ ff'[i].run # r
    <3> SUFFICES ASSUME NEW i \in DOMAIN ff' PROVE ff'[i].state = "closed" /\ ff'[i].run # r
      OBVIOUS
    <3>1. i \in DOMAIN ff BY <1>6, <1>11
    <3>2. ff'[i].state = "closed" BY <1>6, <2>3, <3>1
    <3>3. ff'[i].run = ff[i].run BY <1>6, <3>1
    <3>4. ff[i].run <= runs /\ ff[i].run \in Nat BY <1>2, <1>5, <3>1
    <3> QED BY <1>2, <3>2, <3>3, <3>4
  <2> QED BY <1>1, <2>2, <2>4 DEF VideoRun
<1>12. Frames' BY DEF Frames
<1>13. Audio' <=> Audio BY <1>1 DEF Audio
<1> QED BY <1>8, <1>9, <1>10, <1>11, <1>12, <1>13 DEF IInv

LEMMA StartKeeps ==
  ASSUME IInv, NEW r \in Runs, Start(r)
  PROVE  IInv'
<1>1. /\ ~running /\ Begun(r, yt, ff) /\ checks' = checks
      /\ heldFf' = IF Audio THEN Len(ff) + 1 ELSE heldFf
      /\ queue' = IF Audio THEN queue ELSE <<>>
  BY DEF Start
<1>2. queue' = <<>> BY <1>1 DEF IInv, Frames, Loose
<1>3. ~Audio /\ ~stopped => checks' = {} BY <1>1 DEF IInv, VideoRun
<1>4. Found(ff)
  <2>1. Audio => \A i \in DOMAIN ff : ff[i].state # "up"
    BY <1>1, Processes DEF IInv, AudioRun
  <2> QED BY <2>1 DEF Found, IInv, Typed
<1>5. yt \in [Runs -> {"none", "up", "killed", "gone"}] BY DEF IInv, Typed
<1> QED BY <1>1, <1>2, <1>3, <1>4, <1>5, BegunKeeps

LEMMA SeekKeeps ==
  ASSUME IInv, NEW r \in Runs, Seek(r)
  PROVE  IInv'
<1>1. /\ Begun(r, KilledYt, KilledFf) /\ queue' = <<>> /\ checks' = checks \ {drainCheck}
      /\ heldFf' = IF Audio THEN Len(ff) + 1 ELSE 0
  BY DEF Seek
<1>2. ~Audio /\ ~stopped => checks' = {} BY <1>1 DEF IInv, VideoRun
<1>3. Audio => \A i \in DOMAIN ff : ff[i].state = "up" => i = heldFf BY DEF IInv, AudioRun
<1>4. Found(KilledFf) BY <1>3, Killing DEF IInv, Found
<1>5. KilledYt \in [Runs -> {"none", "up", "killed", "gone"}] BY KillingYt DEF IInv
<1> QED BY <1>1, <1>2, <1>4, <1>5, BegunKeeps

LEMMA StopKeeps ==
  ASSUME IInv, Stop
  PROVE  IInv'
<1>1. /\ running' = FALSE /\ paused' = FALSE /\ failed' = FALSE /\ queue' = <<>> /\ prime' = "empty"
      /\ checks' = checks \ {drainCheck} /\ current' = 0 /\ heldYt' = 0 /\ heldFf' = 0
      /\ yt' = KilledYt /\ ff' = KilledFf
      /\ stopped' = (stopped \/ Leftovers) /\ UNCHANGED <<kind, runs, open, ended>>
  BY DEF Stop, Reset
<1>2. /\ ff' \in Seq(Proc) /\ DOMAIN ff' = DOMAIN ff /\ Len(ff') = Len(ff) /\ Len(ff) \in Nat
      /\ \A i \in DOMAIN ff : /\ ff'[i].run = ff[i].run
                              /\ ff'[i].state = "closed" <=> ff[i].state = "closed"
                              /\ ff'[i].state = "up" => i # heldFf /\ ff[i].state = "up"
  BY <1>1, Killing, Processes DEF IInv
<1>3. Typed'
  <2>1. running' \in BOOLEAN /\ paused' \in BOOLEAN /\ failed' \in BOOLEAN /\ stopped' \in BOOLEAN
    BY <1>1
  <2>2. queue' \in Seq(Nat) BY <1>1
  <2>3. checks' \subseteq DOMAIN ff' BY <1>1, <1>2 DEF IInv, Typed
  <2>4. yt' \in [Runs -> {"none", "up", "killed", "gone"}] BY <1>1, KillingYt DEF IInv
  <2> QED BY <1>1, <1>2, <2>1, <2>2, <2>3, <2>4 DEF IInv, Typed
<1>4. Numbered' BY <1>1, <1>2 DEF IInv, Typed, Numbered
<1>5. ASSUME Audio PROVE AudioRun'
  <2>1. \A i, j \in DOMAIN ff : ff[i].run = ff[j].run => i = j BY <1>5 DEF IInv, AudioRun
  <2>2. \A i \in DOMAIN ff' : ff'[i].state # "up" BY <1>2, <1>5 DEF IInv, AudioRun
  <2>3. \A i, j \in DOMAIN ff' : ff'[i].run = ff'[j].run => i = j BY <1>2, <2>1
  <2> QED BY <1>1, <2>2, <2>3 DEF AudioRun
<1>6. ASSUME ~Audio, ~stopped' PROVE VideoRun'
  <2>1. ~stopped /\ ~Leftovers BY <1>1, <1>6
  <2>2. open' = {} /\ \A i \in DOMAIN ff' : ff'[i].state = "closed"
    BY <1>1, <1>2, <2>1 DEF Leftovers
  <2>3. checks' = {} BY <1>1, <1>6, <2>1 DEF IInv, VideoRun
  <2>4. \A r \in Runs : yt'[r] \notin {"up", "killed"}
    BY <1>1, <2>1, KillingYt DEF IInv, Leftovers
  <2> QED BY <2>2, <2>3, <2>4 DEF VideoRun
<1>7. Frames' BY <1>1 DEF Frames
<1>8. Audio' <=> Audio BY <1>1 DEF Audio
<1> QED BY <1>3, <1>4, <1>5, <1>6, <1>7, <1>8 DEF IInv

\* Steps that leave the runs and their ffmpeg processes alone.
LEMMA QuietKeeps ==
  ASSUME IInv, UNCHANGED <<kind, running, runs, current, stopped, ff, heldFf, ended, checks, drainCheck>>,
         paused' \in BOOLEAN, failed' \in BOOLEAN, heldYt' \in Nat,
         yt' \in [Runs -> {"none", "up", "killed", "gone"}],
         \A r \in Runs : yt'[r] \in {"up", "killed"} => yt[r] \in {"up", "killed"},
         open' \subseteq open, prime' = prime \/ prime' = "primed" \/ (prime # "primed" /\ prime' = "some"),
         queue' \in Seq(Nat), ~Loose => Frames'
  PROVE  IInv'
<1>1. Typed' BY DEF IInv, Typed
<1>2. Numbered' BY DEF IInv, Numbered
<1>3. Audio => AudioRun' BY DEF IInv, AudioRun
<1>4. ~Audio /\ ~stopped => VideoRun' BY DEF IInv, VideoRun
<1>5. Audio' <=> Audio BY DEF Audio
<1> QED BY <1>1, <1>2, <1>3, <1>4, <1>5 DEF IInv, Loose

LEMMA PauseKeeps ==
  ASSUME IInv, Pause
  PROVE  IInv'
<1>1. /\ paused' = ~paused
      /\ UNCHANGED <<kind, running, runs, current, stopped, procs, media, ends, failed>>
  BY DEF Pause
<1>2. Frames => Frames' BY <1>1 DEF Frames, media
<1> QED BY <1>1, <1>2, QuietKeeps DEF IInv, Typed, procs, media, ends

LEMMA ExitTypes ==
  ASSUME IInv, NEW r, ExitOf(r)
  PROVE  failed' \in BOOLEAN
BY DEF IInv, Typed, ExitOf, EmitProcessFailure

LEMMA YtdlpExitsKeeps ==
  ASSUME IInv, NEW r \in Runs, YtdlpExits(r)
  PROVE  IInv'
<1>1. /\ yt' = [yt EXCEPT ![r] = "gone"] /\ ExitOf(r)
      /\ UNCHANGED <<kind, running, paused, runs, current, stopped, open, ff, heldYt, heldFf, prime,
                     queue, checks, drainCheck, ended>>
  BY DEF YtdlpExits, state, media, ends
<1>2. Frames => Frames' BY <1>1 DEF Frames
<1>3. /\ yt' \in [Runs -> {"none", "up", "killed", "gone"}]
      /\ \A q \in Runs : yt'[q] \in {"up", "killed"} => yt[q] \in {"up", "killed"}
  BY <1>1 DEF IInv, Typed
<1>4. failed' \in BOOLEAN BY <1>1, ExitTypes
<1> QED BY <1>1, <1>2, <1>3, <1>4, QuietKeeps DEF IInv, Typed

\* The video pipeline starts ffmpeg, which is this run's only one if nothing is loose.
LEMMA SpawnKeeps ==
  ASSUME IInv, ~Audio, NEW r \in Runs, r \in open, prime # "primed", SpawnFfmpeg(r),
         prime' = "primed", open' \subseteq open,
         UNCHANGED <<kind, running, paused, runs, current, stopped, yt, heldYt, queue, checks,
                     drainCheck, ended, failed>>
  PROVE  IInv'
<1> DEFINE p == Ffmpeg(r, heldYt)
<1>1. ff' = Append(ff, p) /\ heldFf' = Len(ff) + 1 BY DEF SpawnFfmpeg
<1>2. p \in Proc /\ p.run = r /\ p.state = "up"
  BY BoundsAssumption DEF IInv, Typed, Ffmpeg, Proc, Runs
<1> HIDE DEF p
<1>3. /\ Len(ff) \in Nat /\ DOMAIN ff = 1 .. Len(ff) /\ ff \in Seq(Proc)
      /\ checks \subseteq DOMAIN ff
  BY Processes DEF IInv, Typed
<1>4. /\ ff' \in Seq(Proc) /\ Len(ff') = Len(ff) + 1
      /\ DOMAIN ff' = DOMAIN ff \cup {Len(ff) + 1} /\ Len(ff) + 1 \notin DOMAIN ff
      /\ \A i \in DOMAIN ff : ff'[i] = ff[i]
      /\ ff'[Len(ff) + 1] = p
  BY <1>1, <1>2, <1>3, Spawned
<1>5. Typed'
  <2>1. heldFf' \in 0 .. Len(ff') /\ checks' \subseteq DOMAIN ff' BY <1>1, <1>3, <1>4
  <2> QED BY <1>4, <2>1 DEF IInv, Typed
<1>6. ASSUME ~stopped PROVE VideoRun' /\ r = runs
  <2>1. /\ r = runs /\ running /\ \A i \in DOMAIN ff : ff[i].run # runs
    BY <1>6 DEF IInv, VideoRun
  <2>2. \A i \in DOMAIN ff : ff[i].state = "closed" BY <1>6, <2>1 DEF IInv, VideoRun
  <2>3. checks' = {} BY <1>3, <1>6, <2>1 DEF IInv, VideoRun
  <2>4. \A i \in DOMAIN ff' : ff'[i].state # "closed" => i = heldFf' /\ ff'[i].run = runs
    BY <1>1, <1>2, <1>4, <2>1, <2>2
  <2>5. open' \subseteq {runs} BY <1>6 DEF IInv, VideoRun
  <2> QED BY <2>1, <2>3, <2>4, <2>5 DEF VideoRun
<1>7. Numbered'
  <2>1. r \in 1 .. runs BY DEF IInv, Numbered
  <2>2. \A i \in DOMAIN ff' : ff'[i].run \in 1 .. runs
    BY <1>2, <1>4, <2>1 DEF IInv, Numbered
  <2>3. \A i \in checks : ff'[i].state = "closed" BY <1>3, <1>4 DEF IInv, Numbered
  <2> QED BY <2>2, <2>3 DEF IInv, Numbered
<1>8. ~Loose => Frames' BY DEF IInv, Loose, Frames
<1>9. ~Audio' BY DEF Audio
<1> QED BY <1>5, <1>6, <1>7, <1>8, <1>9 DEF IInv, Loose

LEMMA YtdlpDataKeeps ==
  ASSUME IInv, NEW r \in Runs, YtdlpData(r)
  PROVE  IInv'
<1>1. /\ ~Audio /\ r \in open /\ prime # "primed"
      /\ UNCHANGED <<kind, running, paused, runs, current, stopped, yt, open, heldYt, queue,
                     checks, drainCheck, ended, failed>>
  BY DEF YtdlpData, state, ends
<1>2. CASE prime' = "primed" /\ SpawnFfmpeg(r)
  BY <1>1, <1>2, SpawnKeeps
<1>3. CASE prime' \in {"some", "primed"} /\ UNCHANGED <<ff, heldFf>>
  <2>1. Frames => Frames' BY <1>1 DEF Frames
  <2> QED BY <1>1, <1>3, <2>1, QuietKeeps DEF IInv, Typed
<1> QED BY <1>2, <1>3 DEF YtdlpData

LEMMA YtdlpEndsKeeps ==
  ASSUME IInv, NEW r \in Runs, YtdlpEnds(r)
  PROVE  IInv'
<1>1. /\ r \in open /\ open' = open \ {r}
      /\ UNCHANGED <<kind, running, paused, runs, current, stopped, yt, heldYt, queue,
                     checks, drainCheck, ended, failed>>
  BY DEF YtdlpEnds, state, ends
<1>2. CASE ~Audio /\ prime = "some"
  BY <1>1, <1>2, SpawnKeeps DEF YtdlpEnds
<1>3. CASE ~(~Audio /\ prime = "some")
  <2>1. Frames => Frames' BY <1>1 DEF Frames
  <2>2. UNCHANGED <<prime, ff, heldFf>> BY <1>3 DEF YtdlpEnds
  <2> QED BY <1>1, <2>1, <2>2, QuietKeeps DEF IInv, Typed
<1> QED BY <1>2, <1>3

\* Unless something is loose, an ffmpeg that is heeded and has not closed is the one of
\* the run that plays.
LEMMA Playing ==
  ASSUME IInv, ~Loose, NEW i \in DOMAIN ff, Heeds(ff[i].run), ff[i].state # "closed"
  PROVE  running /\ ff[i].run = runs /\ i = heldFf
<1>1. CASE Audio
  <2>1. ff[i].run = current /\ ff[i].run # 0
    BY <1>1 DEF Heeds, IInv, Numbered
  <2>2. current = runs /\ heldFf # 0 /\ ff[heldFf].run = runs
    BY <1>1, <2>1 DEF IInv, AudioRun
  <2>3. heldFf \in DOMAIN ff BY <2>2, Processes DEF IInv
  <2>4. i = heldFf BY <1>1, <2>1, <2>2, <2>3 DEF IInv, AudioRun
  <2>5. running BY <1>1, <2>1, <2>4 DEF IInv, AudioRun
  <2> QED BY <2>1, <2>2, <2>4, <2>5
<1>2. CASE ~Audio BY <1>2 DEF IInv, Loose, VideoRun
<1> QED BY <1>1, <1>2

LEMMA FfmpegDataKeeps ==
  ASSUME IInv, NEW i \in DOMAIN ff, FfmpegData(i)
  PROVE  IInv'
<1> DEFINE n == ff[i].run
<1>1. /\ ff[i].state # "closed" /\ Heeds(n) /\ queue' = Append(queue, n)
      /\ UNCHANGED <<kind, running, paused, runs, current, stopped, yt, open, ff, heldYt, heldFf,
                     prime, checks, drainCheck, ended, failed>>
  BY DEF FfmpegData, Enqueue, state, procs, ends
<1>2. n \in Nat BY Processes DEF IInv, Proc
<1>3. queue \in Seq(Nat) BY DEF IInv, Typed
<1>4. ~Loose => running /\ n = runs BY <1>1, Playing
<1> HIDE DEF n
<1>5. /\ queue' \in Seq(Nat) /\ Len(queue') = Len(queue) + 1
      /\ \A j \in 1 .. Len(queue) : queue'[j] = queue[j]
      /\ queue'[Len(queue) + 1] = n
  BY <1>1, <1>2, <1>3, AppendProperties
<1>6. Len(queue) \in Nat /\ (Len(queue) # 0 => queue # <<>>) BY <1>3, LenProperties
<1>7. ~Loose => Frames'
  <2> SUFFICES ASSUME ~Loose PROVE Frames' OBVIOUS
  <2>1. \A j \in 1 .. Len(queue) : queue[j] = runs BY <1>6 DEF IInv, Frames
  <2>2. \A j \in 1 .. Len(queue') : queue'[j] = runs
    BY <1>4, <1>5, <1>6, <2>1
  <2> QED BY <1>1, <1>4, <2>2 DEF Frames
<1> QED BY <1>1, <1>5, <1>7, QuietKeeps DEF IInv, Typed

LEMMA FrameTickKeeps ==
  ASSUME IInv, FrameTick
  PROVE  IInv'
<1>1. /\ queue # <<>> /\ queue' = Tail(queue)
      /\ UNCHANGED <<kind, running, paused, runs, current, stopped, yt, open, ff, heldYt, heldFf,
                     prime, checks, drainCheck, ended, failed>>
  BY DEF FrameTick, EmitFrame, state, procs, ends
<1>2. queue \in Seq(Nat) BY DEF IInv, Typed
<1>3. /\ queue' \in Seq(Nat) /\ Len(queue') = Len(queue) - 1
      /\ \A j \in 1 .. Len(queue') : queue'[j] = queue[j + 1]
  BY <1>1, <1>2, HeadTailProperties
<1>4. Len(queue) \in Nat BY <1>2, LenProperties
<1>5. ~Loose => Frames'
  <2> SUFFICES ASSUME ~Loose PROVE Frames' OBVIOUS
  <2>1. running /\ \A j \in 1 .. Len(queue) : queue[j] = runs BY <1>1 DEF IInv, Frames
  <2>2. \A j \in 1 .. Len(queue') : queue'[j] = runs BY <1>3, <1>4, <2>1
  <2> QED BY <1>1, <2>1, <2>2 DEF Frames
<1> QED BY <1>1, <1>3, <1>5, QuietKeeps DEF IInv, Typed

\* ffmpeg i closes, and waits for the queue to drain if its run plays.
LEMMA FfmpegClosesKeeps ==
  ASSUME IInv, NEW i \in DOMAIN ff, FfmpegCloses(i)
  PROVE  IInv'
<1>1. /\ ~crashed /\ ff[i].state # "closed" /\ ff' = [ff EXCEPT ![i].state = "closed"] /\ WaitForDrain(i)
      /\ UNCHANGED <<kind, running, paused, runs, current, stopped, yt, open, heldYt, heldFf,
                     prime, queue, ended>>
  BY DEF FfmpegCloses, state, media
<1>2. failed' \in BOOLEAN BY ExitTypes DEF FfmpegCloses
<1>3. Len(ff) \in Nat /\ DOMAIN ff = 1 .. Len(ff) /\ \A j \in DOMAIN ff : ff[j] \in Proc
  BY Processes DEF IInv
<1>4. /\ ff' \in Seq(Proc) /\ Len(ff') = Len(ff) /\ DOMAIN ff' = DOMAIN ff
      /\ \A j \in DOMAIN ff : j # i => ff'[j] = ff[j]
      /\ ff'[i].run = ff[i].run /\ ff'[i].state = "closed"
  <2> DEFINE p == [ff[i] EXCEPT !.state = "closed"]
  <2>1. p \in Proc /\ p.run = ff[i].run /\ p.state = "closed" BY <1>3 DEF Proc
  <2>2. ff' = [ff EXCEPT ![i] = p] BY <1>1
  <2> HIDE DEF p
  <2>3. ff' \in [1 .. Len(ff) -> Proc] /\ ff'[i] = p /\ \A j \in DOMAIN ff : j # i => ff'[j] = ff[j]
    BY <1>3, <2>1, <2>2
  <2>4. ff' \in Seq(Proc) BY <1>3, <2>3, SeqDef
  <2>5. Len(ff') = Len(ff) BY <1>3, <2>3, <2>4, LenProperties
  <2> QED BY <1>3, <2>1, <2>3, <2>4, <2>5
<1>5. (checks' = checks \cup {i} /\ drainCheck' = i) \/ UNCHANGED <<checks, drainCheck>>
  BY <1>1 DEF WaitForDrain
<1>6. Typed' BY <1>1, <1>2, <1>4, <1>5 DEF IInv, Typed
<1>7. Numbered'
  <2>1. \A j \in DOMAIN ff' : ff'[j].run \in 1 .. runs BY <1>4 DEF IInv, Numbered
  <2>2. \A j \in checks' : ff'[j].state = "closed"
    BY <1>4, <1>5 DEF IInv, Typed, Numbered
  <2> QED BY <1>1, <2>1, <2>2 DEF IInv, Numbered
<1>8. ASSUME Audio PROVE AudioRun'
  <2>1. \A j, k \in DOMAIN ff' : ff'[j].run = ff'[k].run => j = k
    BY <1>4, <1>8 DEF IInv, AudioRun
  <2>2. \A j \in DOMAIN ff' : ff'[j].state = "up" => j = heldFf
    BY <1>4, <1>8 DEF IInv, AudioRun
  <2>3. heldFf # 0 => heldFf \in DOMAIN ff BY Processes DEF IInv
  <2>4. current # 0 => current = runs /\ heldFf # 0 /\ ff'[heldFf].run = runs
    BY <1>4, <1>8, <2>3 DEF IInv, AudioRun
  <2>5. current # 0 /\ ~running => ended = runs /\ ff'[heldFf].state = "closed"
    BY <1>4, <1>8, <2>3 DEF IInv, AudioRun
  <2> QED BY <1>1, <1>8, <2>1, <2>2, <2>4, <2>5 DEF IInv, AudioRun
<1>9. ASSUME ~Audio, ~stopped PROVE VideoRun'
  <2>1. VideoRun BY <1>9 DEF IInv
  <2>2. running /\ i = heldFf /\ ff[i].run = runs BY <1>1, <2>1 DEF VideoRun
  <2>3. \A j \in DOMAIN ff' : ff'[j].state # "closed" => running /\ j = heldFf /\ ff'[j].run = runs
    BY <1>4, <2>1 DEF VideoRun
  <2>4. checks' = checks \cup {i} /\ drainCheck' = i
    BY <1>1, <1>9 DEF WaitForDrain, Heeds
  <2>5. \A j \in checks' : running /\ j = heldFf /\ j = drainCheck' /\ ff'[j].run = runs
    BY <1>4, <2>1, <2>2, <2>4 DEF VideoRun
  <2>6. open # {} /\ prime # "primed" => running /\ \A j \in DOMAIN ff' : ff'[j].run # runs
    BY <1>4, <2>1 DEF VideoRun
  <2> QED BY <1>1, <2>1, <2>3, <2>5, <2>6 DEF VideoRun
<1>10. ~Loose => Frames' BY <1>1 DEF IInv, Frames
<1>11. Audio' <=> Audio BY <1>1 DEF Audio
<1> QED BY <1>1, <1>6, <1>7, <1>8, <1>9, <1>10, <1>11 DEF IInv, Loose

\* Unless something is loose, a drain interval that is heeded is that of the run that
\* plays, and only the first ends it.
LEMMA Draining ==
  ASSUME IInv, ~Loose, NEW i \in checks, Heeds(ff[i].run), Audio => ended # ff[i].run
  PROVE  /\ running /\ ff[i].run = runs /\ i = heldFf /\ ff[i].state = "closed"
<1>1. i \in DOMAIN ff /\ ff[i].state = "closed" BY DEF IInv, Typed, Numbered
<1>2. CASE Audio
  <2>1. ff[i].run = current /\ ff[i].run # 0
    BY <1>1, <1>2 DEF Heeds, IInv, Numbered
  <2>2. current = runs /\ heldFf # 0 /\ ff[heldFf].run = runs
    BY <1>2, <2>1 DEF IInv, AudioRun
  <2>3. heldFf \in DOMAIN ff BY <2>2, Processes DEF IInv
  <2>4. i = heldFf BY <1>1, <1>2, <2>1, <2>2, <2>3 DEF IInv, AudioRun
  <2>5. running BY <1>2, <2>1, <2>2 DEF IInv, AudioRun
  <2> QED BY <1>1, <2>1, <2>2, <2>4, <2>5
<1>3. CASE ~Audio BY <1>1, <1>3 DEF IInv, Loose, VideoRun
<1> QED BY <1>2, <1>3

LEMMA DrainTickKeeps ==
  ASSUME IInv, NEW i \in DOMAIN ff, DrainTick(i)
  PROVE  IInv'
<1> DEFINE n == ff[i].run
<1>1. /\ i \in checks /\ Heeds(n) /\ queue = <<>> /\ (Audio => ended # n)
      /\ checks' = checks \ {drainCheck} /\ running' = FALSE /\ paused' = FALSE /\ ended' = n
      /\ UNCHANGED <<kind, runs, current, stopped, yt, open, ff, heldYt, heldFf, prime, queue, failed>>
  BY DEF DrainTick, FinishRun, procs
<1>2. n \in Nat /\ n <= runs /\ n # 0 BY Processes DEF IInv, Typed, Numbered, Proc
<1>3. ~Loose => /\ running /\ n = runs /\ i = heldFf /\ ff[i].state = "closed"
  BY <1>1, Draining
<1>4. i \in DOMAIN ff OBVIOUS
<1> HIDE DEF n
<1>5. Typed'
  <2>1. running' \in BOOLEAN /\ paused' \in BOOLEAN BY <1>1
  <2> QED BY <1>1, <1>2, <2>1 DEF IInv, Typed
<1>6. Numbered' BY <1>1, <1>2 DEF IInv, Numbered
<1>7. ASSUME Audio PROVE AudioRun'
  <2>1. running /\ n = runs /\ ff[heldFf].state = "closed" BY <1>3, <1>7 DEF Loose
  <2> QED BY <1>1, <1>7, <2>1 DEF IInv, AudioRun
<1>8. ASSUME ~Audio, ~stopped PROVE VideoRun'
  <2>1. VideoRun BY <1>8 DEF IInv
  <2>2. running /\ n = runs /\ i = heldFf /\ ff[i].state = "closed" BY <1>3, <1>8 DEF Loose
  <2>3. \A j \in DOMAIN ff : ff[j].state = "closed" BY <2>1, <2>2 DEF VideoRun
  <2>4. checks' = {} BY <1>1, <2>1 DEF VideoRun
  <2>5. open # {} => prime = "primed" BY <2>1, <2>2, <1>4 DEF VideoRun, n
  <2>6. ended' # 0 BY <1>1, <1>2
  <2> QED BY <1>1, <2>1, <2>3, <2>4, <2>5, <2>6 DEF VideoRun
<1>9. Frames' BY <1>1 DEF Frames
<1>10. Audio' <=> Audio BY <1>1 DEF Audio
<1> QED BY <1>1, <1>5, <1>6, <1>7, <1>8, <1>9, <1>10 DEF IInv

LEMMA StutterKeeps ==
  ASSUME IInv, UNCHANGED vars
  PROVE  IInv'
<1>1. /\ UNCHANGED <<kind, running, paused, runs, current, stopped, yt, open, ff, heldYt, heldFf, prime,
                     queue, checks, drainCheck, ended, failed>>
  BY DEF vars
<1>2. Frames => Frames' BY <1>1 DEF Frames
<1> QED BY <1>1, <1>2, QuietKeeps DEF IInv, Typed

LEMMA InductiveInv == IInv /\ [Next]_vars => IInv'
<1> SUFFICES ASSUME IInv, [Next]_vars PROVE IInv' OBVIOUS
<1>1. CASE Stop BY <1>1, StopKeeps
<1>2. CASE Pause BY <1>2, PauseKeeps
<1>3. CASE FrameTick BY <1>3, FrameTickKeeps
<1>4. ASSUME NEW r \in Runs, Start(r) \/ Seek(r) \/ YtdlpExits(r) \/ YtdlpData(r) \/ YtdlpEnds(r)
      PROVE  IInv'
  BY <1>4, StartKeeps, SeekKeeps, YtdlpExitsKeeps, YtdlpDataKeeps, YtdlpEndsKeeps
<1>5. ASSUME NEW i \in DOMAIN ff, FfmpegData(i) \/ FfmpegCloses(i) \/ DrainTick(i)
      PROVE  IInv'
  BY <1>5, FfmpegDataKeeps, FfmpegClosesKeeps, DrainTickKeeps
<1>6. CASE UNCHANGED vars BY <1>6, StutterKeeps
<1> QED BY <1>1, <1>2, <1>3, <1>4, <1>5, <1>6 DEF Next

LEMMA Invariant == Spec => []IInv
<1>1. Init => IInv BY InitInv
<1>2. IInv /\ [Next]_vars => IInv' BY InductiveInv
<1> QED BY <1>1, <1>2, PTL DEF Spec

\* A process that nobody has told to end is one that stop() would still reach: in the
\* audio pipeline always, as a run has one ffmpeg and a new run replaces none that is
\* up; in the video pipeline as long as nothing is loose.
THEOREM ProcessesStayHeld == Spec => []ProcessesAreHeld
<1>1. IInv => ProcessesAreHeld
  <2> SUFFICES ASSUME IInv, NEW i \in DOMAIN ff, ff[i].state = "up", ~Loose
               PROVE  i = heldFf
    BY DEF ProcessesAreHeld
  <2>1. CASE Audio BY <2>1 DEF IInv, AudioRun
  <2>2. CASE ~Audio BY <2>2 DEF IInv, Loose, VideoRun
  <2> QED BY <2>1, <2>2
<1> QED BY <1>1, Invariant, PTL

-----------------------------------------------------------------------------
(* Every step is one of TrackPlayer, or a stutter                           *)

LEMMA LooseStays ==
  ASSUME Next, Loose
  PROVE  Loose'
<1>1. kind' = kind /\ (stopped => stopped')
  <2>1. CASE Stop BY <2>1 DEF Stop
  <2>2. CASE Pause BY <2>2 DEF Pause
  <2>3. CASE FrameTick BY <2>3 DEF FrameTick, state
  <2>4. ASSUME NEW r \in Runs, Start(r) \/ Seek(r) PROVE kind' = kind /\ (stopped => stopped')
    BY <2>4 DEF Start, Seek, Begun
  <2>5. ASSUME NEW r \in Runs, YtdlpExits(r) \/ YtdlpData(r) \/ YtdlpEnds(r)
        PROVE  kind' = kind /\ (stopped => stopped')
    BY <2>5 DEF YtdlpExits, YtdlpData, YtdlpEnds, state
  <2>6. ASSUME NEW i \in DOMAIN ff, FfmpegData(i) \/ FfmpegCloses(i) \/ DrainTick(i)
        PROVE  kind' = kind /\ (stopped => stopped')
    BY <2>6 DEF FfmpegData, FfmpegCloses, DrainTick, state
  <2> QED BY <2>1, <2>2, <2>3, <2>4, <2>5, <2>6 DEF Next
<1> QED BY <1>1 DEF Loose, Audio

\* The run that TrackPlayer sees.
LEMMA RunOfPlayer ==
  ASSUME IInv
  PROVE  (IF running THEN runs ELSE 0) # 0 <=> running
BY DEF IInv, Typed, Numbered

\* A new run is a Start, whatever was before it.
LEMMA BegunMaps ==
  ASSUME IInv, NEW r, NEW STATE oldYt, NEW STATE old, Begun(r, oldYt, old), Found(old),
         Audio => heldFf' = Len(ff) + 1,
         ~Audio => heldFf' \in {0, heldFf}
  PROVE  Player!Next
<1>1. /\ r = runs + 1 /\ r \in Runs /\ running' = TRUE /\ paused' = FALSE /\ failed' = FALSE
      /\ runs' = r /\ stopped' = (stopped \/ Leftovers) /\ UNCHANGED <<kind, ended, heard>>
      /\ ff' = IF Audio THEN Append(old, Ffmpeg(r, r)) ELSE old
  BY DEF Begun
<1>2. r \in Nat /\ runs \in Nat /\ runs < r
  BY <1>1 DEF IInv, Typed
<1>3. ~Exhausted'
  <2>1. CASE Audio
    <3> DEFINE p == Ffmpeg(r, r)
    <3>1. ff' = Append(old, p) /\ old \in Seq(Proc) /\ Len(old) = Len(ff) BY <1>1, <2>1 DEF Found
    <3>2. p \in Proc /\ p.state = "up" BY <1>2 DEF Ffmpeg, Proc
    <3> HIDE DEF p
    <3>3. ff'[heldFf'] = p BY <2>1, <3>1, <3>2, Spawned
    <3> QED BY <3>2, <3>3 DEF Exhausted
  <2>2. CASE ~Audio
    <3> SUFFICES ASSUME heldFf' # 0 PROVE ff'[heldFf'].run # r BY <1>1 DEF Exhausted
    <3>1. heldFf' \in DOMAIN ff BY <2>2, Processes DEF IInv
    <3>2. ff'[heldFf'].run = ff[heldFf'].run BY <1>1, <2>2, <3>1 DEF Found
    <3>3. ff[heldFf'].run \in 1 .. runs BY <3>1 DEF IInv, Numbered
    <3> QED BY <1>2, <3>2, <3>3
  <2> QED BY <2>1, <2>2
<1>4. Loose => Loose' BY <1>1 DEF Loose, Audio
<1>5. Player!Start(r) BY <1>1, <1>3, <1>4 DEF Player!Start
<1>6. r \in 1 .. MaxRuns /\ r > (IF running THEN runs ELSE 0) BY <1>1, <1>2 DEF Runs
<1> QED BY <1>5, <1>6 DEF Player!Next

LEMMA StartMaps ==
  ASSUME IInv, NEW r \in Runs, Start(r)
  PROVE  Player!Next
<1>1. /\ ~running /\ Begun(r, yt, ff)
      /\ heldFf' = IF Audio THEN Len(ff) + 1 ELSE heldFf
  BY DEF Start
<1>2. Found(ff)
  <2>1. Audio => \A i \in DOMAIN ff : ff[i].state # "up"
    BY <1>1, Processes DEF IInv, AudioRun
  <2> QED BY <2>1 DEF Found, IInv, Typed
<1> QED BY <1>1, <1>2, BegunMaps

LEMMA SeekMaps ==
  ASSUME IInv, NEW r \in Runs, Seek(r)
  PROVE  Player!Next
<1>1. /\ Begun(r, KilledYt, KilledFf)
      /\ heldFf' = IF Audio THEN Len(ff) + 1 ELSE 0
  BY DEF Seek
<1>2. Audio => \A i \in DOMAIN ff : ff[i].state = "up" => i = heldFf BY DEF IInv, AudioRun
<1>3. Found(KilledFf) BY <1>2, Killing DEF IInv, Found
<1> QED BY <1>1, <1>3, BegunMaps

LEMMA StopMaps ==
  ASSUME IInv, Stop
  PROVE  Player!Next
<1>1. /\ running' = FALSE /\ paused' = FALSE /\ failed' = FALSE
      /\ stopped' = (stopped \/ Leftovers) /\ UNCHANGED <<kind, heard, ended>>
  BY DEF Stop, Reset
<1>2. Loose => Loose' BY <1>1 DEF Loose, Audio
<1>3. ~Exhausted' BY <1>1 DEF Exhausted
<1>4. Player!Stop BY <1>1, <1>2, <1>3 DEF Player!Stop
<1> QED BY <1>4 DEF Player!Next

LEMMA PauseMaps ==
  ASSUME IInv, Pause
  PROVE  Player!Next
<1>1. /\ running /\ paused' = ~paused
      /\ UNCHANGED <<kind, running, runs, stopped, ff, heldFf, queue, heard, ended, failed>>
  BY DEF Pause, procs, media, ends
<1>2. (IF running THEN runs ELSE 0) # 0 BY <1>1, RunOfPlayer
<1>3. Exhausted' = Exhausted BY <1>1 DEF Exhausted
<1>4. Loose' = Loose BY <1>1 DEF Loose, Audio
<1>5. Player!Pause BY <1>1, <1>2, <1>3, <1>4 DEF Player!Pause
<1> QED BY <1>5 DEF Player!Next

LEMMA FrameTickMaps ==
  ASSUME IInv, ~Loose, FrameTick
  PROVE  Player!Next
<1>1. /\ ~paused /\ queue # <<>> /\ heard' = Head(queue)
      /\ UNCHANGED <<kind, running, paused, runs, stopped, ended, failed>>
  BY DEF FrameTick, EmitFrame, state, ends
<1>2. running /\ \A j \in 1 .. Len(queue) : queue[j] = runs BY <1>1 DEF IInv, Frames
<1>3. Head(queue) = queue[1] /\ 1 \in 1 .. Len(queue)
  <2>1. queue \in Seq(Nat) BY DEF IInv, Typed
  <2>2. Head(queue) = queue[1] BY <1>1, <2>1, HeadTailProperties
  <2>3. Len(queue) \in Nat /\ Len(queue) # 0 BY <1>1, <2>1, EmptySeq, LenProperties
  <2> QED BY <2>2, <2>3
<1>4. heard' = runs BY <1>1, <1>2, <1>3
<1>5. (IF running THEN runs ELSE 0) # 0 BY <1>2, RunOfPlayer
<1>6. Loose' = Loose BY <1>1 DEF Loose, Audio
<1>7. Player!Frame BY <1>1, <1>2, <1>4, <1>5, <1>6 DEF Player!Frame
<1> QED BY <1>7 DEF Player!Next

\* A step that leaves the run as it is, and perhaps reports an error.
LEMMA ReportMaps ==
  ASSUME IInv, UNCHANGED <<kind, running, paused, runs, stopped, heard, ended>>,
         Exhausted' = Exhausted,
         \/ UNCHANGED failed
         \/ failed' = TRUE /\ (running \/ ended # 0)
  PROVE  Player!Next \/ UNCHANGED Player!vars
<1>1. Loose' = Loose BY DEF Loose, Audio
<1>2. CASE failed' = failed BY <1>1, <1>2 DEF Player!vars
<1>3. CASE failed' # failed
  <2>1. failed = FALSE /\ failed' = TRUE BY <1>3 DEF IInv, Typed
  <2>2. (IF running THEN runs ELSE 0) # 0 \/ ended # 0 BY <1>3, RunOfPlayer
  <2>3. Player!Fail BY <1>1, <2>1, <2>2 DEF Player!Fail
  <2> QED BY <2>3 DEF Player!Next
<1> QED BY <1>2, <1>3

\* In the audio pipeline a run whose events are heeded plays or has ended.
LEMMA HeededAudio ==
  ASSUME IInv, Audio, NEW r, r # 0, Heeds(r)
  PROVE  running \/ ended # 0
BY DEF IInv, Typed, Numbered, AudioRun, Heeds

LEMMA YtdlpExitsMaps ==
  ASSUME IInv, ~Loose, NEW r \in Runs, YtdlpExits(r)
  PROVE  Player!Next \/ UNCHANGED Player!vars
<1>1. /\ ExitOf(r) /\ yt[r] \in {"up", "killed"}
      /\ UNCHANGED <<kind, running, paused, runs, stopped, ff, heldFf, queue, heard, ended>>
  BY DEF YtdlpExits, state, media, ends
<1>2. Exhausted' = Exhausted BY <1>1 DEF Exhausted
<1>3. Heeds(r) => running \/ ended # 0
  <2>1. CASE Audio
    <3>1. r # 0 BY DEF Runs
    <3> QED BY <2>1, <3>1, HeededAudio
  <2>2. CASE ~Audio BY <1>1, <2>2 DEF IInv, Typed, Loose, VideoRun
  <2> QED BY <2>1, <2>2
<1>4. UNCHANGED failed \/ (failed' = TRUE /\ (running \/ ended # 0))
  BY <1>1, <1>3 DEF ExitOf, EmitProcessFailure
<1> QED BY <1>1, <1>2, <1>4, ReportMaps

\* What yt-dlp puts out starts ffmpeg at most.
LEMMA FedMaps ==
  ASSUME IInv, ~Loose, NEW r \in open,
         \/ UNCHANGED <<ff, heldFf>>
         \/ ~Audio /\ prime # "primed" /\ SpawnFfmpeg(r),
         UNCHANGED <<kind, running, paused, runs, stopped, queue, heard, ended, failed>>
  PROVE  UNCHANGED Player!vars
<1>1. Loose' = Loose BY DEF Loose, Audio
<1>2. Exhausted' = Exhausted
  <2>1. CASE UNCHANGED <<ff, heldFf>> BY <2>1 DEF Exhausted
  <2>2. CASE ~Audio /\ prime # "primed" /\ SpawnFfmpeg(r)
    <3>1. ~Exhausted
      <4>1. \A i \in DOMAIN ff : ff[i].run # runs BY <2>2 DEF IInv, Loose, VideoRun
      <4> QED BY <4>1, Processes DEF Exhausted, IInv
    <3>2. ~Exhausted'
      <4> DEFINE p == Ffmpeg(r, heldYt)
      <4>1. ff' = Append(ff, p) /\ heldFf' = Len(ff) + 1 BY <2>2 DEF SpawnFfmpeg
      <4>2. p \in Proc /\ p.state = "up"
        BY DEF IInv, Typed, Numbered, Ffmpeg, Proc
      <4> HIDE DEF p
      <4>3. ff \in Seq(Proc) BY DEF IInv, Typed
      <4>4. ff'[heldFf'] = p BY <4>1, <4>2, <4>3, Spawned
      <4> QED BY <4>2, <4>4 DEF Exhausted
    <3> QED BY <3>1, <3>2 DEF Exhausted
  <2> QED BY <2>1, <2>2
<1> QED BY <1>1, <1>2 DEF Player!vars

LEMMA FfmpegDataMaps ==
  ASSUME IInv, ~Loose, NEW i \in DOMAIN ff, FfmpegData(i)
  PROVE  UNCHANGED Player!vars
<1>1. /\ ff[i].state # "closed" /\ Heeds(ff[i].run) /\ queue' = Append(queue, ff[i].run)
      /\ UNCHANGED <<kind, running, paused, runs, stopped, ff, heldFf, heard, ended, failed>>
  BY DEF FfmpegData, Enqueue, state, procs, ends
<1>2. i = heldFf BY <1>1, Playing
<1>3. ~Exhausted BY <1>1, <1>2 DEF Exhausted
<1>4. queue' # <<>>
  <2> DEFINE n == ff[i].run
  <2>1. queue \in Seq(Nat) /\ n \in Nat BY Processes DEF IInv, Typed, Proc
  <2>2. queue' = Append(queue, n) BY <1>1
  <2> HIDE DEF n
  <2> QED BY <2>1, <2>2, AppendProperties
<1>5. ~Exhausted' BY <1>4 DEF Exhausted
<1>6. Loose' = Loose BY <1>1 DEF Loose, Audio
<1>7. Exhausted' = Exhausted BY <1>3, <1>5 DEF Exhausted
<1> QED BY <1>1, <1>6, <1>7 DEF Player!vars

\* ffmpeg i closes: the source of its run is exhausted, or nothing happens, or an
\* error is reported.
LEMMA FfmpegClosesMaps ==
  ASSUME IInv, ~Loose, NEW i \in DOMAIN ff, FfmpegCloses(i)
  PROVE  Player!Next \/ UNCHANGED Player!vars
<1>1. /\ ff[i].state # "closed" /\ ff' = [ff EXCEPT ![i].state = "closed"] /\ ExitOf(ff[i].run)
      /\ UNCHANGED <<kind, running, paused, runs, stopped, heldFf, queue, heard, ended>>
  BY DEF FfmpegCloses, state, media
<1>2. Heeds(ff[i].run) => running
  BY <1>1, Playing
<1>3. UNCHANGED failed \/ (failed' = TRUE /\ running)
  BY <1>1, <1>2 DEF ExitOf, EmitProcessFailure
<1>4. CASE Exhausted'
  <2>1. running BY <1>1, <1>4 DEF Exhausted
  <2>2. (IF running THEN runs ELSE 0) # 0 BY <2>1, RunOfPlayer
  <2>3. Loose' = Loose BY <1>1 DEF Loose, Audio
  <2>4. failed => failed' BY <1>3
  <2>5. Player!Exhaust BY <1>1, <1>4, <2>2, <2>3, <2>4 DEF Player!Exhaust
  <2> QED BY <2>5 DEF Player!Next
<1>5. CASE ~Exhausted'
  <2>1. ~Exhausted
    <3> SUFFICES ASSUME Exhausted PROVE FALSE OBVIOUS
    <3>1. heldFf \in DOMAIN ff /\ i # heldFf BY <1>1, Processes DEF Exhausted, IInv
    <3>2. ff'[heldFf] = ff[heldFf] BY <1>1, <3>1
    <3>3. Exhausted' BY <1>1, <3>2 DEF Exhausted
    <3> QED BY <1>5, <3>3
  <2>2. Exhausted' = Exhausted BY <1>5, <2>1 DEF Exhausted
  <2> QED BY <1>1, <1>3, <2>2, ReportMaps
<1> QED BY <1>4, <1>5

LEMMA DrainTickMaps ==
  ASSUME IInv, ~Loose, NEW i \in DOMAIN ff, DrainTick(i)
  PROVE  Player!Next
<1>1. /\ i \in checks /\ Heeds(ff[i].run) /\ queue = <<>> /\ (Audio => ended # ff[i].run)
      /\ running' = FALSE /\ paused' = FALSE /\ ended' = ff[i].run
      /\ UNCHANGED <<kind, runs, stopped, ff, heldFf, heard, failed>>
  BY DEF DrainTick, FinishRun, procs
<1>2. running /\ ff[i].run = runs /\ i = heldFf /\ ff[i].state = "closed"
  BY <1>1, Draining
<1>3. i # 0 BY Processes DEF IInv
<1>4. Exhausted BY <1>1, <1>2, <1>3 DEF Exhausted
<1>5. ~Exhausted' BY <1>1 DEF Exhausted
<1>6. Loose' = Loose BY <1>1 DEF Loose, Audio
<1>7. runs # 0 /\ ended # runs BY <1>2 DEF IInv, Numbered
<1>8. Player!End BY <1>1, <1>2, <1>4, <1>5, <1>6, <1>7 DEF Player!End
<1> QED BY <1>8 DEF Player!Next

LEMMA StepMaps ==
  ASSUME IInv, [Next]_vars
  PROVE  [Player!Next]_(Player!vars)
<1>1. CASE UNCHANGED vars
  <2>1. UNCHANGED <<kind, running, paused, runs, stopped, ff, heldFf, queue, heard, ended, failed>>
    BY <1>1 DEF vars
  <2>2. Exhausted' = Exhausted BY <2>1 DEF Exhausted
  <2>3. Loose' = Loose BY <2>1 DEF Loose, Audio
  <2> QED BY <2>1, <2>2, <2>3 DEF Player!vars
<1>2. CASE Next /\ Loose
  <2>1. Player!Anything BY <1>2, LooseStays DEF Player!Anything
  <2> QED BY <2>1 DEF Player!Next
<1>3. CASE Next /\ ~Loose
  <2>1. CASE Stop BY <2>1, StopMaps
  <2>2. CASE Pause BY <2>2, PauseMaps
  <2>3. CASE FrameTick BY <1>3, <2>3, FrameTickMaps
  <2>4. ASSUME NEW r \in Runs, Start(r) \/ Seek(r) PROVE Player!Next
    BY <2>4, StartMaps, SeekMaps
  <2>5. ASSUME NEW r \in Runs, YtdlpExits(r) PROVE Player!Next \/ UNCHANGED Player!vars
    BY <1>3, <2>5, YtdlpExitsMaps
  <2>6. ASSUME NEW r \in Runs, YtdlpData(r) PROVE UNCHANGED Player!vars
    <3>1. /\ ~Audio /\ r \in open /\ prime # "primed"
          /\ UNCHANGED <<ff, heldFf>> \/ SpawnFfmpeg(r)
          /\ UNCHANGED <<kind, running, paused, runs, stopped, queue, heard, ended, failed>>
      BY <2>6 DEF YtdlpData, state, ends
    <3> QED BY <1>3, <3>1, FedMaps
  <2>7. ASSUME NEW r \in Runs, YtdlpEnds(r) PROVE UNCHANGED Player!vars
    <3>1. /\ r \in open
          /\ UNCHANGED <<ff, heldFf>> \/ (~Audio /\ prime = "some" /\ SpawnFfmpeg(r))
          /\ UNCHANGED <<kind, running, paused, runs, stopped, queue, heard, ended, failed>>
      BY <2>7 DEF YtdlpEnds, state, ends
    <3> QED BY <1>3, <3>1, FedMaps
  <2>8. ASSUME NEW i \in DOMAIN ff, FfmpegData(i) \/ FfmpegCloses(i) \/ DrainTick(i)
        PROVE  Player!Next \/ UNCHANGED Player!vars
    BY <1>3, <2>8, FfmpegDataMaps, FfmpegClosesMaps, DrainTickMaps
  <2> QED BY <1>3, <2>1, <2>2, <2>3, <2>4, <2>5, <2>6, <2>7, <2>8 DEF Next
<1> QED BY <1>1, <1>2, <1>3

\* A pipeline keeps what TrackPlayer promises to its bot: frames are those of the run
\* that plays, a run ends once and only when its source is exhausted, a stopped run does
\* not end - however the leftovers of earlier runs are interleaved in the audio pipeline,
\* and in the video pipeline until a run is stopped before its processes are gone.
THEOREM ImplementsTrackPlayer == Spec => ImplementsPlayer
<1>1. Init => Player!Init
  <2> SUFFICES ASSUME Init PROVE Player!Init OBVIOUS
  <2>1. running = FALSE /\ paused = FALSE /\ heard = 0 /\ ended = 0 /\ failed = FALSE /\ stopped = FALSE
    BY DEF Init
  <2>2. ~Exhausted /\ ~Loose BY <2>1 DEF Exhausted, Loose
  <2> QED BY <2>1, <2>2 DEF Player!Init
<1>2. IInv /\ [Next]_vars => [Player!Next]_(Player!vars) BY StepMaps
<1> QED BY <1>1, <1>2, Invariant, PTL DEF Spec, ImplementsPlayer, Player!Spec
=============================================================================
