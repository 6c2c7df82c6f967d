----------------------------- MODULE Pipelines -----------------------------
(***************************************************************************)
(* One pipeline of a bot: AudioPipeline or AVPipeline, yt-dlp feeding       *)
(* ffmpeg feeding a queue of frames that a timer empties.  A stop kills the *)
(* processes and does not wait for them, so that their last output, exits   *)
(* and closes are handled in the middle of the next run.  The audio         *)
(* pipeline compares run numbers; the video pipeline has none, and starts   *)
(* ffmpeg only when it has the first bytes of yt-dlp.  Video frames follow  *)
(* the clock of the audio frames and are left out.                          *)
(***************************************************************************)
EXTENDS Naturals, Sequences, FiniteSets

CONSTANTS Kinds,    \* the pipelines to look at: "audio", "av"
          MaxRuns,  \* bound: calls of start
          MaxProcs, \* bound: ffmpeg processes
          QueueLen  \* bound: frames in the queue

ASSUME KindsAssumption == Kinds \subseteq {"audio", "av"}
ASSUME BoundsAssumption == MaxRuns \in Nat

VARIABLES
  kind,       \* the class of the pipeline
  running, paused,
  runs,       \* calls of start so far
  current,    \* the run whose number is runId, 0 after a stop (audio)
  yt,         \* the yt-dlp process of each run
  open,       \* the runs whose yt-dlp has not closed its output
  ff,         \* the ffmpeg processes, each of the run whose handlers it has
  heldYt,     \* this.ytdlp, by run
  heldFf,     \* this.ffmpeg, by number
  prime,      \* _ytdlpPrimeBuffer and _ytdlpPrimed (video)
  queue,      \* audioQueue: the run each frame came from
  framed,     \* _frameCount > 0
  ticking,    \* the frame timer runs
  checks,     \* the drain intervals that run, by ffmpeg number
  drainCheck, \* the one the field holds
  failed,     \* failureEmitted
  heard,      \* the run of the last frame emitted
  ended,      \* the last run that ended
  stopped,    \* a run was stopped or replaced before its processes were gone
  crashed     \* an exception in an event handler ended the service

vars == <<kind, running, paused, runs, current, yt, open, ff, heldYt, heldFf, prime, queue, framed,
          ticking, checks, drainCheck, failed, heard, ended, stopped, crashed>>
media == <<queue, framed, ticking, heard>>
procs == <<yt, open, ff, heldYt, heldFf, prime>>
ends == <<checks, drainCheck, ended>>
state == <<running, paused, runs, current, stopped>>

Audio == kind = "audio"
Runs == 1 .. MaxRuns

\* Mutant: no handler compares the run.
HeedsAll(r) == ~crashed

\* "if (runId !== this.runId) return": the video pipeline has no such line.
Heeds(r) == ~crashed /\ (Audio => r = current)

-----------------------------------------------------------------------------
\* The ffmpeg process with the handlers of run r, fed by the held yt-dlp.
Ffmpeg(r, feed) == [run |-> r, feed |-> feed, state |-> "up"]

\* Processes that the pipeline holds are told to end.
KilledYt == [r \in Runs |-> IF r = heldYt /\ yt[r] = "up" THEN "killed" ELSE yt[r]]
KilledFf == [i \in DOMAIN ff |->
               IF i = heldFf /\ ff[i].state = "up" THEN [ff[i] EXCEPT !.state = "killed"] ELSE ff[i]]

\* Whether events of an earlier run may still come.
Leftovers == \/ open # {} \/ checks \ {drainCheck} # {}
             \/ \E r \in Runs : yt[r] \in {"up", "killed"}
             \/ \E i \in DOMAIN ff : ff[i].state # "closed"

\* A new run, on the processes that "oldYt" and "oldFf" give: flags are reset,
\* and yt-dlp is spawned, with ffmpeg in the audio pipeline.
Begun(r, oldYt, oldFf) ==
  /\ r = runs + 1 /\ r \in Runs
  /\ running' = TRUE /\ paused' = FALSE /\ runs' = r /\ current' = r
  /\ yt' = [oldYt EXCEPT ![r] = "up"] /\ open' = open \cup {r} /\ heldYt' = r
  /\ framed' = FALSE /\ failed' = FALSE
  /\ ticking' = Audio
  /\ ff' = IF Audio THEN Append(oldFf, Ffmpeg(r, r)) ELSE oldFf
  /\ prime' = "empty"
  /\ stopped' = (stopped \/ Leftovers)
  /\ UNCHANGED <<kind, heard, ended, crashed>>

\* start()
Start(r) ==
  /\ ~crashed /\ ~running
  /\ Begun(r, yt, ff)
  /\ heldFf' = IF Audio THEN Len(ff) + 1 ELSE heldFf
  /\ queue' = IF Audio THEN queue ELSE <<>>
  /\ UNCHANGED <<checks, drainCheck>>

\* stop(): the audio pipeline has nothing to stop when it does not run.
Stoppable == running \/ (~Audio /\ (heldYt # 0 \/ heldFf # 0))
Reset == /\ running' = FALSE /\ paused' = FALSE /\ framed' = FALSE /\ failed' = FALSE
         /\ ticking' = FALSE /\ queue' = <<>> /\ prime' = "empty"
         /\ checks' = checks \ {drainCheck} /\ drainCheck' = 0
Stop ==
  /\ ~crashed /\ Stoppable
  /\ Reset /\ current' = 0
  /\ yt' = KilledYt /\ ff' = KilledFf /\ heldYt' = 0 /\ heldFf' = 0
  /\ stopped' = (stopped \/ Leftovers)
  /\ UNCHANGED <<kind, runs, open, heard, ended, crashed>>

\* seek(ms): stop, then start.
Seek(r) ==
  /\ ~crashed /\ Stoppable
  /\ Begun(r, KilledYt, KilledFf)
  /\ queue' = <<>>
  /\ heldFf' = IF Audio THEN Len(ff) + 1 ELSE 0
  /\ checks' = checks \ {drainCheck} /\ drainCheck' = 0

\* pause() and resume()
Pause ==
  /\ ~crashed /\ running
  /\ paused' = ~paused
  /\ UNCHANGED <<kind, running, runs, current, stopped, procs, media, ends, failed, crashed>>

\* An error that is reported once per run.
EmitProcessFailure == failed' = TRUE

\* A process of run r exits, well or badly; a bad exit before the first frame
\* is an error.
ExitOf(r) == UNCHANGED failed \/ (Heeds(r) /\ ~framed /\ EmitProcessFailure)

\* yt-dlp exits.
YtdlpExits(r) ==
  /\ ~crashed /\ yt[r] \in {"up", "killed"}
  /\ yt' = [yt EXCEPT ![r] = "gone"]
  /\ ExitOf(r)
  /\ UNCHANGED <<kind, state, open, ff, heldYt, heldFf, prime, media, ends, crashed>>

\* _spawnFfmpeg: the process becomes this.ffmpeg, and the frame timer starts.
SpawnFfmpeg(r) ==
  /\ Len(ff) < MaxProcs
  /\ ff' = Append(ff, Ffmpeg(r, heldYt))
  /\ heldFf' = Len(ff) + 1
  /\ ticking' = TRUE

\* yt-dlp's first bytes (video): some, or enough to prime.  With enough of them
\* the handler pauses this.ytdlp, whichever process that is.
YtdlpData(r) ==
  /\ ~crashed /\ ~Audio /\ r \in open /\ prime # "primed"
  /\ \/ prime' = "some" /\ UNCHANGED <<ff, heldFf, ticking, crashed>>
     \/ heldYt # 0 /\ prime' = "primed" /\ SpawnFfmpeg(r) /\ UNCHANGED crashed
     \/ heldYt = 0 /\ prime' = "primed" /\ crashed' = TRUE /\ UNCHANGED <<ff, heldFf, ticking>>
  /\ UNCHANGED <<kind, state, yt, open, heldYt, queue, framed, heard, ends, failed>>

\* yt-dlp's output ends; the video pipeline makes do with what it has.
YtdlpEnds(r) ==
  /\ ~crashed /\ r \in open /\ yt[r] # "up"
  /\ open' = open \ {r}
  /\ IF ~Audio /\ prime = "some"
     THEN prime' = "primed" /\ SpawnFfmpeg(r)
     ELSE UNCHANGED <<prime, ff, heldFf, ticking>>
  /\ UNCHANGED <<kind, state, yt, heldYt, queue, framed, heard, ends, failed, crashed>>

Enqueue(r) == Heeds(r) /\ Len(queue) < QueueLen /\ queue' = Append(queue, r)

\* ffmpeg i puts out a frame.
FfmpegData(i) ==
  /\ ff[i].state # "closed" /\ Enqueue(ff[i].run)
  /\ UNCHANGED <<kind, state, procs, framed, ticking, heard, ends, failed, crashed>>

\* Mutant: nothing waits when the queue is empty already.
WaitForSome(i) ==
  IF Heeds(ff[i].run) /\ (Audio => running) /\ queue # <<>>
  THEN checks' = checks \cup {i} /\ drainCheck' = i
  ELSE UNCHANGED <<checks, drainCheck>>

\* An interval waits for the queue to drain: while the run plays, or always in
\* the video pipeline.
WaitForDrain(i) ==
  IF Heeds(ff[i].run) /\ (Audio => running)
  THEN checks' = checks \cup {i} /\ drainCheck' = i
  ELSE UNCHANGED <<checks, drainCheck>>

\* ffmpeg i closes.
FfmpegCloses(i) ==
  /\ ~crashed /\ ff[i].state # "closed"
  /\ ff' = [ff EXCEPT ![i].state = "closed"]
  /\ WaitForDrain(i)
  /\ ExitOf(ff[i].run)
  /\ UNCHANGED <<kind, state, yt, open, heldYt, heldFf, prime, media, ended, crashed>>

\* A frame leaves the queue and is emitted.
EmitFrame == queue' = Tail(queue) /\ heard' = Head(queue) /\ framed' = TRUE

\* The frame timer of a pipeline that is not paused.
FrameTick ==
  /\ ~crashed /\ ticking /\ ~paused /\ queue # <<>>
  /\ EmitFrame
  /\ UNCHANGED <<kind, state, procs, ticking, ends, failed, crashed>>

\* finishRun(r): once per run in the audio pipeline.  The interval that the
\* field holds is cleared, which need not be the one that ticked.
FinishRun(r) ==
  /\ Audio => ended # r
  /\ checks' = checks \ {drainCheck} /\ drainCheck' = 0
  /\ running' = FALSE /\ paused' = FALSE /\ ticking' = FALSE
  /\ ended' = r

\* The drain interval of ffmpeg i finds the queue empty.
DrainTick(i) ==
  /\ i \in checks /\ Heeds(ff[i].run) /\ queue = <<>>
  /\ FinishRun(ff[i].run)
  /\ UNCHANGED <<kind, runs, current, stopped, procs, queue, framed, heard, failed, crashed>>

-----------------------------------------------------------------------------
Init ==
  /\ kind \in Kinds /\ running = FALSE /\ paused = FALSE /\ runs = 0 /\ current = 0
  /\ yt = [r \in Runs |-> "none"] /\ open = {} /\ ff = <<>> /\ heldYt = 0 /\ heldFf = 0
  /\ prime = "empty" /\ queue = <<>> /\ framed = FALSE /\ ticking = FALSE
  /\ checks = {} /\ drainCheck = 0 /\ failed = FALSE /\ heard = 0 /\ ended = 0
  /\ stopped = FALSE /\ crashed = FALSE

\* ffmpeg ends when it is killed or its input has ended.
Done(i) == ff[i].state = "killed" \/ (ff[i].feed # 0 /\ ff[i].feed \notin open)

Next ==
  \/ Stop \/ Pause \/ FrameTick
  \/ \E r \in Runs : Start(r) \/ Seek(r) \/ YtdlpExits(r) \/ YtdlpData(r) \/ YtdlpEnds(r)
  \/ \E i \in DOMAIN ff : FfmpegData(i) \/ FfmpegCloses(i) \/ DrainTick(i)

\* Processes come to an end, and timers fire.  Nothing is promised of data.
Fairness ==
  /\ WF_vars(FrameTick)
  /\ \A r \in Runs : WF_vars(YtdlpExits(r)) /\ WF_vars(YtdlpEnds(r))
  /\ \A i \in 1 .. MaxProcs :
       /\ WF_vars(i \in DOMAIN ff /\ Done(i) /\ FfmpegCloses(i))
       /\ WF_vars(i \in DOMAIN ff /\ DrainTick(i))

Spec == Init /\ [][Next]_vars /\ Fairness

-----------------------------------------------------------------------------
TypeOK ==
  /\ kind \in Kinds /\ runs \in 0 .. MaxRuns /\ current \in 0 .. runs
  /\ yt \in [Runs -> {"none", "up", "killed", "gone"}] /\ open \subseteq Runs
  /\ \A i \in DOMAIN ff : ff[i] \in [run : Runs, feed : 0 .. MaxRuns, state : {"up", "killed", "closed"}]
  /\ heldYt \in 0 .. runs /\ heldFf \in 0 .. Len(ff) /\ prime \in {"empty", "some", "primed"}
  /\ checks \subseteq DOMAIN ff /\ drainCheck \in checks \cup {0}
  /\ \A j \in DOMAIN queue : queue[j] \in Runs

\* The pipeline keeps what TrackPlayer promises; the video pipeline as long as
\* no run was stopped before its processes were gone.
Loose == ~Audio /\ stopped
Exhausted == /\ running /\ queue = <<>> /\ heldFf # 0
             /\ ff[heldFf].run = runs /\ ff[heldFf].state = "closed"
Player == INSTANCE TrackPlayer WITH
  run <- IF running THEN runs ELSE 0,
  exhausted <- Exhausted,
  loose <- Loose
ImplementsPlayer == Player!Spec

\* A process that nobody has told to end is one the pipeline can still stop:
\* ffmpeg always is in the audio pipeline, and in the video pipeline until a
\* leftover of a stopped run has started one.
ProcessesAreHeld ==
  \A i \in DOMAIN ff : ff[i].state = "up" => i = heldFf \/ Loose

\* A track that plays does not play for ever: it ends or is stopped, or paused -
\* or, in the video pipeline, yt-dlp has ended without a byte and nothing was
\* started that could end.
Stuck == ~Audio /\ (Loose \/ \A i \in DOMAIN ff : ff[i].run # runs)
TracksEnd == []<>(~running \/ paused \/ crashed \/ Stuck)
=============================================================================
