---------------------------- MODULE TrackPlayer ----------------------------
(***************************************************************************)
(* What a pipeline promises to the bot that uses it: a run is started or   *)
(* sought, its frames come while it plays and is not paused, and it ends    *)
(* once, by itself, when its source is exhausted - or is stopped, and then  *)
(* does not end.                                                            *)
(***************************************************************************)
EXTENDS Naturals

CONSTANT MaxRuns  \* bound: runs of one pipeline

VARIABLES run,       \* the number of the run that plays, 0 when none does
          paused,
          exhausted, \* the source has ended and all its frames were played
          heard,     \* the run of the last frame
          ended,     \* the last run that ended, 0 when none did
          failed,    \* an error was reported for this run
          loose      \* leftovers of a stopped run are not told apart

vars == <<run, paused, exhausted, heard, ended, failed, loose>>

Init == run = 0 /\ ~paused /\ ~exhausted /\ heard = 0 /\ ended = 0 /\ ~failed /\ ~loose

\* start, or seek, which replaces the run that plays.
Start(r) == /\ run' = r
            /\ paused' = FALSE /\ exhausted' = FALSE /\ failed' = FALSE /\ (loose => loose')
            /\ UNCHANGED <<heard, ended>>

Stop == /\ run' = 0
        /\ paused' = FALSE /\ exhausted' = FALSE /\ failed' = FALSE /\ (loose => loose')
        /\ UNCHANGED <<heard, ended>>

Pause == run # 0 /\ paused' = ~paused /\ UNCHANGED <<run, exhausted, heard, ended, failed, loose>>

Frame == /\ run # 0 /\ ~paused /\ heard' = run
         /\ UNCHANGED <<run, paused, ended, failed, loose>>

\* The source ends, perhaps with an error.
Exhaust == /\ run # 0 /\ exhausted' /\ (failed => failed')
           /\ UNCHANGED <<run, paused, heard, ended, loose>>

\* An error is reported, once for a run; the run may have ended by then.
Fail == /\ run # 0 \/ ended # 0
        /\ ~failed /\ failed'
        /\ UNCHANGED <<run, paused, exhausted, heard, ended, loose>>

\* The run ends: once, and only when its source is exhausted.
End == /\ run # 0 /\ exhausted /\ ended # run
       /\ ended' = run /\ run' = 0
       /\ paused' = FALSE /\ exhausted' = FALSE /\ UNCHANGED <<heard, failed, loose>>

\* Once leftovers are loose nothing is promised.
Anything == loose /\ loose'

Next == \/ \E r \in 1 .. MaxRuns : r > run /\ Start(r)
        \/ Stop \/ Pause \/ Frame \/ Exhaust \/ Fail \/ End \/ Anything

Spec == Init /\ [][Next]_vars
=============================================================================
