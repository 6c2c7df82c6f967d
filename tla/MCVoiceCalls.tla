---------------------------- MODULE MCVoiceCalls ----------------------------
(* VoiceCalls for TLC, in two scenes: members switch rooms, and the PeerJS   *)
(* server stays; it may be lost, and nobody switches.                        *)
EXTENDS VoiceCalls, TLC

VARIABLE scene
MCvars == <<vars, scene>>

Scene(s) ==
    /\ s = "rooms"  => \A c \in Browser : peer[c] # "lost"
    /\ s = "server" => /\ DOMAIN calls \subseteq {1, 2} /\ \A c \in Browser : place[c] # "away"

MCInit == scene \in {"rooms", "server"} /\ Init
MCNext == Next /\ UNCHANGED scene /\ Scene(scene)'
MCSpec == MCInit /\ [][MCNext]_MCvars

\* Browsers differ by name only.
Symmetry == Permutations(Browser)
=============================================================================
