---------------------------- MODULE MCChannelKeys ----------------------------
(* ChannelKeys and DeviceKeys for TLC, in three scenes: members encrypt,     *)
(* synchronise and top up, and nobody is removed; the owner rotates the key  *)
(* while a member comes and goes, and nobody sends; the tabs of one browser  *)
(* set up the device keys that the other two scenes start with.  The part    *)
(* that a scene leaves out stands still in one of its initial states.        *)
EXTENDS ChannelKeys, DeviceKeys, TLC

VARIABLE scene
MCvars == <<vars, deviceVars, scene>>

Kinds == {j.kind : j \in jobs'}

ChannelsNext ==
    /\ Next
    /\ scene = "sharing"  => removing' = {} /\ "rotate" \notin Kinds
    /\ scene = "rotation" => Kinds \subseteq {"rotate"}
    /\ UNCHANGED deviceVars

MCInit ==
    /\ scene \in {"sharing", "rotation", "devices"} /\ Init /\ DevicesInit
    /\ scene # "devices" => \A e \in Entry : db[e] = None

MCNext ==
    /\ UNCHANGED scene
    /\ \/ scene # "devices" /\ ChannelsNext
       \/ scene = "devices" /\ DevicesNext /\ UNCHANGED vars

MCSpec == MCInit /\ [][MCNext]_MCvars

\* Slots and tabs are the same model values, and so are keys and phrases, as a
\* scene has one of the two only.
Sym == Permutations(Slot) \cup Permutations(Key)
=============================================================================
