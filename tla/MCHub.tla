------------------------------- MODULE MCHub -------------------------------
(* HubMembership and HubViews for TLC, in two scenes: requests change the    *)
(* members and channels, and no page is open; pages show the channels and    *)
(* messages of a hub whose members stay.  The part that a scene leaves out   *)
(* stands still in one of its initial states.                                *)
EXTENDS HubMembership, HubViews, TLC

VARIABLE scene
MCvars == <<vars, viewsVars, scene>>

MCInit ==
    /\ scene \in {"members", "views"} /\ Init /\ ViewsInit
    /\ scene = "members" => listed = {}

MCNext ==
    /\ UNCHANGED scene
    /\ \/ scene = "members" /\ Next /\ UNCHANGED viewsVars
       \/ scene = "views" /\ ViewsNext /\ UNCHANGED vars

MCSpec == MCInit /\ [][MCNext]_MCvars

\* Requests differ by name only, and so do pages and channels.  Requests and pages
\* are the same model values, as a scene has one of the two only.
Symmetry == Permutations(Requests) \cup Permutations(Channels)
=============================================================================
