-------------------------- MODULE MCRealtimeRooms --------------------------
(* RealtimeRooms for TLC, in two scenes: two joins at a time, with neither  *)
(* hosts nor changes of access; one join at a time, with everything.        *)
EXTENDS RealtimeRooms, FiniteSets

VARIABLE scene
MCvars == <<vars, scene>>

Joins  == owned' = {} /\ access' = access /\ recheck' = recheck /\ "aged" \notin {rooms'[r] : r \in Room}
Access == Cardinality(joins') <= 1 /\ \A j \in joins' : j.slot = CHOOSE k \in Slot : TRUE

MCNext ==
    /\ Next
    /\ scene = "joins"  => Joins
    /\ scene = "access" => Access
    /\ UNCHANGED scene

MCInit == scene \in {"joins", "access"} /\ Init
MCSpec == MCInit /\ [][MCNext]_MCvars /\ Fairness

=============================================================================
