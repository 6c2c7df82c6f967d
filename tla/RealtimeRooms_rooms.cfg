\* Two joins in flight, on one socket or two; and one, with a host that may close
\* r1, the revalidation timer of s1, and its access, which comes and goes.
CONSTANTS
    Socket = {s1, s2}
    Room   = {r1, r2}
    NoRoom = NoRoom
    Slot   = {k1, k2}
    HostRoom = {r1}
    OldRoom  = {r1}
    Timed    = {s1}
    Sharer   = {s1}
    Revocable = {s1}
SPECIFICATION MCSpec
INVARIANTS
    NobodyListensUnseen MembersHear GhostsAreLateJoins PairsMeet
PROPERTY RevokedLeaves
\* A dead process takes no step.
CHECK_DEADLOCK FALSE
