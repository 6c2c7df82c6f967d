\* Two sessions of a room, three items.  A room may be left without a bot.
CONSTANTS
    Session   = {s1, s2}
    NoSession = NoSession
    Item      = {a, b, c}
    Repeated  = {}
    MaxQueue  = 3
SPECIFICATION FairSpec
INVARIANTS MapHoldsTheLiveOne ShowsWhatPlays SilentAfterIgnoredEnd
PROPERTIES StartsAreAnswered
CHECK_DEADLOCK FALSE
