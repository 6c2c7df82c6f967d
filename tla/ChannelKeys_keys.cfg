\* Two keys, two versions, two operations in flight and one message; two tabs,
\* two phrases and two turns.  Clients and tabs may all be idle.
CONSTANTS
    User    = {u1, u2}
    Owner   = u1
    Key     = {ka, kb}
    NoKey   = NoKey
    Slot    = {k1, k2}
    MaxVersion = 2
    Rotator = {u1}
    Told    = {u1}
    Leaver  = {u2}
    MaxMessages = 1
    Tab = {k1, k2}
    Phrase = {ka, kb}
    Random = {r1, r2}
    Old = old
    None = none
    MaxTurns = 2
SPECIFICATION MCSpec
SYMMETRY Sym
INVARIANTS VersionHasKey KeysOnlyForMembers OwnMessagesReadable SentKeysReachable
    SetupsMend ManagersAreWhole RowsFitTheirDevices
CHECK_DEADLOCK FALSE
