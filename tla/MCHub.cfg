SPECIFICATION MCSpec
CONSTANTS
  Users = {owner, u, bot}
  Owner = owner
  Bot = bot
  Names = {general, music}
  Invites = {i1}
  Requests = {r1, r2}
  MaxRows = 3
  MaxChannels = 2
  Pages = {r1, r2}
  Channels = {c1}
  Limit = 1
  MaxMessages = 2
  MaxLoads = 2
  MaxOpens = 2
  MaxLosses = 1
SYMMETRY Symmetry
INVARIANTS
  CreatedHubsAreOwned
  RemovalsFlagAll
  
  OpenHubsListen
CHECK_DEADLOCK FALSE
