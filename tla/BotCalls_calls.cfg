SPECIFICATION Spec
CONSTANTS
  Clients = {p1, p2}
  Larger = {p2}
  Steady = {p2}
  MaxRetries = 1
  MaxJoins = 1
  IdLimit = 5
INVARIANTS
  ConnectedAreServed
CHECK_DEADLOCK FALSE
PROPERTIES
  CrossingCallsMeet
