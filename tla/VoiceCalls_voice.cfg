SPECIFICATION MCSpec
CONSTANTS
  Browser = {b1, b2}
  Call = {1, 2, 3}
  NoCall = 0
  MaxTurns = 3
SYMMETRY Symmetry
INVARIANTS
  MembersHearEachOther
  HeldCallsStayInTheRoom
CHECK_DEADLOCK FALSE
