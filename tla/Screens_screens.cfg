SPECIFICATION Spec
CONSTANTS
  Browser = {b1, b2}
  Bots = {v}
  Companies <- Few
  MaxTurns = 4
INVARIANTS
  
  NoFrozenShares
SYMMETRY Symmetry
CHECK_DEADLOCK FALSE
