SPECIFICATION Spec
CONSTANTS
  Pages = {p1, p2}
  Voice = {v1, v2}
  Ephemeral = e
  MaxOpens = 3
  MaxJoins = 4
  MaxKeys = 2
INVARIANTS
  KeysAgree
  HoldersAnswer
SYMMETRY Symmetry
CHECK_DEADLOCK FALSE
