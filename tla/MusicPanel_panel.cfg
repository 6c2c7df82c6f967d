SPECIFICATION FairPanelsSpec
CONSTANTS
  Panel = {p1, p2}
  Slot = {1, 2}
  Session = {s1, s2}
  NoSession = NoSession
  Blank = Blank
  Face = {f1}
  Second = {0, 1}
  NoSecond = NoSecond
  MAX_QUEUE = 2
  MaxTurns = 2
INVARIANTS
  LosesSightOnlyByLateAnswers

  
CHECK_DEADLOCK FALSE
