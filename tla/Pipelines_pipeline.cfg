SPECIFICATION Spec
CONSTANTS
  Kinds = {"audio", "av"}
  MaxRuns = 2
  MaxProcs = 3
  QueueLen = 1
PROPERTIES
  ImplementsPlayer
  TracksEnd
CHECK_DEADLOCK FALSE
