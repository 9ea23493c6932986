CONSTANTS
  Intervals <- MCIntervals
  FirstInterval = 1
  MaxWords = 3
  MaxTime = 3
SPECIFICATION FairSpec
INVARIANTS
  CounterFollowsKorsi
  StoredInSpokenOrder
  NoOverlap
  Tiles
  NoUnexplainedHole
PROPERTIES
  StopCompletes
  Publishes
CHECK_DEADLOCK FALSE
