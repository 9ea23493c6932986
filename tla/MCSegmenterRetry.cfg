CONSTANTS
  Intervals <- MCIntervals
  FirstInterval = 1
  MaxWords = 3
  MaxTime = 3
SPECIFICATION FairSpec
INVARIANT RetryHarmless
CHECK_DEADLOCK FALSE
