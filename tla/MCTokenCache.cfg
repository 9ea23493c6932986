CONSTANTS
  Requests = {r1, r2}
  None = none
  Timeout = 2
  Margin = 2
  Life = 5
  MaxTime = 7
  MaxMints = 3
SPECIFICATION FairSpec
INVARIANTS
  InFlightAlive
  CacheIsCautious
  RetryWithAnother
  OneMintAtATime
PROPERTY RequestsEnd
CHECK_DEADLOCK FALSE
