CONSTANTS
  Tasks = {t1, t2}
  None = none
SPECIFICATION Spec
INVARIANT WatcherSurvives
CHECK_DEADLOCK FALSE
