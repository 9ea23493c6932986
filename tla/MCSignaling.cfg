CONSTANTS
  Tasks = {t1, t2, t3}
  None = none
SPECIFICATION FairSpec
INVARIANTS
  DeafIsDefunct
PROPERTIES
  LossIsNoticed
  DefunctIsReplaced
CHECK_DEADLOCK FALSE
