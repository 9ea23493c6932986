CONSTANTS
  Asks = {a1, a2}
  Enders = {e1, e2}
  Release = release
  None = none
SPECIFICATION Spec
INVARIANT EveryCallOffered
CHECK_DEADLOCK FALSE
