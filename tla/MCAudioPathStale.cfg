CONSTANTS
  Publishers = {p}
  Conns = {c, d}
  MaxInbox = 1
  None = None
  Ended = Ended
SPECIFICATION Spec
CHECK_DEADLOCK FALSE
INVARIANTS
  ConnectionsEndWithTheCall
