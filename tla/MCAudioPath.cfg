CONSTANTS
  Publishers = {p}
  Conns = {c, d}
  MaxInbox = 2
  None = None
  Ended = Ended
SPECIFICATION Spec
CHECK_DEADLOCK FALSE
INVARIANTS
  EveryoneIsMixed
  NoStrayConnection
PROPERTIES EveryoneIsMixedAtLast
