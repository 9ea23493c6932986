CONSTANTS
  Asks = {a1, a2}
  Enders = {e1}
  Release = release
  None = none
SPECIFICATION FairSpec
INVARIANTS
  StopClosesTheRest
  EverySpeechIsOwned
  EverySessionIsOwned
  SilentOutsideTheCall
PROPERTIES
  KeepsLedger
  TeardownCompletes
  GrantSettles
CHECK_DEADLOCK FALSE
