CONSTANTS
  MaxReconnects = 2
  MaxWords = 3
  MaxInbox = 2
  MaxOpened = 3
SPECIFICATION FairSpec
INVARIANTS
  ConfirmedTextKept
  EndIsReported
  FailureIsFinal
  NoStrayConnection
  BudgetHolds
PROPERTIES
  ReopeningEnds
  AcloseCompletes
CHECK_DEADLOCK FALSE
