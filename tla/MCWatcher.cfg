CONSTANTS
  Rooms = {r, s}
  Floor = 2
  Ceiling = 4
  Poll = 1
  MaxFailures = 2
  None = None
  Envs <- MCEnvs
  IceUrls = {u, v}
  Credentials = {k, l}
  NoCredential = NoCredential
  Blank = Blank
  Roles = {service_account, other}
  EXPECTED_ROLE = service_account
  Width = 2
  MAX_LOG_LINES = 3
SPECIFICATION Spec
INVARIANTS
  HeldAreWanted
  OneSessionPerRoom
  DelayFollowsFailures
PROPERTIES
  WatchedAtLast
