SPECIFICATION ServersSpec
CONSTANTS
  None = None
  Servers = {s1, s2, s3, s4}
INVARIANTS
  ServingIsReachable
PROPERTIES
  StaleFilesAreNoObstacle
CHECK_DEADLOCK FALSE
