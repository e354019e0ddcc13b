SPECIFICATION SubsFairSpec
CONSTANTS
  NoClient = NoClient
  Clients = {c1, c2, c3}
  Subs = {s1, s2, s3}
  Parallel = {c2}
  ReadErrors = {c3}
INVARIANTS
  RegistryConsistent
  RunningTailsAreRegistered
  CleanupIsComplete
PROPERTIES
  CleanupStopsOnlyItsOwn
  TailsEndWithTheirClient
CHECK_DEADLOCK FALSE
