SPECIFICATION FairSpec
CONSTANTS
  Cap = 2
  MaxItems = 6
INVARIANTS
  NoLostWakeup
  StragglersBounded
PROPERTIES
  ImplementsFeed
CHECK_DEADLOCK FALSE
