SPECIFICATION Spec
CONSTANTS
  None = None
  Diff = Diff
  c1 = c1
  c2 = c2
  Conns <- MCConns
  Listed <- MCListed
  MaxTabs = 3
  MaxAttempts = 2
  MaxLaunches = 2
  MaxEdits = 2
INVARIANTS
  OpensWhereAskedUnlessMoved
  ConnectingIsServed
PROPERTIES
  RestoredTextIsItsOwn
  SnippetsGoToTheirConnection
