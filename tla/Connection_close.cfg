SPECIFICATION FairSpec
CONSTANTS
  OnBase = {TRUE, FALSE}
  Inactivity = FALSE
  PeerEnds = {"fin"}
  Callbacks = {"ignore", "reply", "echo"}
  UserTasks = {"Send"}
  MaxCalls = 2
  MaxData = 2
INVARIANTS TypeOK ReleasedAtMostOnce WatchedAsNeeded
PROPERTIES CloseFlushes FinReleases
CHECK_DEADLOCK FALSE
