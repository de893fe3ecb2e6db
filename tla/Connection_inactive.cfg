SPECIFICATION Spec
CONSTANTS
  OnBase = {TRUE, FALSE}
  Inactivity = TRUE
  PeerEnds = {"fin", "reset"}
  Callbacks = {"ignore", "reply", "echo"}
  UserTasks = {"Send", "Shutdown", "Cancel"}
  MaxCalls = 2
  MaxData = 2
INVARIANTS ArmedTimerHasTarget
CHECK_DEADLOCK FALSE
