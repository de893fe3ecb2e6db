SPECIFICATION Spec
CONSTANTS
  OnBase = {TRUE}
  Inactivity = FALSE
  PeerEnds = {"fin"}
  Callbacks = {"ignore", "reply", "echo"}
  UserTasks = {"Send"}
  MaxCalls = 0
  MaxData = 1
INVARIANTS HandlerHasChannel
CHECK_DEADLOCK FALSE
