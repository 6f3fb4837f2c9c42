SPECIFICATION Spec
CONSTANTS
  Clients = {c1}
  Reconnector = Reconnector
  Signal = Signal
  Requests = {"CONNECT"}
  AutoReconnect = TRUE
  SetupFails = FALSE
  Timely = TRUE
  MaxSessions = 3
INVARIANT UpWhenWanted
CHECK_DEADLOCK FALSE
