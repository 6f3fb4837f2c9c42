SPECIFICATION Spec
CONSTANTS
  Clients = {c1}
  Reconnector = Reconnector
  Signal = Signal
  Requests = {"CONNECT", "DISCONNECT"}
  AutoReconnect = TRUE
  SetupFails = FALSE
  Timely = TRUE
  MaxSessions = 2
INVARIANT DisconnectWins
CHECK_DEADLOCK FALSE
