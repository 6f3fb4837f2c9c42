SPECIFICATION Spec
CONSTANTS
  Clients = {c1, c2}
  Reconnector = Reconnector
  Signal = Signal
  Requests = {"CONNECT", "RECONNECT", "DISCONNECT", "STOP"}
  AutoReconnect = TRUE
  SetupFails = TRUE
  Timely = FALSE
  MaxSessions = 2
SYMMETRY ClientSymmetry
VIEW Observed
INVARIANTS TypeOK NoFalseAbort CurrentIsOpen  FlagMeansReconnecting
PROPERTY ImplementsRegister
CHECK_DEADLOCK FALSE
