SPECIFICATION FairSpec
CONSTANTS
  EventsCap = 3
  MaxChanges = 2
INVARIANTS SendsAreSafe SocketClosedOnce WintunAlive
PROPERTIES CloseReturns PumpsLeave
CHECK_DEADLOCK FALSE
