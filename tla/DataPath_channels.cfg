SPECIFICATION FairSpec
CONSTANTS
  Cap = 1
  MaxAttempts = 1
  SetupFails = TRUE
  DTLSOff = FALSE
  Requests = {"STATUS", "CONFIG"}
INVARIANTS TypeOK FlagMeansChannel OldSendersTakeOne
PROPERTIES TlsSideEnds DtlsSideEnds
CHECK_DEADLOCK FALSE
