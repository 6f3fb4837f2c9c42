SPECIFICATION FairSpec
CONSTANTS
  Cap = 1
  MaxAttempts = 1
  SetupFails = FALSE
  DTLSOff = TRUE
  Requests = {"STATUS", "CONFIG"}
PROPERTY StatusReleased
CHECK_DEADLOCK FALSE
