SPECIFICATION FairSpec
CONSTANTS
  Cap = 1
  MaxAttempts = 1
  SetupFails = FALSE
  DTLSOff = FALSE
  Requests = {}
PROPERTY OutboundFlows
CHECK_DEADLOCK FALSE
