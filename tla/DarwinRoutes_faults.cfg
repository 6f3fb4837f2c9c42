SPECIFICATION Spec
SYMMETRY GatewaySymmetry
CONSTANTS
  MaxSessions = 2
  LocalGateways = {g1, g2}
  NoRoute = NoRoute
  System = System
  srv = srv
  lan = lan
  inc = inc
  exc = exc
  srvdns = srvdns
  Server = srv
  Include <- MCInclude
  Exclude <- MCExclude
  DNS <- MCDns
  Answers <- MCAnswers
  SystemRoutes = {lan, srv}
  DynamicDomains = TRUE
  AddFails = TRUE
  DeleteFails = TRUE
  AckLost = TRUE
  DnsFails = TRUE
  Crashes = TRUE
  Orderly = TRUE
INVARIANTS SystemRoutesKept CleanWhenClosed FailedLeavesNothing SplitFollowsSession ServerRouteCurrent
CHECK_DEADLOCK FALSE
