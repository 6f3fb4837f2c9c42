--------------------------- MODULE MCDarwinRoutes ---------------------------
(***************************************************************************)
(* Instances of DarwinRoutes for TLC: one included network that the host   *)
(* already has a route for and one it has not, an excluded one, and a DNS  *)
(* server whose address a sniffer may add as well.                         *)
(***************************************************************************)
EXTENDS DarwinRoutes, TLC

CONSTANTS srv, lan, inc, exc, srvdns

MCInclude == <<lan, inc>>
MCExclude == <<exc>>
MCDns == <<srvdns>>
MCAnswers == <<srvdns>>
GatewaySymmetry == Permutations(LocalGateways)

=============================================================================
