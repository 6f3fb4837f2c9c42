SPECIFICATION Spec
CONSTRAINT Apart
SYMMETRY SnifferSymmetry
CONSTANTS
  MaxSessions = 2
  Phys = Phys
  Zero = Zero
  Server = Server
  Include = {}
  Exclude = {exc}
  Replies = {{a1}, {a2}}
  Sniffers = {k1, k2}
  DefaultPrios = {100, 600}
  RouteFails = TRUE
  Crashes = TRUE
INVARIANTS ResolvRestored NoLeftovers DefaultRouteKept LocalIsPhysical TrafficTunnelled
CHECK_DEADLOCK FALSE
