SPECIFICATION Spec
CONSTANTS
  Routers = {1, 2}
  Links = {1, 2, 3, 4}
  SourceLinks = {1, 2}
  Vifs <- TwoWayVifs
  Routes <- TwoWayRoutes
  HostLinks = {4}
  Removable <- Nothing2
  HoldForwarding = FALSE
  Events = {"source", "route"}
  MaxEvents = 2
  LongLifetime = TRUE
  MaxInFlight = 2
CHECK_DEADLOCK FALSE
INVARIANTS
  NoOrphanTree
