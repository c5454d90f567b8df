SPECIFICATION FairSpec
CONSTANTS
  Routers = {1, 2, 3}
  Links = {1, 2, 3}
  SourceLinks = {1}
  Vifs <- SharedVifs
  Routes <- LoopRoutes
  HostLinks = {}
  Removable <- Nothing3
  HoldForwarding = TRUE
  Events = {"source"}
  MaxEvents = 2
  LongLifetime = TRUE
  MaxInFlight = 2
CHECK_DEADLOCK FALSE
INVARIANTS
  NoOrphanTree
PROPERTIES
  TreeForms
  TreeDies
