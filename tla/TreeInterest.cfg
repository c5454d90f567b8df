SPECIFICATION Spec
CONSTANTS
  Routers = {1, 2, 3}
  Links = {1, 2, 3, 4, 5}
  SourceLinks = {1}
  Vifs <- DetourVifs
  Routes <- DetourRoutes
  HostLinks = {3, 4}
  Removable <- Nothing3
  HoldForwarding = TRUE
  Events = {"route"}
  MaxEvents = 1
  LongLifetime = TRUE
  MaxInFlight = 2
CHECK_DEADLOCK FALSE
INVARIANTS
  InterestIsTrue
